-------------------------- MODULE ConnectionManager --------------------------
(***************************************************************************)
(* The registry of live WebSockets of one room                             *)
(* (backend/app/websocket/manager.py) and the endpoint coroutine that uses *)
(* it (backend/app/main.py, websocket_endpoint).                           *)
(*                                                                         *)
(* asyncio runs a coroutine until it awaits.  turn is the coroutine that   *)
(* is running between two awaits, or NoOne; an action that ends in an      *)
(* await gives the turn back.  The per-room dictionaries are objects with  *)
(* an identity: connect and broadcast keep a reference to one across       *)
(* awaits, while another coroutine may drop it from self.rooms and a third *)
(* may create its successor.                                               *)
(***************************************************************************)
EXTENDS Naturals, FiniteSets

CONSTANTS
    Users,
    Sockets,        \* WebSocket connections, each with its endpoint coroutine
    owner,          \* the user of a socket
    displayName,    \* the display name of a user
    Announcers,     \* REST handlers that broadcast keys_rotated
    Dicts,          \* identities of per-room dictionaries
    NoDict,         \* what rooms.get(room_id, {}) falls back to: an empty one
    NoOne,
    Reconnect,      \* when a client opens another socket: see Admissible
    Kinds           \* what clients send

Actors == Sockets \cup Announcers

ASSUME ManagerAssumption ==
    /\ owner \in [Sockets -> Users]
    /\ DOMAIN displayName = Users
    /\ Sockets \cap Announcers = {}
    /\ NoDict \notin Dicts
    /\ NoOne \notin Actors
    /\ Reconnect \in {"any", "serial"}
    /\ Kinds \subseteq {"typing", "store", "reply"}
    /\ IsFiniteSet(Sockets)

VARIABLES
    room,       \* self.rooms[room_id], NoDict when there is none
    entries,    \* the sockets in a dictionary, at most one of each user
    link,       \* a socket as the server sees it: "gone" when the client left,
                \* "closed" when its application_state is DISCONNECTED
    pc,         \* where a coroutine is
    home,       \* the local variable room of connect
    loop,       \* the local variables of broadcast
    turn        \* the coroutine that runs

vars == <<room, entries, link, pc, home, loop, turn>>

\* The broadcasts a coroutine makes, by what it says in them.
Phases == {"presence", "join", "typing", "message", "goodbye", "left", "announce"}
Ended == {"over", "crashed"}
Places == {"off", "accept", "replace", "register", "loop", "receive", "store",
           "reply", "replied"} \cup Phases \cup Ended

\* at is the socket whose send is being awaited.
NoLoop == [active |-> FALSE, room |-> NoDict, size |-> 0, passed |-> {},
           at |-> {}, dead |-> {}]

Locals == [active : BOOLEAN, room : Dicts \cup {NoDict}, size : Nat,
           passed : SUBSET Users, at : SUBSET Sockets, dead : SUBSET Users]

TypeOK ==
    /\ room \in Dicts \cup {NoDict}
    /\ entries \in [Dicts \cup {NoDict} -> SUBSET Sockets]
    /\ link \in [Sockets -> {"none", "open", "gone", "closed"}]
    /\ pc \in [Actors -> Places]
    /\ home \in [Sockets -> Dicts \cup {NoDict}]
    /\ loop \in [Actors -> Locals]
    /\ turn \in Actors \cup {NoOne}

Init ==
    /\ room = NoDict
    /\ entries = [d \in Dicts \cup {NoDict} |-> {}]
    /\ link = [s \in Sockets |-> "none"]
    /\ pc = [a \in Actors |-> "off"]
    /\ home = [s \in Sockets |-> NoDict]
    /\ loop = [a \in Actors |-> NoLoop]
    /\ turn = NoOne

Of(d, u) == {s \in entries[d] : owner[s] = u}
UsersIn(d) == {owner[s] : s \in entries[d]}
Without(d, U) == {s \in entries[d] : owner[s] \notin U}

Run(a) == turn \in {a, NoOne}
Continue(a) == Run(a) /\ turn' = a
Yield(a) == Run(a) /\ turn' = NoOne
At(a, place) == pc' = [pc EXCEPT ![a] = place]

\* Removing keys from a dictionary: if one of them is inserted again, it goes
\* to the end, and the iterations that had passed it come by once more.
Purged(d, U) ==
    [a \in Actors |->
        IF loop[a].room = d THEN [loop[a] EXCEPT !.passed = @ \ U] ELSE loop[a]]

-----------------------------------------------------------------------------
(* Clients *)

Serial(s) ==
    \A t \in Sockets \ {s} :
        owner[t] = owner[s] => pc[t] \in {"off"} \cup Ended

Admissible(s) == Reconnect = "serial" => Serial(s)

\* The handshake: _authenticate_ws and is_member have let the user in.
Open(s) ==
    /\ link[s] = "none" /\ Admissible(s)
    /\ link' = [link EXCEPT ![s] = "open"]
    /\ At(s, "accept")
    /\ UNCHANGED <<room, entries, home, loop, turn>>

Drop(s) ==
    /\ link[s] = "open"
    /\ link' = [link EXCEPT ![s] = "gone"]
    /\ UNCHANGED <<room, entries, pc, home, loop, turn>>

-----------------------------------------------------------------------------
(* connect *)

\* An object that nothing refers to: what {} in setdefault creates.
Unused(d) ==
    /\ d # room
    /\ \A s \in Sockets : home[s] # d
    /\ \A a \in Actors : loop[a].room # d

Fresh == CHOOSE d \in Dicts \cup {NoDict} :
             IF \E f \in Dicts : Unused(f) THEN d \in Dicts /\ Unused(d) ELSE d = NoDict

\* Mutant: rooms[room_id] = {} instead of setdefault.
EnterNewDict(s) ==
    /\ pc[s] = "accept"
    /\ Fresh \in Dicts
    /\ room' = Fresh
    /\ entries' = [entries EXCEPT ![Fresh] = {}]
    /\ home' = [home EXCEPT ![s] = Fresh]
    /\ At(s, "register") /\ Continue(s)
    /\ UNCHANGED <<link, loop>>

\* After accept: setdefault, then close the user's other socket, if it has one
\* (closing a closed one raises at once).
Enter(s) ==
    LET d == IF room = NoDict THEN Fresh ELSE room
        existing == {t \in Of(room, owner[s]) : link[t] # "closed"}
    IN /\ pc[s] = "accept"
       /\ d \in Dicts
       /\ room' = d
       /\ entries' = IF room = NoDict THEN [entries EXCEPT ![d] = {}] ELSE entries
       /\ home' = [home EXCEPT ![s] = d]
       /\ link' = [t \in Sockets |-> IF t \in existing THEN "closed" ELSE link[t]]
       /\ IF existing = {} THEN At(s, "register") /\ Continue(s)
                           ELSE At(s, "replace") /\ Yield(s)
       /\ UNCHANGED loop

Register(s) ==
    /\ pc[s] \in {"register", "replace"} /\ Continue(s)
    /\ entries' = [entries EXCEPT ![home[s]] =
                      Without(home[s], {owner[s]}) \cup {s}]
    /\ home' = [home EXCEPT ![s] = NoDict]
    /\ At(s, "presence")
    /\ UNCHANGED <<room, link, loop>>

-----------------------------------------------------------------------------
(* broadcast *)

\* exclude_user_id of a join and a message; exclude, by name, of typing.
Excluded(a, u) ==
    \/ pc[a] \in {"join", "message"} /\ u = owner[a]
    \/ pc[a] = "typing" /\ displayName[u] = displayName[owner[a]]

Begin(a) ==
    /\ pc[a] \in Phases /\ ~loop[a].active /\ Continue(a)
    /\ loop' = [loop EXCEPT ![a] =
                   [NoLoop EXCEPT !.active = TRUE, !.room = room,
                                  !.size = Cardinality(entries[room])]]
    /\ UNCHANGED <<room, entries, link, pc, home>>

Iterating(a) == loop[a].active /\ loop[a].at = {}
SameSize(a) == Cardinality(entries[loop[a].room]) = loop[a].size

\* The next entry, in any order: skipped, found closed, or sent to.
Visit(a, s) ==
    /\ Iterating(a) /\ SameSize(a)
    /\ s \in entries[loop[a].room] /\ owner[s] \notin loop[a].passed
    /\ \/ /\ Excluded(a, owner[s]) /\ Continue(a)
          /\ loop' = [loop EXCEPT ![a].passed = @ \cup {owner[s]}]
       \/ /\ ~Excluded(a, owner[s]) /\ link[s] = "closed" /\ Continue(a)
          /\ loop' = [loop EXCEPT ![a].passed = @ \cup {owner[s]},
                                  ![a].dead = @ \cup {owner[s]}]
       \/ /\ ~Excluded(a, owner[s]) /\ link[s] # "closed" /\ Yield(a)
          /\ loop' = [loop EXCEPT ![a].passed = @ \cup {owner[s]},
                                  ![a].at = {s}]
    /\ UNCHANGED <<room, entries, link, pc, home>>

Sent(a) ==
    /\ loop[a].at # {} /\ Continue(a)
    /\ loop' = [loop EXCEPT ![a].at = {}]
    /\ UNCHANGED <<room, entries, link, pc, home>>

\* Mutant of SendFailed: the socket is appended to dead instead of the uid.
SendFailedSocket(a, s) ==
    /\ loop[a].at = {s} /\ link[s] # "open" /\ Continue(a)
    /\ link' = [link EXCEPT ![s] = "closed"]
    /\ loop' = [loop EXCEPT ![a].at = {}, ![a].dead = @ \cup {s}]
    /\ UNCHANGED <<room, entries, pc, home>>

\* The transport failed: send_text marks the socket DISCONNECTED and raises.
SendFailed(a, s) ==
    /\ loop[a].at = {s} /\ link[s] # "open" /\ Continue(a)
    /\ link' = [link EXCEPT ![s] = "closed"]
    /\ loop' = [loop EXCEPT ![a].at = {}, ![a].dead = @ \cup {owner[s]}]
    /\ UNCHANGED <<room, entries, pc, home>>

\* An exception other than WebSocketDisconnect ends the endpoint, which says no
\* goodbye; the server closes the socket.
Crash(a) ==
    /\ At(a, "crashed") /\ Yield(a)
    /\ link' = [s \in Sockets |-> IF s = a THEN "closed" ELSE link[s]]
    /\ loop' = [loop EXCEPT ![a] = NoLoop]
    /\ UNCHANGED <<room, entries, home>>

\* RuntimeError: dictionary changed size during iteration.
SizeChanged(a) == Iterating(a) /\ ~SameSize(a) /\ Crash(a)

After(place) ==
    CASE place = "presence" -> "join"
      [] place \in {"join", "message", "typing"} -> "loop"
      [] place = "goodbye" -> "left"
      [] place \in {"left", "announce"} -> "over"

\* The dead are popped by user id, whatever socket is there now.
EndLoop(a) ==
    /\ Iterating(a) /\ SameSize(a)
    /\ UsersIn(loop[a].room) \subseteq loop[a].passed
    /\ entries' = [entries EXCEPT ![loop[a].room] =
                      Without(loop[a].room, loop[a].dead)]
    /\ loop' = [Purged(loop[a].room, loop[a].dead) EXCEPT ![a] = NoLoop]
    /\ At(a, After(pc[a]))
    /\ IF After(pc[a]) = "over" THEN Yield(a) ELSE Continue(a)
    /\ UNCHANGED <<room, link, home>>

-----------------------------------------------------------------------------
(* websocket_endpoint *)

\* receive_text: a RuntimeError if the socket has been closed meanwhile.
Await(s) ==
    /\ pc[s] = "loop"
    /\ \/ link[s] = "closed" /\ Crash(s)
       \/ /\ link[s] # "closed" /\ At(s, "receive") /\ Yield(s)
          /\ UNCHANGED <<room, entries, link, home, loop>>

\* A frame: typing is relayed at once, a message is stored first, and a frame
\* that is too large is answered with an error.
Incoming(s, kind) ==
    /\ pc[s] = "receive" /\ link[s] = "open"
    /\ At(s, kind)
    /\ IF kind = "store" THEN Yield(s) ELSE Continue(s)
    /\ UNCHANGED <<room, entries, link, home, loop>>

\* store_ciphertext accepts the message, refuses it, or fails: the endpoint
\* catches its ValidationError and AuthorizationError, and no database error.
Stored(s) ==
    /\ pc[s] = "store"
    /\ \/ Crash(s)
       \/ /\ Continue(s)
          /\ \E place \in {"message", "reply"} : At(s, place)
          /\ UNCHANGED <<room, entries, link, home, loop>>

\* Mutants of Leave: the goodbye without the pop; the pop of the whole room.
LeaveNotifyOnly(s) ==
    /\ Continue(s) /\ At(s, "goodbye")
    /\ UNCHANGED <<room, entries, loop, home>>
LeaveDropsRoom(s) ==
    /\ Continue(s) /\ At(s, "left")
    /\ room' = NoDict
    /\ UNCHANGED <<entries, loop, home>>

\* disconnect, by user id; the presence broadcast only if the room is left.
Leave(s) ==
    LET rest == Without(room, {owner[s]})
    IN /\ Continue(s)
       /\ entries' = [entries EXCEPT ![room] = rest]
       /\ loop' = Purged(room, {owner[s]})
       /\ room' = IF rest = {} THEN NoDict ELSE room
       /\ At(s, IF rest = {} THEN "left" ELSE "goodbye")
       /\ UNCHANGED home

\* send_personal of an error event.
Reply(s) ==
    /\ pc[s] = "reply"
    /\ \/ link[s] = "closed" /\ Crash(s)
       \/ /\ link[s] # "closed" /\ At(s, "replied") /\ Yield(s)
          /\ UNCHANGED <<room, entries, link, home, loop>>

Replied(s) ==
    /\ pc[s] = "replied"
    /\ \/ /\ At(s, "loop") /\ Continue(s)
          /\ UNCHANGED <<room, entries, link, home, loop>>
       \/ link[s] # "open" /\ link' = [link EXCEPT ![s] = "closed"] /\ Leave(s)

\* Mutant of Disconnected: only a close by the server is noticed.
DisconnectedByServer(s) ==
    /\ pc[s] = "receive" /\ link[s] = "closed"
    /\ Leave(s)
    /\ UNCHANGED link

\* WebSocketDisconnect, raised in the coroutine that was blocked in receive.
Disconnected(s) ==
    /\ pc[s] = "receive" /\ link[s] \in {"gone", "closed"}
    /\ Leave(s)
    /\ UNCHANGED link

\* A REST handler announces a rotation.
Announce(a) ==
    /\ pc[a] = "off" /\ At(a, "announce") /\ Continue(a)
    /\ UNCHANGED <<room, entries, link, home, loop>>

Broadcast(a) ==
    \/ Begin(a) \/ Sent(a) \/ SizeChanged(a) \/ EndLoop(a)
    \/ \E s \in Sockets : Visit(a, s) \/ SendFailed(a, s)

\* What the endpoint does once it is there; it does not choose its input.
Endpoint(s) ==
    \/ Enter(s) \/ Register(s) \/ Await(s) \/ Stored(s)
    \/ Reply(s) \/ Replied(s) \/ Disconnected(s)

Frame(s) == \E kind \in Kinds : Incoming(s, kind)

Next ==
    \/ \E s \in Sockets : Open(s) \/ Drop(s) \/ Frame(s) \/ Endpoint(s)
    \/ \E a \in Announcers : Announce(a)
    \/ \E a \in Actors : Broadcast(a)

Spec == Init /\ [][Next]_vars

\* asyncio resumes every coroutine whose await has completed, and a send
\* completes or fails: strong fairness, since others take turns meanwhile.
FairSpec ==
    /\ Spec
    /\ \A s \in Sockets : SF_vars(Endpoint(s) \/ Broadcast(s))
    /\ \A a \in Announcers : SF_vars(Broadcast(a))

-----------------------------------------------------------------------------
(* Properties *)

Active(s) == pc[s] = "receive" /\ link[s] = "open"
Tracked(s) == s \in entries[room]

\* An endpoint that waits for frames on an open socket is in the registry, so
\* every broadcast that starts now is sent to it (manager.py: "Track active
\* WebSocket connections").  Registering, replacing, disconnecting and the
\* cleaning up of broadcasts all change the entry of the user, not of the
\* socket.
ActiveIsTracked == \A s \in Sockets : Active(s) => Tracked(s)

\* Nothing in the registry belongs to an endpoint that has ended.
TrackedIsActive == \A s \in Sockets : Tracked(s) => pc[s] \notin Ended

\* What an ended endpoint leaves in the registry is the entry of a socket that was
\* closed when an exception killed the endpoint, so that the next broadcast pops
\* it.  An endpoint that said goodbye leaves nothing, not even in the dictionary
\* that a slower coroutine has put back together.
StaleIsClosed ==
    \A s \in Sockets :
        Tracked(s) /\ pc[s] \in Ended => pc[s] = "crashed" /\ link[s] = "closed"

\* From its registration to its goodbye.
Served(s) ==
    pc[s] \in {"presence", "join", "loop", "receive", "store", "message", "typing",
               "reply", "replied"}

CleanedUp(u) == \E a \in Actors : u \in loop[a].dead /\ EndLoop(a)

\* An endpoint that is being served leaves the registry, or begins outside of it,
\* only because the clean-up of a broadcast pops its user.  It does not lose its
\* entry to the endpoint of another socket that comes, ends or is replaced, nor to
\* a dictionary that is dropped or made meanwhile (manager.py: one socket per
\* user_id).
LosesEntry(s) == ~Tracked(s)' /\ Served(s)' /\ (Tracked(s) \/ ~Served(s))
OnlyCleanUpForgets == [][\A s \in Sockets : LosesEntry(s) => CleanedUp(owner[s])]_vars

\* Another endpoint of the same user takes a step: it replaces s, or pops its entry.
TakenOver(s) == \E t \in Sockets \ {s} : owner[t] = owner[s] /\ pc'[t] # pc[t]

\* While s waited for the close of the socket it replaces, its dictionary was
\* dropped from the registry.
Orphaned(s) == pc[s] = "replace" /\ home[s] # room

\* However the sockets of a user overlap, an endpoint that is being served leaves
\* the registry, or begins outside of it, only on account of the user's own
\* sockets: another endpoint of the user takes over, its dictionary was dropped
\* while it was replacing one, or a broadcast that found one of them closed cleans
\* up.  No other user's coming, going or lost transport does it (manager.py: one
\* socket per user_id; connect, disconnect, broadcast).
OnlyOwnSocketsForget ==
    [][\A s \in Sockets : LosesEntry(s) =>
          \/ TakenOver(s)
          \/ Orphaned(s)
          \/ /\ CleanedUp(owner[s])
             /\ \E t \in Sockets : owner[t] = owner[s] /\ link[t] = "closed"]_vars

\* If clients wait for the end of their last endpoint, one that went away leaves
\* the registry, unless its endpoint is killed by an exception that it does not
\* catch (main.py: only WebSocketDisconnect leads to disconnect_and_notify).
DroppedIsForgotten ==
    \A s \in Sockets :
        link[s] = "gone" ~> (~Tracked(s) \/ pc[s] = "crashed")
=============================================================================
