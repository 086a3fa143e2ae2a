---------------------------- MODULE MessageRelay ----------------------------
(***************************************************************************)
(* The life of a ciphertext frame in the backend: websocket_endpoint       *)
(* (backend/app/main.py) hands it to store_ciphertext                      *)
(* (backend/app/services/message_service.py), which checks the membership, *)
(* rejects replays (db/repositories/replay.py) and stores it               *)
(* (db/repositories/messages.py); then the endpoint relays it.             *)
(*                                                                         *)
(* An endpoint handles one frame at a time and may be preempted at every   *)
(* database call and at every send.  Who is connected is the business of   *)
(* ConnectionManager: here a broadcast goes to all sockets of other users. *)
(***************************************************************************)
EXTENDS Naturals, Sequences

CONSTANTS
    Users,
    Sockets,
    owner,      \* the user of a socket
    MsgIds,     \* values of msg_id, chosen by the clients
    NoId,       \* a frame without one: it is not checked for replay
    Burst,      \* the most frames a socket sends: a bound of the model
    Fallible,   \* the sockets whose endpoint may die in the middle of a frame
    Leavers     \* the users who may leave the room

Ids == MsgIds \cup {NoId}

ASSUME RelayAssumption ==
    /\ owner \in [Sockets -> Users]
    /\ NoId \notin MsgIds
    /\ Burst \in Nat

\* The n-th frame of a socket; a stored document also has its created_at.
Frames == [socket : Sockets, n : Nat, id : Ids]
Documents == [socket : Sockets, n : Nat, id : Ids, at : Nat]

VARIABLES
    members,    \* rooms.member_ids
    outbox,     \* the ids of the frames a socket has yet to send
    frame,      \* the frame an endpoint is handling, or the last one it did
    pc,         \* what an endpoint does next
    clock,      \* created_at of the last document, a logical time
    stamp,      \* created_at of the document an endpoint is storing
    todo,       \* the sockets a broadcast has yet to send to
    seen,       \* the msg_ids in message_replays
    messages,   \* the documents in messages
    inbox,      \* what a socket was relayed, in order
    refused,    \* history: the frames answered with Duplicate message rejected
    expired,    \* history: msg_ids that message_replays forgot
    lost,       \* history: msg_ids whose endpoint died after remembering them
    late        \* history: the frames stored after their user left

vars == <<members, outbox, frame, pc, clock, stamp, todo, seen, messages,
          inbox, refused, expired, lost, late>>

Places == {"receive", "member", "seen", "remember", "stamp", "insert", "relay"}

TypeOK ==
    /\ members \subseteq Users
    /\ outbox \in [Sockets -> Seq(Ids)]
    /\ frame \in [Sockets -> Frames]
    /\ pc \in [Sockets -> Places]
    /\ clock \in Nat
    /\ stamp \in [Sockets -> Nat]
    /\ todo \in [Sockets -> SUBSET Sockets]
    /\ seen \subseteq MsgIds
    /\ messages \subseteq Documents
    /\ inbox \in [Sockets -> Seq(Frames)]
    /\ refused \subseteq Frames
    /\ expired \subseteq MsgIds
    /\ lost \subseteq MsgIds
    /\ late \subseteq Frames

Init ==
    /\ members = Users
    /\ outbox \in [Sockets -> UNION {[1..k -> Ids] : k \in 0..Burst}]
    /\ frame = [s \in Sockets |-> [socket |-> s, n |-> 0, id |-> NoId]]
    /\ pc = [s \in Sockets |-> "receive"]
    /\ clock = 0
    /\ stamp = [s \in Sockets |-> 0]
    /\ todo = [s \in Sockets |-> {}]
    /\ seen = {} /\ messages = {}
    /\ inbox = [s \in Sockets |-> <<>>]
    /\ refused = {} /\ expired = {} /\ lost = {} /\ late = {}

Goto(s, from, to) == pc[s] = from /\ pc' = [pc EXCEPT ![s] = to]

history == <<refused, expired, lost, late>>

\* receive_text; a frame that is too large, or is typing, is not stored.
Receive(s) ==
    /\ Goto(s, "receive", "member")
    /\ outbox[s] # <<>>
    /\ frame' = [frame EXCEPT ![s] = [socket |-> s, n |-> frame[s].n + 1,
                                      id |-> Head(outbox[s])]]
    /\ outbox' = [outbox EXCEPT ![s] = Tail(outbox[s])]
    /\ UNCHANGED <<members, clock, stamp, todo, seen, messages, inbox, history>>

\* Mutant: nobody is asked for the membership.
CheckNobody(s) ==
    /\ Goto(s, "member", IF frame[s].id = NoId THEN "stamp" ELSE "seen")
    /\ UNCHANGED <<members, outbox, frame, clock, stamp, todo, seen, messages,
                   inbox, history>>

\* Mutant: a frame without an id is checked for replay as well.
CheckEveryId(s) ==
    /\ Goto(s, "member", IF owner[s] \in members THEN "seen" ELSE "receive")
    /\ UNCHANGED <<members, outbox, frame, clock, stamp, todo, seen, messages,
                   inbox, history>>

\* A non-member is answered Not authorized to send.
CheckMember(s) ==
    /\ Goto(s, "member", IF owner[s] \notin members THEN "receive"
                         ELSE IF frame[s].id = NoId THEN "stamp" ELSE "seen")
    /\ UNCHANGED <<members, outbox, frame, clock, stamp, todo, seen, messages,
                   inbox, history>>

\* Mutant: the answer of is_seen is misread.
CheckSeenInverted(s) ==
    /\ Goto(s, "seen", IF frame[s].id \in seen THEN "remember" ELSE "receive")
    /\ refused' = IF frame[s].id \in seen THEN refused ELSE refused \cup {frame[s]}
    /\ UNCHANGED <<members, outbox, frame, clock, stamp, todo, seen, messages,
                   inbox, expired, lost, late>>

CheckSeen(s) ==
    /\ Goto(s, "seen", IF frame[s].id \in seen THEN "receive" ELSE "remember")
    /\ refused' = IF frame[s].id \in seen THEN refused \cup {frame[s]} ELSE refused
    /\ UNCHANGED <<members, outbox, frame, clock, stamp, todo, seen, messages,
                   inbox, expired, lost, late>>

\* Mutant: the update without its upsert.
RememberNothing(s) ==
    /\ Goto(s, "remember", "stamp")
    /\ UNCHANGED <<members, outbox, frame, clock, stamp, todo, seen, messages,
                   inbox, history>>

Remember(s) ==
    /\ Goto(s, "remember", "stamp")
    /\ seen' = seen \cup {frame[s].id}
    /\ UNCHANGED <<members, outbox, frame, clock, stamp, todo, messages, inbox,
                   history>>

\* created_at is the time before the insert is sent to the database, kept in
\* milliseconds: it may not have advanced since the last one.
Stamp(s) ==
    /\ Goto(s, "stamp", "insert")
    /\ clock' \in {clock, clock + 1}
    /\ stamp' = [stamp EXCEPT ![s] = clock']
    /\ UNCHANGED <<members, outbox, frame, todo, seen, messages, inbox, history>>

Document(s) == [socket |-> s, n |-> frame[s].n, id |-> frame[s].id, at |-> stamp[s]]

Recipients(s) == {t \in Sockets : owner[t] # owner[s]}

\* Mutant: insert_one without its await, which never runs.
InsertNotAwaited(s) ==
    /\ Goto(s, "insert", "relay")
    /\ todo' = [todo EXCEPT ![s] = Recipients(s)]
    /\ UNCHANGED <<members, outbox, frame, clock, stamp, seen, messages, inbox,
                   history>>

Insert(s) ==
    /\ Goto(s, "insert", "relay")
    /\ messages' = messages \cup {Document(s)}
    /\ todo' = [todo EXCEPT ![s] = Recipients(s)]
    /\ late' = IF owner[s] \in members THEN late ELSE late \cup {frame[s]}
    /\ UNCHANGED <<members, outbox, frame, clock, stamp, seen, inbox, refused,
                   expired, lost>>

\* One send of the broadcast; the order over recipients is the dictionary's.
Relay(s, t) ==
    /\ pc[s] = "relay" /\ t \in todo[s]
    /\ inbox' = [inbox EXCEPT ![t] = Append(@, frame[s])]
    /\ todo' = [todo EXCEPT ![s] = @ \ {t}]
    /\ UNCHANGED <<members, outbox, frame, pc, clock, stamp, seen, messages, history>>

Relayed(s) ==
    /\ Goto(s, "relay", "receive")
    /\ todo[s] = {}
    /\ UNCHANGED <<members, outbox, frame, clock, stamp, todo, seen, messages,
                   inbox, history>>

\* leave_room, from the side of the members.
LeaveRoom(u) ==
    /\ u \in members
    /\ members' = members \ {u}
    /\ UNCHANGED <<outbox, frame, pc, clock, stamp, todo, seen, messages, inbox,
                   history>>

\* The TTL index of message_replays.
Expire(id) ==
    /\ id \in seen
    /\ seen' = seen \ {id}
    /\ expired' = expired \cup {id}
    /\ UNCHANGED <<members, outbox, frame, pc, clock, stamp, todo, messages,
                   inbox, refused, lost, late>>

\* The endpoint dies with the frame (a database error is not caught there);
\* the client connects again and goes on with its next frame.
Fail(s) ==
    /\ pc[s] # "receive"
    /\ pc' = [pc EXCEPT ![s] = "receive"]
    /\ todo' = [todo EXCEPT ![s] = {}]
    /\ lost' = IF pc[s] \in {"stamp", "insert"} /\ frame[s].id # NoId
               THEN lost \cup {frame[s].id} ELSE lost
    /\ UNCHANGED <<members, outbox, frame, clock, stamp, seen, messages, inbox,
                   refused, expired, late>>

Handle(s) ==
    \/ Receive(s) \/ CheckMember(s) \/ CheckSeen(s) \/ Remember(s)
    \/ Stamp(s) \/ Insert(s) \/ (\E t \in Sockets : Relay(s, t)) \/ Relayed(s)

Next ==
    \/ \E s \in Sockets : Handle(s)
    \/ \E u \in Leavers \cap Users : LeaveRoom(u)
    \/ \E id \in MsgIds : Expire(id)
    \/ \E s \in Fallible \cap Sockets : Fail(s)

Spec == Init /\ [][Next]_vars

-----------------------------------------------------------------------------
(* Properties *)

StoredIds == {d.id : d \in messages}
IsStored(m) == \E d \in messages : d.socket = m.socket /\ d.n = m.n

\* Whatever reaches a client is in the history that the client can load,
\* even if the endpoint died in the middle of relaying it.  A consequence of LogSpec.
RelayedIsStored ==
    \A t \in Sockets : \A i \in DOMAIN inbox[t] : IsStored(inbox[t][i])

\* Every client is relayed the frames of one socket in the order that the
\* history shows them: its created_at never orders them the other way round.  A
\* consequence of LogSpec.
RelayKeepsHistoryOrder ==
    \A t \in Sockets : \A i, j \in DOMAIN inbox[t] :
        i < j /\ inbox[t][i].socket = inbox[t][j].socket =>
            \A c, d \in messages :
                /\ c.socket = inbox[t][i].socket /\ c.n = inbox[t][i].n
                /\ d.socket = c.socket /\ d.n = inbox[t][j].n
                => c.at <= d.at

\* A socket that repeats a msg_id does not get it stored twice, as long as the
\* id has not expired: the look-up and the upsert of the replay check are two
\* calls, and only the endpoint's one-frame-at-a-time loop holds them together.
OneCopyPerSocket ==
    \A c, d \in messages :
        /\ c.socket = d.socket /\ c.id = d.id
        /\ c.id \notin expired \cup {NoId}
        => c = d

\* A user who left gets at most one more frame of a socket stored: the one that
\* was past the membership check.  The socket is not closed by the leave, so
\* only the check that is made again for every frame keeps the others out.
AtMostOneLateFrame == \A m, k \in late : m.socket = k.socket => m = k

\* A frame refused as a duplicate is one of a message that is stored, that is
\* about to be stored, or whose endpoint died before storing it.
RefusedWasAccepted ==
    \A m \in refused :
        \/ m.id \in StoredIds \cup lost
        \/ \E s \in Sockets : frame[s].id = m.id /\ pc[s] \in {"stamp", "insert"}

\* The relay implements MessageLog: whatever its endpoints interleave, remember
\* and lose, the room sees one history that grows in order, and every socket gets
\* parts of it in order and without repetition.
Log == INSTANCE MessageLog WITH forgotten <- expired, spent <- {m.socket : m \in late}
LogSpec == Log!Spec

\* No msg_id is stored twice while it is remembered (README: MongoDB TTL
\* deduplication rejects duplicates).
NoDuplicateStored ==
    \A c, d \in messages :
        c.id = d.id /\ c.id \notin expired \cup {NoId} => c = d

\* A frame refused as a duplicate is one of a message that is stored or is
\* about to be (main.py: Duplicate message rejected).
RefusedWasStored ==
    \A m \in refused :
        \/ m.id \in StoredIds
        \/ \E s \in Sockets : frame[s].id = m.id /\ pc[s] \in {"stamp", "insert"}
=============================================================================
