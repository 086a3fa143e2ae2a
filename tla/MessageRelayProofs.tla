------------------------- MODULE MessageRelayProofs -------------------------
(* Theorems about MessageRelay, for any sockets, message ids and faults. *)
EXTENDS MessageRelay, TLAPS

-----------------------------------------------------------------------------
(* Type correctness *)

\* The clients' frames are sequences of ids.
LEMMA TypeInit ==
    ASSUME Init
    PROVE  TypeOK
<1>1. outbox \in [Sockets -> Seq(Ids)]
  <2>1. \A k \in 0..Burst : [1..k -> Ids] \subseteq Seq(Ids)
    BY RelayAssumption
  <2>2. UNION {[1..k -> Ids] : k \in 0..Burst} \subseteq Seq(Ids)
    BY <2>1
  <2> QED
    BY <2>2 DEF Init
<1> QED
  BY <1>1, RelayAssumption DEF Init, TypeOK, Frames, Places, Ids

\* A frame without an id takes no part in the replay check.
CheckedHasId ==
    \A s \in Sockets : pc[s] \in {"seen", "remember"} => frame[s].id \in MsgIds

\* Every step keeps the types.
LEMMA TypeNext ==
    ASSUME TypeOK, CheckedHasId, [Next]_vars
    PROVE  TypeOK'
<1> USE RelayAssumption DEF TypeOK, CheckedHasId, Places
<1>0. CASE UNCHANGED vars
  BY <1>0 DEF vars
<1>1. ASSUME NEW s \in Sockets, Receive(s) PROVE TypeOK'
  <2>1. Head(outbox[s]) \in Ids /\ Tail(outbox[s]) \in Seq(Ids)
    BY <1>1 DEF Receive
  <2>2. frame[s].n + 1 \in Nat
    BY DEF Frames
  <2>3. frame' \in [Sockets -> Frames]
    BY <1>1, <2>1, <2>2 DEF Receive, Frames
  <2>4. outbox' \in [Sockets -> Seq(Ids)]
    BY <1>1, <2>1 DEF Receive
  <2> QED
    BY <1>1, <2>3, <2>4 DEF Receive, Goto, history
<1>2. ASSUME NEW s \in Sockets, CheckMember(s) PROVE TypeOK'
  BY <1>2 DEF CheckMember, Goto, history
<1>3. ASSUME NEW s \in Sockets, CheckSeen(s) PROVE TypeOK'
  BY <1>3 DEF CheckSeen, Goto, history
<1>4. ASSUME NEW s \in Sockets, Remember(s) PROVE TypeOK'
  BY <1>4 DEF Remember, Goto, history
<1>5. ASSUME NEW s \in Sockets, Stamp(s) PROVE TypeOK'
  BY <1>5 DEF Stamp, Goto, history
<1>6. ASSUME NEW s \in Sockets, Insert(s) PROVE TypeOK'
  <2>1. Document(s) \in Documents
    BY DEF Document, Documents, Frames
  <2>2. Recipients(s) \subseteq Sockets
    BY DEF Recipients
  <2> QED
    BY <1>6, <2>1, <2>2 DEF Insert, Goto, history
<1>7. ASSUME NEW s \in Sockets, NEW t \in Sockets, Relay(s, t) PROVE TypeOK'
  <2>1. Append(inbox[t], frame[s]) \in Seq(Frames)
    OBVIOUS
  <2>2. inbox' \in [Sockets -> Seq(Frames)]
    BY <1>7, <2>1 DEF Relay
  <2>3. todo' \in [Sockets -> SUBSET Sockets]
    BY <1>7 DEF Relay
  <2> QED
    BY <1>7, <2>2, <2>3 DEF Relay, history
<1>8. ASSUME NEW s \in Sockets, Relayed(s) PROVE TypeOK'
  BY <1>8 DEF Relayed, Goto, history
<1>9. ASSUME NEW u \in Users, LeaveRoom(u) PROVE TypeOK'
  BY <1>9 DEF LeaveRoom, history
<1>10. ASSUME NEW id \in MsgIds, Expire(id) PROVE TypeOK'
  BY <1>10 DEF Expire
<1>11. ASSUME NEW s \in Sockets, Fail(s) PROVE TypeOK'
  BY <1>11 DEF Fail, Frames, Ids
<1> QED
  BY <1>0, <1>1, <1>2, <1>3, <1>4, <1>5, <1>6, <1>7, <1>8, <1>9, <1>10,
     <1>11 DEF Next, Handle

\* Only CheckMember leads to the replay check.
LEMMA CheckedNext ==
    ASSUME TypeOK, CheckedHasId, [Next]_vars
    PROVE  CheckedHasId'
<1> USE RelayAssumption DEF TypeOK, CheckedHasId, Places, Frames, Ids
<1>0. CASE UNCHANGED vars
  BY <1>0 DEF vars
<1>1. ASSUME NEW s \in Sockets, Receive(s) PROVE CheckedHasId'
  BY <1>1 DEF Receive, Goto, history
<1>2. ASSUME NEW s \in Sockets, CheckMember(s) PROVE CheckedHasId'
  BY <1>2 DEF CheckMember, Goto, history
<1>3. ASSUME NEW s \in Sockets, CheckSeen(s) PROVE CheckedHasId'
  BY <1>3 DEF CheckSeen, Goto, history
<1>4. ASSUME NEW s \in Sockets, Remember(s) PROVE CheckedHasId'
  BY <1>4 DEF Remember, Goto, history
<1>5. ASSUME NEW s \in Sockets, Stamp(s) PROVE CheckedHasId'
  BY <1>5 DEF Stamp, Goto, history
<1>6. ASSUME NEW s \in Sockets, Insert(s) PROVE CheckedHasId'
  BY <1>6 DEF Insert, Goto, history, Document
<1>7. ASSUME NEW s \in Sockets, NEW t \in Sockets, Relay(s, t)
       PROVE  CheckedHasId'
  BY <1>7 DEF Relay, history
<1>8. ASSUME NEW s \in Sockets, Relayed(s) PROVE CheckedHasId'
  BY <1>8 DEF Relayed, Goto, history
<1>9. ASSUME NEW u \in Users, LeaveRoom(u) PROVE CheckedHasId'
  BY <1>9 DEF LeaveRoom, history
<1>10. ASSUME NEW id \in MsgIds, Expire(id) PROVE CheckedHasId'
  BY <1>10 DEF Expire
<1>11. ASSUME NEW s \in Sockets, Fail(s) PROVE CheckedHasId'
  BY <1>11 DEF Fail
<1> QED
  BY <1>0, <1>1, <1>2, <1>3, <1>4, <1>5, <1>6, <1>7, <1>8, <1>9, <1>10,
     <1>11 DEF Next, Handle

\* The relay's state has its types, whatever the endpoints and faults.
THEOREM TypeCorrect == Spec => []TypeOK
<1>1. Init => TypeOK /\ CheckedHasId
  BY TypeInit DEF Init, CheckedHasId
<1>2. TypeOK /\ CheckedHasId /\ [Next]_vars => (TypeOK /\ CheckedHasId)'
  BY TypeNext, CheckedNext
<1> QED
  BY <1>1, <1>2, PTL DEF Spec

-----------------------------------------------------------------------------
(* Replays *)

\* An id that is past the look-up is remembered or will be, and what a socket
\* stored before under that id has expired.
ReplayInv ==
    /\ \A d \in messages : d.id \in seen \cup expired \cup {NoId}
    /\ \A s \in Sockets :
          /\ frame[s].socket = s
          /\ pc[s] \in {"stamp", "insert"} =>
                frame[s].id \in seen \cup expired \cup {NoId}
          /\ pc[s] \in {"remember", "stamp", "insert"}
                /\ frame[s].id \notin expired \cup {NoId} =>
                \A d \in messages : d.socket = s => d.id # frame[s].id

\* Whatever is remembered was stored, is about to be, or died with its endpoint.
Accounted(id) ==
    \/ id \in StoredIds \cup lost
    \/ \E s \in Sockets : frame[s].id = id /\ pc[s] \in {"stamp", "insert"}

SeenInv ==
    \A id \in seen \cup {m.id : m \in refused} : id \in MsgIds /\ Accounted(id)

\* Every step keeps ReplayInv.
LEMMA ReplayNext ==
    ASSUME TypeOK, CheckedHasId, ReplayInv, [Next]_vars
    PROVE  ReplayInv'
<1> USE RelayAssumption DEF TypeOK, CheckedHasId, ReplayInv, Places, Frames,
        Ids
<1>0. CASE UNCHANGED vars
  BY <1>0 DEF vars
<1>1. ASSUME NEW s \in Sockets, Receive(s) PROVE ReplayInv'
  BY <1>1 DEF Receive, Goto, history
<1>2. ASSUME NEW s \in Sockets, CheckMember(s) PROVE ReplayInv'
  BY <1>2 DEF CheckMember, Goto, history
<1>3. ASSUME NEW s \in Sockets, CheckSeen(s) PROVE ReplayInv'
  BY <1>3 DEF CheckSeen, Goto, history
<1>4. ASSUME NEW s \in Sockets, Remember(s) PROVE ReplayInv'
  BY <1>4 DEF Remember, Goto, history
<1>5. ASSUME NEW s \in Sockets, Stamp(s) PROVE ReplayInv'
  BY <1>5 DEF Stamp, Goto, history
<1>6. ASSUME NEW s \in Sockets, Insert(s) PROVE ReplayInv'
  BY <1>6 DEF Insert, Goto, history, Document
<1>7. ASSUME NEW s \in Sockets, NEW t \in Sockets, Relay(s, t)
       PROVE  ReplayInv'
  BY <1>7 DEF Relay, history
<1>8. ASSUME NEW s \in Sockets, Relayed(s) PROVE ReplayInv'
  BY <1>8 DEF Relayed, Goto, history
<1>9. ASSUME NEW u \in Users, LeaveRoom(u) PROVE ReplayInv'
  BY <1>9 DEF LeaveRoom, history
<1>10. ASSUME NEW id \in MsgIds, Expire(id) PROVE ReplayInv'
  BY <1>10 DEF Expire
<1>11. ASSUME NEW s \in Sockets, Fail(s) PROVE ReplayInv'
  BY <1>11 DEF Fail
<1> QED
  BY <1>0, <1>1, <1>2, <1>3, <1>4, <1>5, <1>6, <1>7, <1>8, <1>9, <1>10,
     <1>11 DEF Next, Handle

\* Insert adds a document that ReplayInv tells from the earlier ones.
LEMMA CopyNext ==
    ASSUME TypeOK, ReplayInv, OneCopyPerSocket, [Next]_vars
    PROVE  OneCopyPerSocket'
<1> USE RelayAssumption DEF TypeOK, ReplayInv, OneCopyPerSocket, Places,
        Frames, Ids
<1>0. CASE UNCHANGED vars
  BY <1>0 DEF vars
<1>1. ASSUME NEW s \in Sockets, Receive(s) PROVE OneCopyPerSocket'
  BY <1>1 DEF Receive, Goto, history
<1>2. ASSUME NEW s \in Sockets, CheckMember(s) PROVE OneCopyPerSocket'
  BY <1>2 DEF CheckMember, Goto, history
<1>3. ASSUME NEW s \in Sockets, CheckSeen(s) PROVE OneCopyPerSocket'
  BY <1>3 DEF CheckSeen, Goto, history
<1>4. ASSUME NEW s \in Sockets, Remember(s) PROVE OneCopyPerSocket'
  BY <1>4 DEF Remember, Goto, history
<1>5. ASSUME NEW s \in Sockets, Stamp(s) PROVE OneCopyPerSocket'
  BY <1>5 DEF Stamp, Goto, history
<1>6. ASSUME NEW s \in Sockets, Insert(s) PROVE OneCopyPerSocket'
  BY <1>6 DEF Insert, Goto, history, Document
<1>7. ASSUME NEW s \in Sockets, NEW t \in Sockets, Relay(s, t)
       PROVE  OneCopyPerSocket'
  BY <1>7 DEF Relay, history
<1>8. ASSUME NEW s \in Sockets, Relayed(s) PROVE OneCopyPerSocket'
  BY <1>8 DEF Relayed, Goto, history
<1>9. ASSUME NEW u \in Users, LeaveRoom(u) PROVE OneCopyPerSocket'
  BY <1>9 DEF LeaveRoom, history
<1>10. ASSUME NEW id \in MsgIds, Expire(id) PROVE OneCopyPerSocket'
  BY <1>10 DEF Expire
<1>11. ASSUME NEW s \in Sockets, Fail(s) PROVE OneCopyPerSocket'
  BY <1>11 DEF Fail
<1> QED
  BY <1>0, <1>1, <1>2, <1>3, <1>4, <1>5, <1>6, <1>7, <1>8, <1>9, <1>10,
     <1>11 DEF Next, Handle

\* Insert and Fail hand over what Remember promised.
LEMMA SeenNext ==
    ASSUME TypeOK, CheckedHasId, SeenInv, [Next]_vars
    PROVE  SeenInv'
<1> USE RelayAssumption DEF TypeOK, CheckedHasId, Places, Frames, Ids
<1>0. CASE UNCHANGED vars
  BY <1>0 DEF vars, SeenInv, Accounted, StoredIds
<1>1. ASSUME NEW s \in Sockets, Receive(s) PROVE SeenInv'
  <2>1. ASSUME NEW i \in MsgIds, Accounted(i) PROVE Accounted(i)'
    BY <1>1, <2>1 DEF Accounted, StoredIds, Receive, Goto, history
  <2>2. seen' \subseteq seen /\ refused' = refused
    BY <1>1 DEF Receive, Goto, history
  <2> QED
    BY <2>1, <2>2 DEF SeenInv
<1>2. ASSUME NEW s \in Sockets, CheckMember(s) PROVE SeenInv'
  <2>1. ASSUME NEW i \in MsgIds, Accounted(i) PROVE Accounted(i)'
    BY <1>2, <2>1 DEF Accounted, StoredIds, CheckMember, Goto, history
  <2>2. seen' \subseteq seen /\ refused' = refused
    BY <1>2 DEF CheckMember, Goto, history
  <2> QED
    BY <2>1, <2>2 DEF SeenInv
<1>3. ASSUME NEW s \in Sockets, CheckSeen(s) PROVE SeenInv'
  <2>1. ASSUME NEW i \in MsgIds, Accounted(i) PROVE Accounted(i)'
    BY <1>3, <2>1 DEF Accounted, StoredIds, CheckSeen, Goto, history
  <2>2. seen' = seen /\ \A m \in refused' : m \in refused \/ m.id \in seen
    BY <1>3 DEF CheckSeen, history
  <2> QED
    BY <2>1, <2>2 DEF SeenInv
<1>4. ASSUME NEW s \in Sockets, Remember(s) PROVE SeenInv'
  <2> SUFFICES ASSUME NEW id \in seen' \cup {m.id : m \in refused'}
               PROVE  id \in MsgIds /\ Accounted(id)'
    BY DEF SeenInv
  <2>1. ASSUME NEW i \in MsgIds, Accounted(i) PROVE Accounted(i)'
    BY <1>4, <2>1 DEF Accounted, StoredIds, Remember, Goto, history
  <2>2. Accounted(frame[s].id)'
    BY <1>4 DEF Accounted, Remember, Goto
  <2>3. seen' = seen \cup {frame[s].id} /\ refused' = refused
    BY <1>4 DEF Remember, history
  <2>4. CASE id = frame[s].id
    BY <1>4, <2>2, <2>4 DEF Remember, Goto
  <2>5. CASE id \in seen \cup {m.id : m \in refused}
    BY <2>1, <2>5 DEF SeenInv
  <2> QED
    BY <2>3, <2>4, <2>5
<1>5. ASSUME NEW s \in Sockets, Stamp(s) PROVE SeenInv'
  <2>1. ASSUME NEW i \in MsgIds, Accounted(i) PROVE Accounted(i)'
    BY <1>5, <2>1 DEF Accounted, StoredIds, Stamp, Goto, history
  <2>2. seen' \subseteq seen /\ refused' = refused
    BY <1>5 DEF Stamp, Goto, history
  <2> QED
    BY <2>1, <2>2 DEF SeenInv
<1>6. ASSUME NEW s \in Sockets, Insert(s) PROVE SeenInv'
  <2>1. ASSUME NEW i \in MsgIds, Accounted(i) PROVE Accounted(i)'
    <3>1. CASE i \in StoredIds \cup lost
      BY <1>6, <3>1 DEF Accounted, StoredIds, Insert, history
    <3>2. ASSUME NEW r \in Sockets, frame[r].id = i, pc[r] \in {"stamp", "insert"}
          PROVE  Accounted(i)'
      <4>1. CASE r = s
        <5>1. Document(s) \in messages' /\ Document(s).id = i
          BY <1>6, <3>2, <4>1 DEF Insert, Document
        <5> QED
          BY <5>1 DEF Accounted, StoredIds
      <4>2. CASE r # s
        BY <1>6, <3>2, <4>2 DEF Accounted, Insert, Goto
      <4> QED
        BY <4>1, <4>2
    <3> QED
      BY <2>1, <3>1, <3>2 DEF Accounted
  <2>2. seen' \subseteq seen /\ refused' = refused
    BY <1>6 DEF Insert, Goto, history, Document
  <2> QED
    BY <2>1, <2>2 DEF SeenInv
<1>7. ASSUME NEW s \in Sockets, NEW t \in Sockets, Relay(s, t) PROVE SeenInv'
  <2>1. ASSUME NEW i \in MsgIds, Accounted(i) PROVE Accounted(i)'
    BY <1>7, <2>1 DEF Accounted, StoredIds, Relay, history
  <2>2. seen' \subseteq seen /\ refused' = refused
    BY <1>7 DEF Relay, history
  <2> QED
    BY <2>1, <2>2 DEF SeenInv
<1>8. ASSUME NEW s \in Sockets, Relayed(s) PROVE SeenInv'
  <2>1. ASSUME NEW i \in MsgIds, Accounted(i) PROVE Accounted(i)'
    BY <1>8, <2>1 DEF Accounted, StoredIds, Relayed, Goto, history
  <2>2. seen' \subseteq seen /\ refused' = refused
    BY <1>8 DEF Relayed, Goto, history
  <2> QED
    BY <2>1, <2>2 DEF SeenInv
<1>9. ASSUME NEW u \in Users, LeaveRoom(u) PROVE SeenInv'
  <2>1. ASSUME NEW i \in MsgIds, Accounted(i) PROVE Accounted(i)'
    BY <1>9, <2>1 DEF Accounted, StoredIds, LeaveRoom, history
  <2>2. seen' \subseteq seen /\ refused' = refused
    BY <1>9 DEF LeaveRoom, history
  <2> QED
    BY <2>1, <2>2 DEF SeenInv
<1>10. ASSUME NEW id \in MsgIds, Expire(id) PROVE SeenInv'
  <2>1. ASSUME NEW i \in MsgIds, Accounted(i) PROVE Accounted(i)'
    BY <1>10, <2>1 DEF Accounted, StoredIds, Expire
  <2>2. seen' \subseteq seen /\ refused' = refused
    BY <1>10 DEF Expire
  <2> QED
    BY <2>1, <2>2 DEF SeenInv
<1>11. ASSUME NEW s \in Sockets, Fail(s) PROVE SeenInv'
  <2>1. ASSUME NEW i \in MsgIds, Accounted(i) PROVE Accounted(i)'
    <3>1. CASE i \in StoredIds \cup lost
      BY <1>11, <3>1 DEF Accounted, StoredIds, Fail
    <3>2. ASSUME NEW r \in Sockets, frame[r].id = i, pc[r] \in {"stamp", "insert"}
          PROVE  Accounted(i)'
      <4>1. CASE r = s
        BY <1>11, <3>2, <4>1 DEF Accounted, Fail
      <4>2. CASE r # s
        BY <1>11, <3>2, <4>2 DEF Accounted, Fail
      <4> QED
        BY <4>1, <4>2
    <3> QED
      BY <2>1, <3>1, <3>2 DEF Accounted
  <2>2. seen' \subseteq seen /\ refused' = refused
    BY <1>11 DEF Fail
  <2> QED
    BY <2>1, <2>2 DEF SeenInv
<1> QED
  BY <1>0, <1>1, <1>2, <1>3, <1>4, <1>5, <1>6, <1>7, <1>8, <1>9, <1>10,
     <1>11 DEF Next, Handle

\* store_ciphertext looks an id up and remembers it in two calls; still a socket
\* that repeats an id does not get a second copy stored before the id expires.
THEOREM OneCopyOfEachId == Spec => []OneCopyPerSocket
<1>1. Init => TypeOK /\ CheckedHasId /\ ReplayInv /\ OneCopyPerSocket
  BY TypeInit, RelayAssumption DEF Init, CheckedHasId, ReplayInv, OneCopyPerSocket
<1>2. TypeOK /\ CheckedHasId /\ ReplayInv /\ OneCopyPerSocket /\ [Next]_vars
      => (TypeOK /\ CheckedHasId /\ ReplayInv /\ OneCopyPerSocket)'
  BY TypeNext, CheckedNext, ReplayNext, CopyNext
<1> QED
  BY <1>1, <1>2, PTL DEF Spec

\* Whatever is answered Duplicate message rejected carries an id that was stored,
\* is being stored, or died with the endpoint that had remembered it.
THEOREM RefusalsAreDuplicates == Spec => []RefusedWasAccepted
<1>1. Init => TypeOK /\ CheckedHasId /\ SeenInv
  BY TypeInit DEF Init, CheckedHasId, SeenInv
<1>2. TypeOK /\ CheckedHasId /\ SeenInv /\ [Next]_vars
      => (TypeOK /\ CheckedHasId /\ SeenInv)'
  BY TypeNext, CheckedNext, SeenNext
<1>3. SeenInv => RefusedWasAccepted
  BY DEF SeenInv, Accounted, RefusedWasAccepted
<1> QED
  BY <1>1, <1>2, <1>3, PTL DEF Spec

-----------------------------------------------------------------------------
(* Relaying *)

\* What Relay does to the inboxes, without the arithmetic of sequences.
LEMMA RelayAppends ==
    ASSUME TypeOK, NEW s \in Sockets, NEW t \in Sockets, Relay(s, t)
    PROVE  /\ \A r \in Sockets \ {t} : inbox'[r] = inbox[r]
           /\ DOMAIN inbox[t] = 1..Len(inbox[t])
           /\ DOMAIN inbox'[t] = 1..(Len(inbox[t]) + 1)
           /\ \A i \in 1..Len(inbox[t]) : inbox'[t][i] = inbox[t][i]
           /\ inbox'[t][Len(inbox[t]) + 1] = frame[s]
           /\ Len(inbox[t]) \in Nat
<1>1. inbox[t] \in Seq(Frames) /\ frame[s] \in Frames
  BY DEF TypeOK
<1>2. inbox'[t] = Append(inbox[t], frame[s])
  BY DEF Relay, TypeOK
<1>3. \A r \in Sockets \ {t} : inbox'[r] = inbox[r]
  BY DEF Relay, TypeOK
<1> QED
  BY <1>1, <1>2, <1>3

\* A frame is stored before its broadcast begins.
StoredInv ==
    /\ \A s \in Sockets : frame[s].socket = s /\ (pc[s] = "relay" => IsStored(frame[s]))
    /\ RelayedIsStored

\* Documents stay, so what was stored when it was relayed still is.
LEMMA StoredNext ==
    ASSUME TypeOK, StoredInv, [Next]_vars
    PROVE  StoredInv'
<1> USE RelayAssumption DEF TypeOK, StoredInv, Places, Frames
<1>0. CASE UNCHANGED vars
  BY <1>0 DEF vars, RelayedIsStored, IsStored
<1>1. ASSUME NEW s \in Sockets, Receive(s) PROVE StoredInv'
  <2>1. messages \subseteq messages'
    BY <1>1 DEF Receive, Goto, history
  <2>2. RelayedIsStored'
    BY <1>1, <2>1 DEF RelayedIsStored, IsStored, Receive, Goto, history
  <2>3. \A r \in Sockets : (frame[r].socket = r /\ (pc[r] = "relay" => IsStored(frame[r])))'
    BY <1>1, <2>1 DEF IsStored, Receive, Goto, history
  <2> QED
    BY <2>2, <2>3 DEF StoredInv
<1>2. ASSUME NEW s \in Sockets, CheckMember(s) PROVE StoredInv'
  <2>1. messages \subseteq messages'
    BY <1>2 DEF CheckMember, Goto, history
  <2>2. RelayedIsStored'
    BY <1>2, <2>1 DEF RelayedIsStored, IsStored, CheckMember, Goto, history
  <2>3. \A r \in Sockets : (frame[r].socket = r /\ (pc[r] = "relay" => IsStored(frame[r])))'
    BY <1>2, <2>1 DEF IsStored, CheckMember, Goto, history
  <2> QED
    BY <2>2, <2>3 DEF StoredInv
<1>3. ASSUME NEW s \in Sockets, CheckSeen(s) PROVE StoredInv'
  <2>1. messages \subseteq messages'
    BY <1>3 DEF CheckSeen, Goto, history
  <2>2. RelayedIsStored'
    BY <1>3, <2>1 DEF RelayedIsStored, IsStored, CheckSeen, Goto, history
  <2>3. \A r \in Sockets : (frame[r].socket = r /\ (pc[r] = "relay" => IsStored(frame[r])))'
    BY <1>3, <2>1 DEF IsStored, CheckSeen, Goto, history
  <2> QED
    BY <2>2, <2>3 DEF StoredInv
<1>4. ASSUME NEW s \in Sockets, Remember(s) PROVE StoredInv'
  <2>1. messages \subseteq messages'
    BY <1>4 DEF Remember, Goto, history
  <2>2. RelayedIsStored'
    BY <1>4, <2>1 DEF RelayedIsStored, IsStored, Remember, Goto, history
  <2>3. \A r \in Sockets : (frame[r].socket = r /\ (pc[r] = "relay" => IsStored(frame[r])))'
    BY <1>4, <2>1 DEF IsStored, Remember, Goto, history
  <2> QED
    BY <2>2, <2>3 DEF StoredInv
<1>5. ASSUME NEW s \in Sockets, Stamp(s) PROVE StoredInv'
  <2>1. messages \subseteq messages'
    BY <1>5 DEF Stamp, Goto, history
  <2>2. RelayedIsStored'
    BY <1>5, <2>1 DEF RelayedIsStored, IsStored, Stamp, Goto, history
  <2>3. \A r \in Sockets : (frame[r].socket = r /\ (pc[r] = "relay" => IsStored(frame[r])))'
    BY <1>5, <2>1 DEF IsStored, Stamp, Goto, history
  <2> QED
    BY <2>2, <2>3 DEF StoredInv
<1>6. ASSUME NEW s \in Sockets, Insert(s) PROVE StoredInv'
  <2>1. messages \subseteq messages'
    BY <1>6 DEF Insert, Goto, history, Document
  <2>2. RelayedIsStored'
    BY <1>6, <2>1 DEF RelayedIsStored, IsStored, Insert, Goto, history, Document
  <2>3. Document(s) \in messages' /\ frame' = frame
    BY <1>6 DEF Insert
  <2>4. Document(s).socket = s /\ Document(s).n = frame[s].n
    BY DEF Document
  <2>5. ASSUME NEW r \in Sockets, pc'[r] = "relay" PROVE IsStored(frame[r])'
    <3>1. CASE r = s
      BY <2>3, <2>4, <3>1 DEF IsStored
    <3>2. CASE r # s
      BY <1>6, <2>1, <2>3, <2>5, <3>2 DEF IsStored, Insert, Goto
    <3> QED
      BY <3>1, <3>2
  <2> QED
    BY <2>2, <2>3, <2>5 DEF StoredInv
<1>7. ASSUME NEW s \in Sockets, NEW t \in Sockets, Relay(s, t)
       PROVE  StoredInv'
  <2>1. messages' = messages /\ frame' = frame /\ pc' = pc /\ pc[s] = "relay"
    BY <1>7 DEF Relay
  <2>2. /\ \A r \in Sockets \ {t} : inbox'[r] = inbox[r]
        /\ DOMAIN inbox[t] = 1..Len(inbox[t])
        /\ DOMAIN inbox'[t] = 1..(Len(inbox[t]) + 1)
        /\ \A i \in 1..Len(inbox[t]) : inbox'[t][i] = inbox[t][i]
        /\ inbox'[t][Len(inbox[t]) + 1] = frame[s]
        /\ Len(inbox[t]) \in Nat
    BY <1>7, RelayAppends
  <2> HIDE DEF TypeOK
  <2>3. ASSUME NEW r \in Sockets, NEW i \in DOMAIN inbox'[r]
        PROVE  \E d \in messages : d.socket = inbox'[r][i].socket /\ d.n = inbox'[r][i].n
    <3>1. CASE r # t
      BY <2>2, <2>3, <3>1 DEF RelayedIsStored, IsStored
    <3>2. CASE r = t /\ i \in 1..Len(inbox[t])
      BY <2>2, <2>3, <3>2 DEF RelayedIsStored, IsStored
    <3>3. CASE r = t /\ i = Len(inbox[t]) + 1
      BY <2>1, <2>2, <3>3 DEF IsStored
    <3> QED
      BY <2>2, <2>3, <3>1, <3>2, <3>3
  <2>4. RelayedIsStored'
    BY <2>1, <2>3 DEF RelayedIsStored, IsStored
  <2> QED
    BY <2>1, <2>4 DEF IsStored
<1>8. ASSUME NEW s \in Sockets, Relayed(s) PROVE StoredInv'
  <2>1. messages \subseteq messages'
    BY <1>8 DEF Relayed, Goto, history
  <2>2. RelayedIsStored'
    BY <1>8, <2>1 DEF RelayedIsStored, IsStored, Relayed, Goto, history
  <2>3. \A r \in Sockets : (frame[r].socket = r /\ (pc[r] = "relay" => IsStored(frame[r])))'
    BY <1>8, <2>1 DEF IsStored, Relayed, Goto, history
  <2> QED
    BY <2>2, <2>3 DEF StoredInv
<1>9. ASSUME NEW u \in Users, LeaveRoom(u) PROVE StoredInv'
  <2>1. messages \subseteq messages'
    BY <1>9 DEF LeaveRoom, history
  <2>2. RelayedIsStored'
    BY <1>9, <2>1 DEF RelayedIsStored, IsStored, LeaveRoom, history
  <2>3. \A r \in Sockets : (frame[r].socket = r /\ (pc[r] = "relay" => IsStored(frame[r])))'
    BY <1>9, <2>1 DEF IsStored, LeaveRoom, history
  <2> QED
    BY <2>2, <2>3 DEF StoredInv
<1>10. ASSUME NEW id \in MsgIds, Expire(id) PROVE StoredInv'
  <2>1. messages \subseteq messages'
    BY <1>10 DEF Expire
  <2>2. RelayedIsStored'
    BY <1>10, <2>1 DEF RelayedIsStored, IsStored, Expire
  <2>3. \A r \in Sockets : (frame[r].socket = r /\ (pc[r] = "relay" => IsStored(frame[r])))'
    BY <1>10, <2>1 DEF IsStored, Expire
  <2> QED
    BY <2>2, <2>3 DEF StoredInv
<1>11. ASSUME NEW s \in Sockets, Fail(s) PROVE StoredInv'
  <2>1. messages \subseteq messages'
    BY <1>11 DEF Fail
  <2>2. RelayedIsStored'
    BY <1>11, <2>1 DEF RelayedIsStored, IsStored, Fail
  <2>3. \A r \in Sockets : (frame[r].socket = r /\ (pc[r] = "relay" => IsStored(frame[r])))'
    BY <1>11, <2>1 DEF IsStored, Fail
  <2> QED
    BY <2>2, <2>3 DEF StoredInv
<1> QED
  BY <1>0, <1>1, <1>2, <1>3, <1>4, <1>5, <1>6, <1>7, <1>8, <1>9, <1>10,
     <1>11 DEF Next, Handle

\* websocket_endpoint broadcasts after store_ciphertext has returned: what a
\* client was relayed is in the history, even if the endpoint died meanwhile.
THEOREM RelayedFramesAreStored == Spec => []RelayedIsStored
<1>1. Init => TypeOK /\ CheckedHasId /\ StoredInv
  BY TypeInit DEF Init, CheckedHasId, StoredInv, RelayedIsStored
<1>2. TypeOK /\ CheckedHasId /\ StoredInv /\ [Next]_vars
      => (TypeOK /\ CheckedHasId /\ StoredInv)'
  BY TypeNext, CheckedNext, StoredNext
<1>3. StoredInv => RelayedIsStored
  BY DEF StoredInv
<1> QED
  BY <1>1, <1>2, <1>3, PTL DEF Spec

-----------------------------------------------------------------------------
(* The order of the history *)

\* A document that is about to be inserted is later than the socket's others.
ClockInv ==
    /\ \A s \in Sockets :
          /\ frame[s].socket = s
          /\ stamp[s] <= clock
          /\ \A d \in messages : d.socket = s =>
                /\ d.n <= frame[s].n
                /\ d.at <= clock
                /\ pc[s] \notin {"relay", "receive"} => d.n < frame[s].n
                /\ pc[s] = "insert" => d.at <= stamp[s]
    /\ \A c, d \in messages : c.socket = d.socket /\ c.n < d.n => c.at <= d.at

\* The frames of an inbox are numbered.
LEMMA ElementsAreNumbered ==
    ASSUME NEW q \in Seq(Frames), NEW i \in DOMAIN q
    PROVE  q[i].n \in Nat
<1>1. q[i] \in Frames
  OBVIOUS
<1> QED
  BY <1>1 DEF Frames

\* A frame that is still to be sent to a client is later than what it was sent.
Pending(s, t) == pc[s] \notin {"relay", "receive"} \/ (pc[s] = "relay" /\ t \in todo[s])

InboxInv ==
    \A t \in Sockets : \A i \in DOMAIN inbox[t] :
        /\ \A s \in Sockets : inbox[t][i].socket = s =>
              /\ inbox[t][i].n <= frame[s].n
              /\ Pending(s, t) => inbox[t][i].n < frame[s].n
        /\ \A j \in DOMAIN inbox[t] :
              i < j /\ inbox[t][i].socket = inbox[t][j].socket
              => inbox[t][i].n < inbox[t][j].n

\* Every step keeps ClockInv.
LEMMA ClockNext ==
    ASSUME TypeOK, ClockInv, [Next]_vars
    PROVE  ClockInv'
<1> USE RelayAssumption DEF TypeOK, ClockInv, Places, Frames, Documents
<1>0. CASE UNCHANGED vars
  BY <1>0 DEF vars
<1>1. ASSUME NEW s \in Sockets, Receive(s) PROVE ClockInv'
  <2>1. /\ UNCHANGED <<clock, stamp, messages>>
        /\ \A r \in Sockets : frame'[r].socket = r
        /\ frame[s].n \in Nat /\ frame'[s].n = frame[s].n + 1
        /\ \A r \in Sockets \ {s} : frame'[r] = frame[r] /\ pc'[r] = pc[r]
        /\ pc'[s] = "member"
    BY <1>1 DEF Receive, Goto
  <2>2. \A d \in messages : d.n \in Nat
    OBVIOUS
  <2>3. ASSUME NEW r \in Sockets, NEW d \in messages, d.socket = r
        PROVE  /\ d.n <= frame'[r].n /\ d.at <= clock
               /\ pc'[r] \notin {"relay", "receive"} => d.n < frame'[r].n
               /\ pc'[r] = "insert" => d.at <= stamp[r]
    <3>1. CASE r = s
      BY <2>1, <2>2, <2>3, <3>1
    <3>2. CASE r # s
      BY <2>1, <2>3, <3>2
    <3> QED
      BY <3>1, <3>2
  <2> QED
    BY <2>1, <2>3
<1>2. ASSUME NEW s \in Sockets, CheckMember(s) PROVE ClockInv'
  BY <1>2 DEF CheckMember, Goto, history
<1>3. ASSUME NEW s \in Sockets, CheckSeen(s) PROVE ClockInv'
  BY <1>3 DEF CheckSeen, Goto, history
<1>4. ASSUME NEW s \in Sockets, Remember(s) PROVE ClockInv'
  BY <1>4 DEF Remember, Goto, history
<1>5. ASSUME NEW s \in Sockets, Stamp(s) PROVE ClockInv'
  BY <1>5 DEF Stamp, Goto, history
<1>6. ASSUME NEW s \in Sockets, Insert(s) PROVE ClockInv'
  BY <1>6 DEF Insert, Goto, history, Document
<1>7. ASSUME NEW s \in Sockets, NEW t \in Sockets, Relay(s, t) PROVE ClockInv'
  BY <1>7 DEF Relay, history
<1>8. ASSUME NEW s \in Sockets, Relayed(s) PROVE ClockInv'
  BY <1>8 DEF Relayed, Goto, history
<1>9. ASSUME NEW u \in Users, LeaveRoom(u) PROVE ClockInv'
  BY <1>9 DEF LeaveRoom, history
<1>10. ASSUME NEW id \in MsgIds, Expire(id) PROVE ClockInv'
  BY <1>10 DEF Expire
<1>11. ASSUME NEW s \in Sockets, Fail(s) PROVE ClockInv'
  BY <1>11 DEF Fail
<1> QED
  BY <1>0, <1>1, <1>2, <1>3, <1>4, <1>5, <1>6, <1>7, <1>8, <1>9, <1>10,
     <1>11 DEF Next, Handle

\* A step after which no frame is pending that was not before leaves the inboxes
\* as they were.
LEMMA InboxKept ==
    ASSUME InboxInv, UNCHANGED <<inbox, frame>>,
           \A q, r \in Sockets : Pending(q, r)' => Pending(q, r)
    PROVE  InboxInv'
<1> HIDE DEF Pending
<1> QED
  BY DEF InboxInv

\* Relay appends a frame that is later than the others of its socket.
LEMMA InboxNext ==
    ASSUME TypeOK, ClockInv, InboxInv, [Next]_vars
    PROVE  InboxInv'
<1> USE RelayAssumption DEF TypeOK, InboxInv, Pending, Places, Frames
<1>0. CASE UNCHANGED vars
  BY <1>0 DEF vars
<1>1. ASSUME NEW s \in Sockets, Receive(s) PROVE InboxInv'
  <2>1. /\ inbox' = inbox
        /\ frame[s].n \in Nat
        /\ frame'[s].n = frame[s].n + 1
    BY <1>1 DEF Receive, history
  <2>2. \A r \in Sockets, q \in Sockets : Pending(q, r)' => Pending(q, r) \/ q = s
    BY <1>1 DEF Receive, Goto
  <2>3. ASSUME NEW r \in Sockets, NEW i \in DOMAIN inbox[r] PROVE inbox[r][i].n \in Nat
    <3>1. inbox[r] \in Seq(Frames)
      OBVIOUS
    <3> QED
      BY <2>3, <3>1, ElementsAreNumbered
  <2>4. \A r \in Sockets \ {s} : frame'[r] = frame[r]
    BY <1>1 DEF Receive
  <2> HIDE DEF TypeOK, Pending
  <2>5. ASSUME NEW r \in Sockets, NEW i \in DOMAIN inbox[r], NEW q \in Sockets,
               inbox[r][i].socket = q
        PROVE  /\ inbox[r][i].n <= frame'[q].n
               /\ Pending(q, r)' => inbox[r][i].n < frame'[q].n
    <3>1. inbox[r][i].n <= frame[q].n /\ (Pending(q, r) => inbox[r][i].n < frame[q].n)
      BY <2>5
    <3>2. CASE q = s
      BY <2>1, <2>3, <3>1, <3>2
    <3>3. CASE q # s
      BY <2>2, <2>4, <3>1, <3>3
    <3> QED
      BY <3>2, <3>3
  <2> QED
    BY <2>1, <2>5
<1>2. ASSUME NEW s \in Sockets, CheckMember(s) PROVE InboxInv'
  <2>1. UNCHANGED <<inbox, frame>>
    BY <1>2 DEF CheckMember
  <2>2. \A q, r \in Sockets : Pending(q, r)' => Pending(q, r)
    BY <1>2 DEF CheckMember, Goto
  <2> QED
    BY <2>1, <2>2, InboxKept
<1>3. ASSUME NEW s \in Sockets, CheckSeen(s) PROVE InboxInv'
  <2>1. UNCHANGED <<inbox, frame>>
    BY <1>3 DEF CheckSeen
  <2>2. \A q, r \in Sockets : Pending(q, r)' => Pending(q, r)
    BY <1>3 DEF CheckSeen, Goto
  <2> QED
    BY <2>1, <2>2, InboxKept
<1>4. ASSUME NEW s \in Sockets, Remember(s) PROVE InboxInv'
  <2>1. UNCHANGED <<inbox, frame>>
    BY <1>4 DEF Remember
  <2>2. \A q, r \in Sockets : Pending(q, r)' => Pending(q, r)
    BY <1>4 DEF Remember, Goto
  <2> QED
    BY <2>1, <2>2, InboxKept
<1>5. ASSUME NEW s \in Sockets, Stamp(s) PROVE InboxInv'
  <2>1. UNCHANGED <<inbox, frame>>
    BY <1>5 DEF Stamp
  <2>2. \A q, r \in Sockets : Pending(q, r)' => Pending(q, r)
    BY <1>5 DEF Stamp, Goto
  <2> QED
    BY <2>1, <2>2, InboxKept
<1>6. ASSUME NEW s \in Sockets, Insert(s) PROVE InboxInv'
  <2>1. UNCHANGED <<inbox, frame>>
    BY <1>6 DEF Insert
  <2>2. \A q, r \in Sockets : Pending(q, r)' => Pending(q, r)
    BY <1>6 DEF Insert, Goto
  <2> QED
    BY <2>1, <2>2, InboxKept
<1>7. ASSUME NEW s \in Sockets, NEW t \in Sockets, Relay(s, t) PROVE InboxInv'
  <2>1. frame' = frame /\ pc' = pc /\ pc[s] = "relay" /\ t \in todo[s] /\ frame[s].socket = s
    BY <1>7 DEF Relay, ClockInv
  <2>2. /\ \A r \in Sockets \ {t} : inbox'[r] = inbox[r]
        /\ DOMAIN inbox[t] = 1..Len(inbox[t])
        /\ DOMAIN inbox'[t] = 1..(Len(inbox[t]) + 1)
        /\ \A i \in 1..Len(inbox[t]) : inbox'[t][i] = inbox[t][i]
        /\ inbox'[t][Len(inbox[t]) + 1] = frame[s]
        /\ Len(inbox[t]) \in Nat
    BY <1>7, RelayAppends
  <2>3. /\ \A r \in Sockets \ {s} : todo'[r] = todo[r]
        /\ todo'[s] = todo[s] \ {t}
    BY <1>7 DEF Relay
  <2>4. \A r \in Sockets : frame[r].n \in Nat
    BY DEF Frames
  <2>5. \A r \in Sockets : Pending(r, t) => Pending(r, t)' \/ r = s
    BY <2>1, <2>3
  <2>6. \A q, r \in Sockets : Pending(q, r)' => Pending(q, r) /\ ~(q = s /\ r = t)
    BY <2>1, <2>3
  <2> HIDE DEF TypeOK, Pending
  <2>7. ASSUME NEW r \in Sockets, NEW i \in DOMAIN inbox'[r], NEW q \in Sockets,
               inbox'[r][i].socket = q
        PROVE  /\ inbox'[r][i].n <= frame[q].n
               /\ Pending(q, r)' => inbox'[r][i].n < frame[q].n
    <3>1. CASE r # t
      BY <2>2, <2>6, <2>7, <3>1
    <3>2. CASE r = t /\ i \in 1..Len(inbox[t])
      BY <2>2, <2>6, <2>7, <3>2
    <3>3. CASE r = t /\ i = Len(inbox[t]) + 1
      BY <2>1, <2>2, <2>4, <2>6, <2>7, <3>3
    <3> QED
      BY <2>2, <2>7, <3>1, <3>2, <3>3
  <2>8. ASSUME NEW r \in Sockets, NEW i \in DOMAIN inbox'[r], NEW j \in DOMAIN inbox'[r],
               i < j, inbox'[r][i].socket = inbox'[r][j].socket
        PROVE  inbox'[r][i].n < inbox'[r][j].n
    <3>1. CASE r # t
      BY <2>2, <2>8, <3>1
    <3>2. CASE r = t /\ j \in 1..Len(inbox[t])
      <4>1. i \in 1..Len(inbox[t]) /\ i \in DOMAIN inbox[t] /\ j \in DOMAIN inbox[t]
        BY <2>2, <2>8, <3>2
      <4>2. inbox'[t][i] = inbox[t][i] /\ inbox'[t][j] = inbox[t][j]
        BY <2>2, <3>2, <4>1
      <4> QED
        BY <2>8, <3>2, <4>1, <4>2
    <3>3. CASE r = t /\ j = Len(inbox[t]) + 1
      <4>1. i \in 1..Len(inbox[t])
        BY <2>2, <2>8, <3>3
      <4>2. Pending(s, t)
        BY <2>1 DEF Pending
      <4>3. i \in DOMAIN inbox[t] /\ inbox'[t][i] = inbox[t][i] /\ inbox'[t][j] = frame[s]
        BY <2>2, <3>3, <4>1
      <4>4. inbox[t][i].socket = s
        BY <2>1, <2>8, <3>3, <4>3
      <4>5. inbox[t][i].n < frame[s].n
        BY <4>2, <4>3, <4>4
      <4> QED
        BY <3>3, <4>3, <4>5
    <3> QED
      BY <2>2, <2>8, <3>1, <3>2, <3>3
  <2> QED
    BY <2>1, <2>7, <2>8
<1>8. ASSUME NEW s \in Sockets, Relayed(s) PROVE InboxInv'
  <2>1. UNCHANGED <<inbox, frame>>
    BY <1>8 DEF Relayed
  <2>2. \A q, r \in Sockets : Pending(q, r)' => Pending(q, r)
    BY <1>8 DEF Relayed, Goto
  <2> QED
    BY <2>1, <2>2, InboxKept
<1>9. ASSUME NEW u \in Users, LeaveRoom(u) PROVE InboxInv'
  <2>1. UNCHANGED <<inbox, frame>>
    BY <1>9 DEF LeaveRoom
  <2>2. \A q, r \in Sockets : Pending(q, r)' => Pending(q, r)
    BY <1>9 DEF LeaveRoom
  <2> QED
    BY <2>1, <2>2, InboxKept
<1>10. ASSUME NEW id \in MsgIds, Expire(id) PROVE InboxInv'
  <2>1. UNCHANGED <<inbox, frame>>
    BY <1>10 DEF Expire
  <2>2. \A q, r \in Sockets : Pending(q, r)' => Pending(q, r)
    BY <1>10 DEF Expire
  <2> QED
    BY <2>1, <2>2, InboxKept
<1>11. ASSUME NEW s \in Sockets, Fail(s) PROVE InboxInv'
  <2>1. UNCHANGED <<inbox, frame>>
    BY <1>11 DEF Fail
  <2>2. \A q, r \in Sockets : Pending(q, r)' => Pending(q, r)
    BY <1>11 DEF Fail
  <2> QED
    BY <2>1, <2>2, InboxKept
<1> QED
  BY <1>0, <1>1, <1>2, <1>3, <1>4, <1>5, <1>6, <1>7, <1>8, <1>9, <1>10,
     <1>11 DEF Next, Handle

\* The endpoint handles one frame at a time, so that each client is relayed the
\* frames of a socket in the order of their created_at in the history.
THEOREM HistoryOrderIsRelayed == Spec => []RelayKeepsHistoryOrder
<1>1. Init => TypeOK /\ CheckedHasId /\ ClockInv /\ InboxInv
  BY TypeInit DEF Init, CheckedHasId, ClockInv, InboxInv
<1>2. TypeOK /\ CheckedHasId /\ ClockInv /\ InboxInv /\ [Next]_vars
      => (TypeOK /\ CheckedHasId /\ ClockInv /\ InboxInv)'
  BY TypeNext, CheckedNext, ClockNext, InboxNext
<1>3. TypeOK /\ ClockInv /\ InboxInv => RelayKeepsHistoryOrder
  <2> SUFFICES ASSUME ClockInv, InboxInv, NEW t \in Sockets,
                      NEW i \in DOMAIN inbox[t], NEW j \in DOMAIN inbox[t],
                      i < j, inbox[t][i].socket = inbox[t][j].socket,
                      NEW c \in messages, NEW d \in messages,
                      c.socket = inbox[t][i].socket, c.n = inbox[t][i].n,
                      d.socket = c.socket, d.n = inbox[t][j].n
               PROVE  c.at <= d.at
    BY DEF RelayKeepsHistoryOrder
  <2>1. inbox[t][i].n < inbox[t][j].n
    BY DEF InboxInv
  <2> QED
    BY <2>1 DEF ClockInv
<1> QED
  BY <1>1, <1>2, <1>3, PTL DEF Spec

-----------------------------------------------------------------------------
(* Users who left *)

\* An endpoint of a departed user that may still store a late frame.
MayStoreLate(s) ==
    /\ owner[s] \notin members
    /\ pc[s] \in {"seen", "remember", "stamp", "insert"}

LateInv ==
    /\ \A m \in late : owner[m.socket] \notin members
    /\ \A s \in Sockets :
          /\ frame[s].socket = s
          /\ MayStoreLate(s) => \A m \in late : m.socket # s

\* The check lets nobody become able to store late; an insert uses it up.
LEMMA LateNext ==
    ASSUME TypeOK, LateInv, [Next]_vars
    PROVE  LateInv'
<1> USE RelayAssumption DEF TypeOK, LateInv, MayStoreLate, Places, Frames
<1>0. CASE UNCHANGED vars
  BY <1>0 DEF vars
<1>1. ASSUME NEW s \in Sockets, Receive(s) PROVE LateInv'
  BY <1>1 DEF Receive, Goto, history
<1>2. ASSUME NEW s \in Sockets, CheckMember(s) PROVE LateInv'
  BY <1>2 DEF CheckMember, Goto, history
<1>3. ASSUME NEW s \in Sockets, CheckSeen(s) PROVE LateInv'
  BY <1>3 DEF CheckSeen, Goto, history
<1>4. ASSUME NEW s \in Sockets, Remember(s) PROVE LateInv'
  BY <1>4 DEF Remember, Goto, history
<1>5. ASSUME NEW s \in Sockets, Stamp(s) PROVE LateInv'
  BY <1>5 DEF Stamp, Goto, history
<1>6. ASSUME NEW s \in Sockets, Insert(s) PROVE LateInv'
  BY <1>6 DEF Insert, Goto, history, Document
<1>7. ASSUME NEW s \in Sockets, NEW t \in Sockets, Relay(s, t) PROVE LateInv'
  BY <1>7 DEF Relay, history
<1>8. ASSUME NEW s \in Sockets, Relayed(s) PROVE LateInv'
  BY <1>8 DEF Relayed, Goto, history
<1>9. ASSUME NEW u \in Users, LeaveRoom(u) PROVE LateInv'
  BY <1>9 DEF LeaveRoom, history
<1>10. ASSUME NEW id \in MsgIds, Expire(id) PROVE LateInv'
  BY <1>10 DEF Expire
<1>11. ASSUME NEW s \in Sockets, Fail(s) PROVE LateInv'
  BY <1>11 DEF Fail
<1> QED
  BY <1>0, <1>1, <1>2, <1>3, <1>4, <1>5, <1>6, <1>7, <1>8, <1>9, <1>10,
     <1>11 DEF Next, Handle

\* Only the insert of an endpoint that may store late adds a late document.
LEMMA LateFrameNext ==
    ASSUME TypeOK, LateInv, AtMostOneLateFrame, [Next]_vars
    PROVE  AtMostOneLateFrame'
<1> USE RelayAssumption DEF TypeOK, LateInv, AtMostOneLateFrame,
        MayStoreLate, Places, Frames
<1>0. CASE UNCHANGED vars
  BY <1>0 DEF vars
<1>1. ASSUME NEW s \in Sockets, Receive(s) PROVE AtMostOneLateFrame'
  BY <1>1 DEF Receive, Goto, history
<1>2. ASSUME NEW s \in Sockets, CheckMember(s) PROVE AtMostOneLateFrame'
  BY <1>2 DEF CheckMember, Goto, history
<1>3. ASSUME NEW s \in Sockets, CheckSeen(s) PROVE AtMostOneLateFrame'
  BY <1>3 DEF CheckSeen, Goto, history
<1>4. ASSUME NEW s \in Sockets, Remember(s) PROVE AtMostOneLateFrame'
  BY <1>4 DEF Remember, Goto, history
<1>5. ASSUME NEW s \in Sockets, Stamp(s) PROVE AtMostOneLateFrame'
  BY <1>5 DEF Stamp, Goto, history
<1>6. ASSUME NEW s \in Sockets, Insert(s) PROVE AtMostOneLateFrame'
  BY <1>6 DEF Insert, Goto, history, Document
<1>7. ASSUME NEW s \in Sockets, NEW t \in Sockets, Relay(s, t)
       PROVE  AtMostOneLateFrame'
  BY <1>7 DEF Relay, history
<1>8. ASSUME NEW s \in Sockets, Relayed(s) PROVE AtMostOneLateFrame'
  BY <1>8 DEF Relayed, Goto, history
<1>9. ASSUME NEW u \in Users, LeaveRoom(u) PROVE AtMostOneLateFrame'
  BY <1>9 DEF LeaveRoom, history
<1>10. ASSUME NEW id \in MsgIds, Expire(id) PROVE AtMostOneLateFrame'
  BY <1>10 DEF Expire
<1>11. ASSUME NEW s \in Sockets, Fail(s) PROVE AtMostOneLateFrame'
  BY <1>11 DEF Fail
<1> QED
  BY <1>0, <1>1, <1>2, <1>3, <1>4, <1>5, <1>6, <1>7, <1>8, <1>9, <1>10,
     <1>11 DEF Next, Handle

\* store_ciphertext checks the membership of every frame: a user who left gets at
\* most the frame stored that was past the check.
THEOREM DepartedStoreAtMostOne == Spec => []AtMostOneLateFrame
<1>1. Init => TypeOK /\ CheckedHasId /\ LateInv /\ AtMostOneLateFrame
  BY TypeInit DEF Init, CheckedHasId, LateInv, AtMostOneLateFrame
<1>2. TypeOK /\ CheckedHasId /\ LateInv /\ AtMostOneLateFrame /\ [Next]_vars
      => (TypeOK /\ CheckedHasId /\ LateInv /\ AtMostOneLateFrame)'
  BY TypeNext, CheckedNext, LateNext, LateFrameNext
<1> QED
  BY <1>1, <1>2, PTL DEF Spec

-----------------------------------------------------------------------------
(* The abstract log *)

\* The frame that is being relayed is one of the history, number, id and all, and
\* the broadcast does not go back to its user.
RelayInv ==
    \A s \in Sockets :
        /\ todo[s] \subseteq Recipients(s)
        /\ pc[s] = "relay" =>
              \E d \in messages : d.socket = s /\ d.n = frame[s].n /\ d.id = frame[s].id

\* A step that adds no frame to be relayed and no recipient.
LEMMA RelayFrame ==
    ASSUME TypeOK, RelayInv, messages \subseteq messages',
           \A s \in Sockets :
              /\ todo'[s] \subseteq todo[s]
              /\ pc'[s] = "relay" => pc[s] = "relay" /\ frame'[s] = frame[s]
    PROVE  RelayInv'
BY DEF RelayInv, Recipients

\* Every step keeps RelayInv.
LEMMA RelayInvNext ==
    ASSUME TypeOK, RelayInv, [Next]_vars
    PROVE  RelayInv'
<1> USE DEF TypeOK
<1>0. CASE UNCHANGED vars
  BY <1>0, RelayFrame DEF vars
<1>1. ASSUME NEW s \in Sockets, Receive(s) PROVE RelayInv'
  BY <1>1, RelayFrame DEF Receive, Goto
<1>2. ASSUME NEW s \in Sockets, CheckMember(s) PROVE RelayInv'
  BY <1>2, RelayFrame DEF CheckMember, Goto
<1>3. ASSUME NEW s \in Sockets, CheckSeen(s) PROVE RelayInv'
  BY <1>3, RelayFrame DEF CheckSeen, Goto
<1>4. ASSUME NEW s \in Sockets, Remember(s) PROVE RelayInv'
  BY <1>4, RelayFrame DEF Remember, Goto
<1>5. ASSUME NEW s \in Sockets, Stamp(s) PROVE RelayInv'
  BY <1>5, RelayFrame DEF Stamp, Goto
<1>6. ASSUME NEW s \in Sockets, Insert(s) PROVE RelayInv'
  <2>1. /\ messages' = messages \cup {Document(s)}
        /\ Document(s).socket = s /\ Document(s).n = frame[s].n /\ Document(s).id = frame[s].id
        /\ frame' = frame /\ todo'[s] = Recipients(s)
        /\ \A r \in Sockets \ {s} : pc'[r] = pc[r] /\ todo'[r] = todo[r]
    BY <1>6 DEF Insert, Document, Goto
  <2>2. ASSUME NEW r \in Sockets
        PROVE  /\ todo'[r] \subseteq Recipients(r)
               /\ pc'[r] = "relay" =>
                     \E d \in messages' : d.socket = r /\ d.n = frame'[r].n /\ d.id = frame'[r].id
    <3>1. CASE r = s
      BY <2>1, <3>1
    <3>2. CASE r # s
      BY <2>1, <3>2 DEF RelayInv
    <3> QED
      BY <3>1, <3>2
  <2> QED
    BY <2>2 DEF RelayInv, Recipients
<1>7. ASSUME NEW s \in Sockets, NEW t \in Sockets, Relay(s, t) PROVE RelayInv'
  BY <1>7, RelayFrame DEF Relay
<1>8. ASSUME NEW s \in Sockets, Relayed(s) PROVE RelayInv'
  BY <1>8, RelayFrame DEF Relayed, Goto
<1>9. ASSUME NEW u \in Users, LeaveRoom(u) PROVE RelayInv'
  BY <1>9, RelayFrame DEF LeaveRoom
<1>10. ASSUME NEW id \in MsgIds, Expire(id) PROVE RelayInv'
  BY <1>10, RelayFrame DEF Expire
<1>11. ASSUME NEW s \in Sockets, Fail(s) PROVE RelayInv'
  BY <1>11, RelayFrame DEF Fail
<1> QED
  BY <1>0, <1>1, <1>2, <1>3, <1>4, <1>5, <1>6, <1>7, <1>8, <1>9, <1>10,
     <1>11 DEF Next, Handle

\* The sockets that stored a document after their user left.
Spent == {m.socket : m \in late}

\* An insert is the next document of its socket in the log.
LEMMA InsertStores ==
    ASSUME TypeOK, ReplayInv, ClockInv, LateInv, NEW s \in Sockets, Insert(s)
    PROVE  Log!Next
<1> DEFINE d == Document(s)
<1>1. /\ pc[s] = "insert" /\ frame[s] \in Frames /\ frame[s].socket = s
      /\ d.socket = s /\ d.n = frame[s].n /\ d.id = frame[s].id /\ d.at = stamp[s]
      /\ messages' = messages \cup {d} /\ UNCHANGED <<members, inbox, expired>>
  BY DEF Insert, Goto, Document, TypeOK, ReplayInv
<1> HIDE DEF d
<1>2. \A c \in Log!From(s) : c.n < d.n /\ c.at <= d.at
  BY <1>1 DEF ClockInv, Log!From
<1>3. d.id \in expired \cup {NoId} \/ \A c \in Log!From(s) : c.id # d.id
  BY <1>1 DEF ReplayInv, Log!From
<1>4. CASE owner[s] \in members
  <2>1. Spent' = Spent
    BY <1>4 DEF Insert, Spent
  <2> QED
    BY <1>1, <1>2, <1>3, <1>4, <2>1 DEF Log!Next, Log!Store, Spent
<1>5. CASE owner[s] \notin members
  <2>1. s \notin Spent
    BY <1>1, <1>5 DEF LateInv, MayStoreLate, Spent
  <2>2. Spent' = Spent \cup {s}
    BY <1>1, <1>5 DEF Insert, Spent
  <2> QED
    BY <1>1, <1>2, <1>3, <1>5, <2>1, <2>2 DEF Log!Next, Log!Store, Spent
<1> QED
  BY <1>4, <1>5

\* A send of the broadcast delivers the last document of its socket.
LEMMA RelayDelivers ==
    ASSUME TypeOK, ClockInv, InboxInv, RelayInv,
           NEW s \in Sockets, NEW t \in Sockets, Relay(s, t)
    PROVE  Log!Next
<1>1. /\ pc[s] = "relay" /\ t \in todo[s]
      /\ inbox' = [inbox EXCEPT ![t] = Append(@, frame[s])]
      /\ UNCHANGED <<members, messages, expired, late>>
  BY DEF Relay, history
<1>2. PICK d \in messages : d.socket = s /\ d.n = frame[s].n /\ d.id = frame[s].id
  BY <1>1 DEF RelayInv
<1>3. Log!FrameOf(d) = frame[s]
  <2>1. frame[s] \in Frames /\ frame[s].socket = s
    BY DEF TypeOK, ClockInv
  <2> QED
    BY <1>2, <2>1 DEF Log!FrameOf, Frames
<1>4. owner[t] # owner[s]
  BY <1>1 DEF RelayInv, Recipients
<1>5. \A c \in Log!From(s) : c.n <= d.n
  BY <1>2 DEF ClockInv, Log!From
<1>6. \A i \in DOMAIN inbox[t] : inbox[t][i].socket = s => inbox[t][i].n < d.n
  BY <1>1, <1>2 DEF InboxInv, Pending
<1>7. Log!Deliver(t, d)
  BY <1>1, <1>2, <1>3, <1>4, <1>5, <1>6 DEF Log!Deliver
<1> QED
  BY <1>2, <1>7 DEF Log!Next

\* Every step of the relay is a step of the log, or changes nothing that it shows.
LEMMA LogNext ==
    ASSUME TypeOK, ReplayInv, ClockInv, InboxInv, LateInv, RelayInv, [Next]_vars
    PROVE  [Log!Next]_(Log!vars)
<1>0. CASE UNCHANGED vars
  BY <1>0 DEF vars, Log!vars
<1>1. ASSUME NEW s \in Sockets, Receive(s) PROVE UNCHANGED Log!vars
  BY <1>1 DEF Receive, Log!vars, history
<1>2. ASSUME NEW s \in Sockets, CheckMember(s) PROVE UNCHANGED Log!vars
  BY <1>2 DEF CheckMember, Log!vars, history
<1>3. ASSUME NEW s \in Sockets, CheckSeen(s) PROVE UNCHANGED Log!vars
  BY <1>3 DEF CheckSeen, Log!vars
<1>4. ASSUME NEW s \in Sockets, Remember(s) PROVE UNCHANGED Log!vars
  BY <1>4 DEF Remember, Log!vars, history
<1>5. ASSUME NEW s \in Sockets, Stamp(s) PROVE UNCHANGED Log!vars
  BY <1>5 DEF Stamp, Log!vars, history
<1>6. ASSUME NEW s \in Sockets, Relayed(s) PROVE UNCHANGED Log!vars
  BY <1>6 DEF Relayed, Log!vars, history
<1>7. ASSUME NEW u \in Users, LeaveRoom(u) PROVE Log!Next
  BY <1>7 DEF LeaveRoom, Log!Next, Log!Leave, history
<1>8. ASSUME NEW id \in MsgIds, Expire(id) PROVE Log!Next
  BY <1>8 DEF Expire, Log!Next, Log!Forget
<1>9. ASSUME NEW s \in Sockets, Fail(s) PROVE UNCHANGED Log!vars
  BY <1>9 DEF Fail, Log!vars
<1> QED
  BY <1>0, <1>1, <1>2, <1>3, <1>4, <1>5, <1>6, <1>7, <1>8, <1>9, InsertStores,
     RelayDelivers DEF Next, Handle

\* For any sockets, ids and faults, what members see of the relay is one history
\* that grows in each sender's order, and parts of it delivered in order and once.
THEOREM RelayImplementsLog == Spec => LogSpec
<1> DEFINE LogInv == /\ TypeOK /\ CheckedHasId /\ ReplayInv /\ ClockInv /\ InboxInv
                     /\ LateInv /\ RelayInv
<1>1. Init => LogInv
  <2>1. Init => TypeOK
    BY TypeInit
  <2>2. Init => CheckedHasId /\ ReplayInv /\ ClockInv /\ InboxInv /\ LateInv /\ RelayInv
    BY RelayAssumption DEF Init, CheckedHasId, ReplayInv, ClockInv, InboxInv, LateInv, RelayInv
  <2> QED
    BY <2>1, <2>2
<1>2. LogInv /\ [Next]_vars => LogInv'
  BY TypeNext, CheckedNext, ReplayNext, ClockNext, InboxNext, LateNext, RelayInvNext
<1>3. Init => Log!Init
  BY DEF Init, Log!Init
<1>4. LogInv /\ [Next]_vars => [Log!Next]_(Log!vars)
  BY LogNext
<1> QED
  BY <1>1, <1>2, <1>3, <1>4, PTL DEF Spec, LogSpec, Log!Spec

=============================================================================
