------------------------ MODULE ConnectionManagerProofs ------------------------
(* Theorems about ConnectionManager, for any sockets, users and reconnection *)
(* policy.                                                                   *)
EXTENDS ConnectionManager, FiniteSetTheorems, TLAPS

-----------------------------------------------------------------------------
(* Type correctness *)

\* A dictionary has finitely many entries, so broadcast can note its size.
LEMMA SizeIsNat ==
    ASSUME NEW S, S \subseteq Sockets
    PROVE  Cardinality(S) \in Nat
  BY ManagerAssumption, FS_Subset, FS_CardinalityType

\* A coroutine iterates only while it is in a broadcast.
LoopInv == \A a \in Actors : loop[a].active \/ loop[a].at # {} => pc[a] \in Phases

\* Purging changes which entries count as passed, nothing else.
LEMMA PurgedKeeps ==
    ASSUME TypeOK, NEW d, NEW U
    PROVE  /\ Purged(d, U) \in [Actors -> Locals]
           /\ \A a \in Actors : /\ Purged(d, U)[a].active = loop[a].active
                                 /\ Purged(d, U)[a].at = loop[a].at
                                 /\ Purged(d, U)[a].room = loop[a].room
                                 /\ Purged(d, U)[a].dead = loop[a].dead
<1> SUFFICES ASSUME NEW a \in Actors
             PROVE  /\ Purged(d, U)[a] \in Locals
                    /\ Purged(d, U)[a].active = loop[a].active
                    /\ Purged(d, U)[a].at = loop[a].at
                    /\ Purged(d, U)[a].room = loop[a].room
                    /\ Purged(d, U)[a].dead = loop[a].dead
  BY DEF Purged
<1>1. loop[a] \in Locals
  BY DEF TypeOK
<1>2. loop[a].passed \ U \in SUBSET Users
  BY <1>1 DEF Locals
<1> QED
  BY <1>1, <1>2 DEF Purged, Locals

\* Where an endpoint is before it is registered.
Early == {"off", "accept", "register", "replace"}

GoodbyeInv ==
    /\ entries[NoDict] = {}
    /\ \A s \in Sockets :
          /\ pc[s] # "announce"
          /\ link[s] = "none" => pc[s] = "off"
          /\ pc[s] \in {"register", "replace"} => home[s] \in Dicts
          /\ \A d \in Dicts : s \in entries[d] => pc[s] \notin Early
          /\ s \in entries[room] => pc[s] \notin {"goodbye", "left", "over"}

LEMMA TypeInit == Init => TypeOK /\ LoopInv
  BY DEF Init, TypeOK, LoopInv, NoLoop, Locals, Places, Actors

\* Only Begin starts an iteration.
LEMMA LoopNext ==
    ASSUME ManagerAssumption, TypeOK, LoopInv, GoodbyeInv,
           [Next]_vars
    PROVE  LoopInv'
<1> USE DEF LoopInv, ManagerAssumption, TypeOK, Actors, Places, Phases,
        Ended, NoLoop, Continue, Yield, Run, At
<1>0. CASE UNCHANGED vars
  BY <1>0 DEF vars
<1>1. ASSUME NEW s \in Sockets, Open(s) PROVE LoopInv'
  BY <1>1 DEF Open, GoodbyeInv
<1>2. ASSUME NEW s \in Sockets, Drop(s) PROVE LoopInv'
  BY <1>2 DEF Drop
<1>3. ASSUME NEW s \in Sockets, Enter(s) PROVE LoopInv'
  BY <1>3 DEF Enter, Of
<1>4. ASSUME NEW s \in Sockets, Register(s) PROVE LoopInv'
  BY <1>4 DEF Register, Without
<1>5. ASSUME NEW a \in Actors, Begin(a) PROVE LoopInv'
  BY <1>5 DEF Begin
<1>6. ASSUME NEW a \in Actors, NEW s \in Sockets, Visit(a, s) PROVE LoopInv'
  BY <1>6 DEF Visit, Iterating, SameSize
<1>7. ASSUME NEW a \in Actors, Sent(a) PROVE LoopInv'
  BY <1>7 DEF Sent
<1>8. ASSUME NEW a \in Actors, NEW s \in Sockets, SendFailed(a, s)
       PROVE  LoopInv'
  BY <1>8 DEF SendFailed
<1>9. ASSUME NEW a \in Actors, SizeChanged(a) PROVE LoopInv'
  BY <1>9 DEF SizeChanged, Crash, Iterating
<1>10. ASSUME NEW a \in Actors, EndLoop(a) PROVE LoopInv'
  <2>1. pc' = [pc EXCEPT ![a] = After(pc[a])]
    BY <1>10 DEF EndLoop
  <2>2. loop'[a] = NoLoop
    BY <1>10, PurgedKeeps DEF EndLoop
  <2>3. \A b \in Actors \ {a} : loop'[b].active = loop[b].active /\ loop'[b].at = loop[b].at
    BY <1>10, PurgedKeeps DEF EndLoop
  <2> QED
    BY <2>1, <2>2, <2>3
<1>11. ASSUME NEW s \in Sockets, Await(s) PROVE LoopInv'
  <2>1. CASE Crash(s)
    BY <2>1 DEF Crash
  <2>2. CASE ~Crash(s)
    BY <1>11, <2>2 DEF Await
  <2> QED
    BY <2>1, <2>2
<1>12. ASSUME NEW s \in Sockets, NEW kind \in Kinds, Incoming(s, kind)
       PROVE  LoopInv'
  BY <1>12 DEF Incoming
<1>13. ASSUME NEW s \in Sockets, Stored(s) PROVE LoopInv'
  <2>1. CASE Crash(s)
    BY <2>1 DEF Crash
  <2>2. CASE ~Crash(s)
    BY <1>13, <2>2 DEF Stored
  <2> QED
    BY <2>1, <2>2
<1>14. ASSUME NEW s \in Sockets, Reply(s) PROVE LoopInv'
  <2>1. CASE Crash(s)
    BY <2>1 DEF Crash
  <2>2. CASE ~Crash(s)
    BY <1>14, <2>2 DEF Reply
  <2> QED
    BY <2>1, <2>2
<1>15. ASSUME NEW s \in Sockets, Replied(s) PROVE LoopInv'
  <2>1. CASE Leave(s)
    <3>1. \A a \in Actors : loop'[a].active = loop[a].active /\ loop'[a].at = loop[a].at
      BY <2>1, PurgedKeeps DEF Leave
    <3>2. ~loop[s].active /\ loop[s].at = {} /\ \A a \in Actors \ {s} : pc'[a] = pc[a]
      BY <1>15, <2>1 DEF Replied, Leave
    <3> QED
      BY <3>1, <3>2
  <2>2. CASE ~Leave(s)
    BY <1>15, <2>2 DEF Replied
  <2> QED
    BY <2>1, <2>2
<1>16. ASSUME NEW s \in Sockets, Disconnected(s) PROVE LoopInv'
  <2>1. \A a \in Actors : loop'[a].active = loop[a].active /\ loop'[a].at = loop[a].at
    BY <1>16, PurgedKeeps DEF Disconnected, Leave
  <2>2. ~loop[s].active /\ loop[s].at = {} /\ \A a \in Actors \ {s} : pc'[a] = pc[a]
    BY <1>16 DEF Disconnected, Leave
  <2> QED
    BY <2>1, <2>2
<1>17. ASSUME NEW a \in Announcers, Announce(a) PROVE LoopInv'
  BY <1>17 DEF Announce
<1> QED
  BY <1>0, <1>1, <1>2, <1>3, <1>4, <1>5, <1>6, <1>7, <1>8, <1>9, <1>10,
     <1>11, <1>12, <1>13, <1>14, <1>15, <1>16, <1>17 DEF Next, Endpoint,
     Broadcast, Frame

\* Every step preserves the types.
LEMMA TypeNext ==
    ASSUME ManagerAssumption, TypeOK, LoopInv,
           [Next]_vars
    PROVE  TypeOK'
<1> USE DEF ManagerAssumption, TypeOK, Actors, Places, Phases, Ended,
        NoLoop, Continue, Yield, Run, At
<1>0. CASE UNCHANGED vars
  BY <1>0 DEF vars
<1>1. ASSUME NEW s \in Sockets, Open(s) PROVE TypeOK'
  BY <1>1 DEF Open
<1>2. ASSUME NEW s \in Sockets, Drop(s) PROVE TypeOK'
  BY <1>2 DEF Drop
<1>3. ASSUME NEW s \in Sockets, Enter(s) PROVE TypeOK'
  BY <1>3 DEF Enter, Of
<1>4. ASSUME NEW s \in Sockets, Register(s) PROVE TypeOK'
  BY <1>4 DEF Register, Without
<1>5. ASSUME NEW a \in Actors, Begin(a) PROVE TypeOK'
  <2>1. Cardinality(entries[room]) \in Nat
    BY SizeIsNat
  <2> QED
    BY <1>5, <2>1 DEF Begin, Locals
<1>6. ASSUME NEW a \in Actors, NEW s \in Sockets, Visit(a, s) PROVE TypeOK'
  <2>1. loop[a] \in Locals /\ owner[s] \in Users
    OBVIOUS
  <2>2. loop'[a] \in Locals
    BY <1>6, <2>1 DEF Visit, Locals
  <2>3. loop' = [loop EXCEPT ![a] = loop'[a]]
    BY <1>6 DEF Visit
  <2>4. loop' \in [Actors -> Locals]
    BY <2>2, <2>3
  <2> QED
    BY <1>6, <2>4 DEF Visit
<1>7. ASSUME NEW a \in Actors, Sent(a) PROVE TypeOK'
  <2>1. loop[a] \in Locals
    OBVIOUS
  <2>2. loop'[a] \in Locals
    BY <1>7, <2>1 DEF Sent, Locals
  <2>3. loop' = [loop EXCEPT ![a] = loop'[a]]
    BY <1>7 DEF Sent
  <2>4. loop' \in [Actors -> Locals]
    BY <2>2, <2>3
  <2> QED
    BY <1>7, <2>4 DEF Sent
<1>8. ASSUME NEW a \in Actors, NEW s \in Sockets, SendFailed(a, s)
       PROVE  TypeOK'
  <2>1. loop[a] \in Locals /\ owner[s] \in Users
    OBVIOUS
  <2>2. loop'[a] \in Locals
    BY <1>8, <2>1 DEF SendFailed, Locals
  <2>3. loop' = [loop EXCEPT ![a] = loop'[a]]
    BY <1>8 DEF SendFailed
  <2>4. loop' \in [Actors -> Locals]
    BY <2>2, <2>3
  <2> QED
    BY <1>8, <2>4 DEF SendFailed
<1>9. ASSUME NEW a \in Actors, SizeChanged(a) PROVE TypeOK'
  BY <1>9 DEF SizeChanged, Crash, Iterating, Locals
<1>10. ASSUME NEW a \in Actors, EndLoop(a) PROVE TypeOK'
  <2>1. After(pc[a]) \in Places /\ pc' = [pc EXCEPT ![a] = After(pc[a])]
    BY <1>10 DEF EndLoop, Iterating, LoopInv, After
  <2>2. loop' \in [Actors -> Locals]
    BY <1>10, PurgedKeeps DEF EndLoop, Locals
  <2>3. turn' \in Actors \cup {NoOne} /\ UNCHANGED <<room, link, home>>
    BY <1>10 DEF EndLoop
  <2>4. entries' \in [Dicts \cup {NoDict} -> SUBSET Sockets]
    BY <1>10 DEF EndLoop, Without
  <2> QED
    BY <2>1, <2>2, <2>3, <2>4
<1>11. ASSUME NEW s \in Sockets, Await(s) PROVE TypeOK'
  <2>1. CASE Crash(s)
    BY <2>1 DEF Crash, Locals
  <2>2. CASE ~Crash(s)
    BY <1>11, <2>2 DEF Await
  <2> QED
    BY <2>1, <2>2
<1>12. ASSUME NEW s \in Sockets, NEW kind \in Kinds, Incoming(s, kind)
       PROVE  TypeOK'
  BY <1>12 DEF Incoming
<1>13. ASSUME NEW s \in Sockets, Stored(s) PROVE TypeOK'
  <2>1. CASE Crash(s)
    BY <2>1 DEF Crash, Locals
  <2>2. CASE ~Crash(s)
    BY <1>13, <2>2 DEF Stored
  <2> QED
    BY <2>1, <2>2
<1>14. ASSUME NEW s \in Sockets, Reply(s) PROVE TypeOK'
  <2>1. CASE Crash(s)
    BY <2>1 DEF Crash, Locals
  <2>2. CASE ~Crash(s)
    BY <1>14, <2>2 DEF Reply
  <2> QED
    BY <2>1, <2>2
<1>15. ASSUME NEW s \in Sockets, Replied(s) PROVE TypeOK'
  <2>1. CASE Leave(s)
    <3>1. loop' \in [Actors -> Locals]
      BY <1>15, <2>1, PurgedKeeps DEF Leave
    <3>2. pc' \in [Actors -> Places] /\ turn' \in Actors \cup {NoOne}
      BY <1>15, <2>1 DEF Leave
    <3> QED
      BY <1>15, <2>1, <3>1, <3>2 DEF Replied, Leave, Without
  <2>2. CASE ~Leave(s)
    BY <1>15, <2>2 DEF Replied
  <2> QED
    BY <2>1, <2>2
<1>16. ASSUME NEW s \in Sockets, Disconnected(s) PROVE TypeOK'
  <2>1. loop' \in [Actors -> Locals]
    BY <1>16, PurgedKeeps DEF Disconnected, Leave
  <2>2. pc' \in [Actors -> Places] /\ turn' \in Actors \cup {NoOne}
    BY <1>16 DEF Disconnected, Leave
  <2> QED
    BY <1>16, <2>1, <2>2 DEF Disconnected, Leave, Without
<1>17. ASSUME NEW a \in Announcers, Announce(a) PROVE TypeOK'
  BY <1>17 DEF Announce
<1> QED
  BY <1>0, <1>1, <1>2, <1>3, <1>4, <1>5, <1>6, <1>7, <1>8, <1>9, <1>10,
     <1>11, <1>12, <1>13, <1>14, <1>15, <1>16, <1>17 DEF Next, Endpoint,
     Broadcast, Frame

-----------------------------------------------------------------------------
(* A goodbye is final *)

LEMMA GoodbyeInit == Init => GoodbyeInv
  BY ManagerAssumption DEF Init, GoodbyeInv, Actors

\* Leave removes the entry before the goodbye is said, and Register only adds
\* an endpoint that has not been in a dictionary.
LEMMA GoodbyeNext ==
    ASSUME ManagerAssumption, TypeOK, LoopInv, GoodbyeInv,
           [Next]_vars
    PROVE  GoodbyeInv'
<1> USE DEF GoodbyeInv, LoopInv, Early, ManagerAssumption, TypeOK, Actors,
        Places, Phases, Ended, NoLoop, Continue, Yield, Run, At
<1>0. CASE UNCHANGED vars
  BY <1>0 DEF vars
<1>1. ASSUME NEW s \in Sockets, Open(s) PROVE GoodbyeInv'
  BY <1>1 DEF Open
<1>2. ASSUME NEW s \in Sockets, Drop(s) PROVE GoodbyeInv'
  BY <1>2 DEF Drop
<1>3. ASSUME NEW s \in Sockets, Enter(s) PROVE GoodbyeInv'
  BY <1>3 DEF Enter, Of
<1>4. ASSUME NEW s \in Sockets, Register(s) PROVE GoodbyeInv'
  BY <1>4 DEF Register, Without
<1>5. ASSUME NEW a \in Actors, Begin(a) PROVE GoodbyeInv'
  BY <1>5 DEF Begin
<1>6. ASSUME NEW a \in Actors, NEW s \in Sockets, Visit(a, s)
       PROVE  GoodbyeInv'
  BY <1>6 DEF Visit, Iterating, SameSize
<1>7. ASSUME NEW a \in Actors, Sent(a) PROVE GoodbyeInv'
  BY <1>7 DEF Sent
<1>8. ASSUME NEW a \in Actors, NEW s \in Sockets, SendFailed(a, s)
       PROVE  GoodbyeInv'
  BY <1>8 DEF SendFailed
<1>9. ASSUME NEW a \in Actors, SizeChanged(a) PROVE GoodbyeInv'
  BY <1>9 DEF SizeChanged, Crash, Iterating
<1>10. ASSUME NEW a \in Actors, EndLoop(a) PROVE GoodbyeInv'
  BY <1>10 DEF EndLoop, Iterating, After, Purged, Without, UsersIn
<1>11. ASSUME NEW s \in Sockets, Await(s) PROVE GoodbyeInv'
  BY <1>11 DEF Await, Crash
<1>12. ASSUME NEW s \in Sockets, NEW kind \in Kinds, Incoming(s, kind)
       PROVE  GoodbyeInv'
  BY <1>12 DEF Incoming
<1>13. ASSUME NEW s \in Sockets, Stored(s) PROVE GoodbyeInv'
  BY <1>13 DEF Stored, Crash
<1>14. ASSUME NEW s \in Sockets, Reply(s) PROVE GoodbyeInv'
  BY <1>14 DEF Reply, Crash
<1>15. ASSUME NEW s \in Sockets, Replied(s) PROVE GoodbyeInv'
  BY <1>15 DEF Replied, Leave, Without, Purged
<1>16. ASSUME NEW s \in Sockets, Disconnected(s) PROVE GoodbyeInv'
  BY <1>16 DEF Disconnected, Leave, Without, Purged
<1>17. ASSUME NEW a \in Announcers, Announce(a) PROVE GoodbyeInv'
  BY <1>17 DEF Announce
<1> QED
  BY <1>0, <1>1, <1>2, <1>3, <1>4, <1>5, <1>6, <1>7, <1>8, <1>9, <1>10,
     <1>11, <1>12, <1>13, <1>14, <1>15, <1>16, <1>17 DEF Next, Endpoint,
     Broadcast, Frame

-----------------------------------------------------------------------------
(* Endpoints that die *)

CrashedInv == \A s \in Sockets : pc[s] = "crashed" => link[s] = "closed"

\* Every step keeps CrashedInv: a socket is closed for good.
LEMMA CrashedNext ==
    ASSUME ManagerAssumption, TypeOK, LoopInv, CrashedInv, [Next]_vars
    PROVE  CrashedInv'
<1> USE DEF At
<1>a. pc \in [Actors -> Places] /\ link \in [Sockets -> {"none", "open", "gone", "closed"}]
      /\ Sockets \subseteq Actors
  BY DEF TypeOK, Actors
<1> USE DEF CrashedInv
<1>0. CASE UNCHANGED vars
  BY <1>0 DEF vars
<1>1. ASSUME NEW s \in Sockets, Open(s) \/ Drop(s) PROVE CrashedInv'
  BY <1>a, <1>1 DEF Open, Drop
<1>2. ASSUME NEW s \in Sockets, Enter(s) PROVE CrashedInv'
  <2>1. \A t \in Sockets : link[t] = "closed" => link'[t] = "closed"
    BY <1>2 DEF Enter
  <2>2. pc' = [pc EXCEPT ![s] = "register"] \/ pc' = [pc EXCEPT ![s] = "replace"]
    BY <1>2 DEF Enter
  <2> QED
    BY <1>a, <2>1, <2>2
<1>3. ASSUME NEW s \in Sockets, Register(s) PROVE CrashedInv'
  BY <1>a, <1>3 DEF Register
<1>4. ASSUME NEW a \in Actors, Crash(a) PROVE CrashedInv'
  BY <1>a, <1>4 DEF Crash
<1>5. ASSUME NEW s \in Sockets, Await(s) \/ Reply(s) \/ Stored(s) PROVE CrashedInv'
  <2>1. CASE Crash(s)
    BY <1>a, <1>4, <2>1
  <2>2. CASE ~Crash(s)
    BY <1>a, <1>5, <2>2 DEF Await, Reply, Stored
  <2> QED
    BY <2>1, <2>2
<1>6. ASSUME NEW s \in Sockets, Replied(s) \/ Disconnected(s) PROVE CrashedInv'
  <2>1. \A t \in Sockets : link[t] = "closed" => link'[t] = "closed"
    BY <1>a, <1>6 DEF Replied, Disconnected
  <2>2. \E to \in {"loop", "goodbye", "left"} : pc' = [pc EXCEPT ![s] = to]
    BY <1>6 DEF Replied, Disconnected, Leave
  <2> QED
    BY <1>a, <2>1, <2>2
<1>7. ASSUME NEW s \in Sockets, Frame(s) PROVE CrashedInv'
  BY <1>a, <1>7 DEF Frame, Incoming, ManagerAssumption
<1>8. ASSUME NEW a \in Announcers, Announce(a) PROVE CrashedInv'
  BY <1>a, <1>8 DEF Announce
<1>9. ASSUME NEW a \in Actors, Begin(a) \/ Sent(a) PROVE CrashedInv'
  BY <1>9 DEF Begin, Sent
<1>10. ASSUME NEW a \in Actors, NEW s \in Sockets, Visit(a, s) \/ SendFailed(a, s)
       PROVE  CrashedInv'
  BY <1>a, <1>10 DEF Visit, SendFailed
<1>11. ASSUME NEW a \in Actors, SizeChanged(a) PROVE CrashedInv'
  BY <1>4, <1>11 DEF SizeChanged
<1>12. ASSUME NEW a \in Actors, EndLoop(a) PROVE CrashedInv'
  <2>1. After(pc[a]) # "crashed"
    BY <1>12 DEF EndLoop, Iterating, LoopInv, After, Phases
  <2>2. pc' = [pc EXCEPT ![a] = After(pc[a])] /\ link' = link
    BY <1>12 DEF EndLoop
  <2> QED
    BY <1>a, <2>1, <2>2
<1> QED
  BY <1>0, <1>1, <1>2, <1>3, <1>5, <1>6, <1>7, <1>8, <1>9, <1>10, <1>11, <1>12
     DEF Next, Endpoint, Broadcast

-----------------------------------------------------------------------------
(* Clients that reconnect after their last session has ended *)

Alive(s) == pc[s] \notin {"off"} \cup Ended

\* The one endpoint of a user finds no open socket of the user to replace, so it
\* registers without an await in between.
LoneInv(s) ==
    /\ \A t \in Sockets : Alive(t) /\ owner[t] = owner[s] => t = s
    /\ pc[s] # "replace"
    /\ pc[s] = "register" => turn = s /\ home[s] = room

SerialInv ==
    /\ \A s \in Sockets : Alive(s) => LoneInv(s)
    /\ CrashedInv

\* A step in which no endpoint comes to life or begins to register, and the
\* registry keeps its dictionary or nobody is about to register.
LEMMA SerialFrame ==
    ASSUME SerialInv,
           \A s \in Sockets : Alive(s)' => Alive(s) /\ pc'[s] # "replace",
           \A s \in Sockets : pc'[s] = "register" =>
               pc[s] = "register" /\ UNCHANGED <<turn, room, home>>,
           \A s \in Sockets : link[s] = "closed" => link'[s] = "closed",
           \A s \in Sockets : pc'[s] = "crashed" => pc[s] = "crashed" \/ link'[s] = "closed"
    PROVE  SerialInv'
<1>1. ASSUME NEW s \in Sockets, Alive(s)' PROVE LoneInv(s)'
  <2>1. LoneInv(s)
    BY <1>1 DEF SerialInv
  <2> QED
    BY <1>1, <2>1 DEF LoneInv
<1>2. CrashedInv'
  BY DEF SerialInv, CrashedInv
<1> QED
  BY <1>1, <1>2 DEF SerialInv

\* While somebody is about to register, nobody else runs.
LEMMA RegisterRunsOn ==
    ASSUME SerialInv, NEW s \in Sockets, pc[s] = "register"
    PROVE  turn = s /\ home[s] = room
BY DEF SerialInv, LoneInv, Alive, Ended

\* Every step keeps SerialInv.
LEMMA SerialNext ==
    ASSUME ManagerAssumption, Reconnect # "any", TypeOK, LoopInv, GoodbyeInv,
           SerialInv, [Next]_vars
    PROVE  SerialInv'
<1> USE DEF Alive, Ended, Run, Continue, Yield, At, CrashedInv
<1>a. pc \in [Actors -> Places] /\ link \in [Sockets -> {"none", "open", "gone", "closed"}]
      /\ Sockets \subseteq Actors /\ NoOne \notin Actors
      /\ home \in [Sockets -> Dicts \cup {NoDict}] /\ NoDict \notin Dicts
  BY DEF TypeOK, Actors, ManagerAssumption
<1>0. CASE UNCHANGED vars
  BY <1>0 DEF vars, SerialInv, LoneInv
<1>1. ASSUME NEW s \in Sockets, Open(s) PROVE SerialInv'
  <2>1. \A t \in Sockets \ {s} : owner[t] = owner[s] => ~Alive(t)
    BY <1>1 DEF Open, Admissible, Serial, ManagerAssumption
  <2>2. /\ pc' = [pc EXCEPT ![s] = "accept"] /\ UNCHANGED <<room, home, turn>>
        /\ link[s] = "none" /\ link' = [link EXCEPT ![s] = "open"]
    BY <1>1 DEF Open
  <2>3. ASSUME NEW t \in Sockets, Alive(t)' PROVE LoneInv(t)'
    BY <1>a, <2>1, <2>2, <2>3 DEF SerialInv, LoneInv
  <2> QED
    BY <1>a, <2>2, <2>3 DEF SerialInv
<1>2. ASSUME NEW s \in Sockets, Drop(s) PROVE SerialInv'
  BY <1>a, <1>2, SerialFrame DEF Drop, SerialInv, LoneInv
<1>3. ASSUME NEW s \in Sockets, Enter(s) PROVE SerialInv'
  <2>1. \A t \in Of(room, owner[s]) : link[t] = "closed"
    <3> SUFFICES ASSUME NEW t \in Sockets, t \in entries[room], owner[t] = owner[s]
                 PROVE  link[t] = "closed"
      BY DEF Of, TypeOK
    <3>1. pc[s] = "accept" /\ room \in Dicts
      <4>1. room # NoDict
        BY DEF GoodbyeInv
      <4> QED
        BY <1>3, <4>1 DEF Enter, TypeOK
    <3>2. pc[t] \notin Early /\ pc[t] # "over"
      BY <3>1 DEF GoodbyeInv
    <3>3. ~Alive(t)
      BY <3>1, <3>2 DEF SerialInv, LoneInv, Early
    <3> QED
      BY <3>2, <3>3 DEF SerialInv, Early
  <2>2. /\ pc[s] = "accept" /\ pc' = [pc EXCEPT ![s] = "register"] /\ turn' = s
        /\ turn \in {s, NoOne} /\ room' \in Dicts /\ home' = [home EXCEPT ![s] = room']
        /\ \A t \in Sockets : link'[t] = link[t]
    BY <1>3, <2>1 DEF Enter
  <2>3. \A t \in Sockets \ {s} : pc[t] # "register"
    BY <1>a, <2>2, RegisterRunsOn
  <2>4. ASSUME NEW t \in Sockets, Alive(t)' PROVE LoneInv(t)'
    BY <1>a, <2>2, <2>3, <2>4 DEF SerialInv, LoneInv
  <2> QED
    BY <1>a, <2>2, <2>4 DEF SerialInv
<1>4. ASSUME NEW s \in Sockets, Register(s) PROVE SerialInv'
  <2>1. pc' = [pc EXCEPT ![s] = "presence"] /\ pc[s] \in {"register", "replace"} /\ link' = link
    BY <1>4 DEF Register
  <2>2. turn \in {s, NoOne}
    BY <1>4 DEF Register
  <2>3. \A t \in Sockets \ {s} : pc[t] # "register"
    BY <1>a, <2>2, RegisterRunsOn
  <2> QED
    BY <1>a, <2>1, <2>3, SerialFrame DEF SerialInv, LoneInv
<1>5. ASSUME NEW a \in Actors, Begin(a) \/ Sent(a) PROVE SerialInv'
  <2>1. UNCHANGED <<room, pc, home, link>> /\ turn \in {a, NoOne} /\ pc[a] # "register"
        /\ turn' \in {a, NoOne}
    BY <1>5 DEF Begin, Sent, Phases, LoopInv
  <2>2. \A t \in Sockets : pc[t] # "register"
    BY <1>a, <2>1, RegisterRunsOn
  <2> QED
    BY <1>a, <2>1, <2>2, SerialFrame DEF SerialInv, LoneInv
<1>6. ASSUME NEW a \in Actors, NEW s \in Sockets, Visit(a, s) \/ SendFailed(a, s)
      PROVE  SerialInv'
  <2>1. loop[a].active \/ loop[a].at # {}
    BY <1>6 DEF Visit, SendFailed, Iterating
  <2>2. /\ UNCHANGED <<room, pc, home>> /\ turn \in {a, NoOne} /\ pc[a] # "register"
        /\ \A t \in Sockets : link[t] = "closed" => link'[t] = "closed"
    BY <1>a, <1>6, <2>1 DEF Visit, SendFailed, Phases, LoopInv
  <2>3. \A t \in Sockets : pc[t] # "register"
    BY <1>a, <2>2, RegisterRunsOn
  <2> QED
    BY <1>a, <2>2, <2>3, SerialFrame DEF SerialInv, LoneInv
<1>7. ASSUME NEW a \in Actors, Crash(a), pc[a] # "register" PROVE SerialInv'
  <2>1. /\ pc' = [pc EXCEPT ![a] = "crashed"] /\ turn \in {a, NoOne}
        /\ \A t \in Sockets : link'[t] = IF t = a THEN "closed" ELSE link[t]
    BY <1>7 DEF Crash
  <2>2. \A t \in Sockets : pc[t] # "register"
    BY <1>a, <1>7, <2>1, RegisterRunsOn
  <2> QED
    BY <1>a, <2>1, <2>2, SerialFrame DEF SerialInv, LoneInv
<1>8. ASSUME NEW a \in Actors, SizeChanged(a) PROVE SerialInv'
  <2>1. pc[a] # "register"
    BY <1>8 DEF SizeChanged, Iterating, LoopInv, Phases
  <2> QED
    BY <1>7, <1>8, <2>1 DEF SizeChanged
<1>9. ASSUME NEW a \in Actors, EndLoop(a) PROVE SerialInv'
  <2>1. pc[a] \in Phases
    BY <1>9 DEF EndLoop, Iterating, LoopInv
  <2>2. /\ UNCHANGED <<room, link, home>> /\ turn \in {a, NoOne}
        /\ pc' = [pc EXCEPT ![a] = After(pc[a])]
    BY <1>9 DEF EndLoop
  <2>3. After(pc[a]) \notin {"off", "replace", "register", "crashed"}
    BY <2>1 DEF After, Phases
  <2>4. \A t \in Sockets : pc[t] # "register"
    BY <1>a, <2>1, <2>2, RegisterRunsOn DEF Phases
  <2>5. pc[a] \notin {"off", "over", "crashed"}
    BY <2>1 DEF Phases
  <2> QED
    BY <1>a, <2>2, <2>3, <2>4, <2>5, SerialFrame DEF SerialInv, LoneInv
<1>10. ASSUME NEW s \in Sockets, NEW to, to \notin {"off", "replace", "register", "crashed"},
              pc[s] \notin {"off", "over", "crashed", "register"}, Run(s),
              pc' = [pc EXCEPT ![s] = to],
              \A t \in Sockets : link[t] = "closed" => link'[t] = "closed"
       PROVE  SerialInv'
  <2>1. \A t \in Sockets : pc[t] # "register"
    BY <1>a, <1>10, RegisterRunsOn
  <2> QED
    BY <1>a, <1>10, <2>1, SerialFrame DEF SerialInv, LoneInv
<1>11. ASSUME NEW s \in Sockets, Await(s) PROVE SerialInv'
  <2>1. CASE Crash(s)
    BY <1>a, <1>7, <1>11, <2>1 DEF Await
  <2>2. CASE ~Crash(s)
    BY <1>10, <1>11, <2>2 DEF Await
  <2> QED
    BY <2>1, <2>2
<1>12. ASSUME NEW s \in Sockets, NEW kind \in Kinds, Incoming(s, kind)
       PROVE  SerialInv'
  BY <1>10, <1>12 DEF Incoming
<1>13. ASSUME NEW s \in Sockets, Stored(s) PROVE SerialInv'
  <2>1. CASE Crash(s)
    BY <1>a, <1>7, <1>13, <2>1 DEF Stored
  <2>2. CASE ~Crash(s)
    BY <1>10, <1>13, <2>2 DEF Stored
  <2> QED
    BY <2>1, <2>2
<1>14. ASSUME NEW s \in Sockets, Reply(s) PROVE SerialInv'
  <2>1. CASE Crash(s)
    BY <1>a, <1>7, <1>14, <2>1 DEF Reply
  <2>2. CASE ~Crash(s)
    BY <1>10, <1>14, <2>2 DEF Reply
  <2> QED
    BY <2>1, <2>2
<1>15. ASSUME NEW s \in Sockets, Replied(s) PROVE SerialInv'
  <2>1. pc[s] = "replied" /\ Run(s) /\ \A t \in Sockets : link[t] = "closed" => link'[t] = "closed"
    BY <1>a, <1>15 DEF Replied, Leave
  <2>2. \E to \in {"loop", "goodbye", "left"} : pc' = [pc EXCEPT ![s] = to]
    BY <1>15 DEF Replied, Leave
  <2> QED
    BY <1>10, <2>1, <2>2
<1>16. ASSUME NEW s \in Sockets, Disconnected(s) PROVE SerialInv'
  <2>1. pc[s] = "receive" /\ Run(s) /\ link' = link
    BY <1>16 DEF Disconnected, Leave
  <2>2. \E to \in {"goodbye", "left"} : pc' = [pc EXCEPT ![s] = to]
    BY <1>16 DEF Disconnected, Leave
  <2> QED
    BY <1>10, <2>1, <2>2
<1>17. ASSUME NEW a \in Announcers, Announce(a) PROVE SerialInv'
  <2>1. /\ UNCHANGED <<room, link, home>> /\ turn \in {a, NoOne} /\ a \in Actors
        /\ a \notin Sockets /\ pc' = [pc EXCEPT ![a] = "announce"]
    BY <1>17 DEF Announce, ManagerAssumption, Actors
  <2>2. \A t \in Sockets : pc[t] # "register"
    BY <1>a, <2>1, RegisterRunsOn
  <2> QED
    BY <1>a, <2>1, <2>2, SerialFrame DEF SerialInv, LoneInv
<1> QED
  BY <1>0, <1>1, <1>2, <1>3, <1>4, <1>5, <1>6, <1>8, <1>9,
     <1>11, <1>12, <1>13, <1>14, <1>15, <1>16, <1>17 DEF Next, Endpoint,
     Broadcast, Frame

\* A step that leaves the registry and the places of all but one alone.
LEMMA KeepsEntries ==
    ASSUME TypeOK, UNCHANGED <<room, entries>>, NEW s \in Sockets,
           Served(s)' => Served(s)
    PROVE  ~LosesEntry(s)
BY DEF LosesEntry, Tracked

\* The end of a broadcast pops those it holds dead.
LEMMA CleanUpPops ==
    ASSUME TypeOK, LoopInv, NEW a \in Actors, EndLoop(a),
           NEW s \in Sockets, LosesEntry(s)
    PROVE  owner[s] \in loop[a].dead
<1>a. pc \in [Actors -> Places] /\ s \in Actors
      /\ entries \in [Dicts \cup {NoDict} -> SUBSET Sockets]
  BY DEF TypeOK, Actors
<1>1. pc[a] \in Phases
  BY DEF EndLoop, Iterating, LoopInv
<1>2. /\ room' = room /\ pc' = [pc EXCEPT ![a] = After(pc[a])]
      /\ entries' = [entries EXCEPT ![loop[a].room] = Without(loop[a].room, loop[a].dead)]
  BY DEF EndLoop, At
<1>3. Served(s)
  <2>1. CASE s = a
    <3>1. After(pc[a]) = "left" <=> pc[a] = "goodbye"
      BY <1>1 DEF After, Phases
    <3>2. After(pc[a]) = "over" <=> pc[a] \in {"left", "announce"}
      BY <1>1 DEF After, Phases
    <3> QED
      BY <1>a, <1>1, <1>2, <2>1, <3>1, <3>2 DEF LosesEntry, Served, Phases
  <2>2. CASE s # a
    BY <1>a, <1>2, <2>2 DEF LosesEntry, Served
  <2> QED
    BY <2>1, <2>2
<1>4. Tracked(s) /\ ~Tracked(s)'
  BY <1>3 DEF LosesEntry
<1> QED
  BY <1>a, <1>2, <1>4 DEF Tracked, Without

\* disconnect removes the entries of its own user, and the dictionary only if it
\* holds nobody else's.
LEMMA LeaveKeepsOthers ==
    ASSUME TypeOK, GoodbyeInv, SerialInv, NEW t \in Sockets, Alive(t), Leave(t),
           NEW s \in Sockets
    PROVE  ~LosesEntry(s)
<1> SUFFICES ASSUME Served(s)', Tracked(s) \/ ~Served(s) PROVE Tracked(s)'
  BY DEF LosesEntry
<1>1. /\ entries' = [entries EXCEPT ![room] = Without(room, {owner[t]})]
      /\ room' = IF Without(room, {owner[t]}) = {} THEN NoDict ELSE room
      /\ \E to \in {"goodbye", "left"} : pc' = [pc EXCEPT ![t] = to]
  BY DEF Leave, At
<1>2. s # t /\ pc'[s] = pc[s]
  BY <1>1 DEF Served, TypeOK, Actors
<1>3. Served(s) /\ Tracked(s)
  BY <1>2 DEF Served
<1>4. owner[s] # owner[t]
  BY <1>2, <1>3 DEF Served, Alive, Ended, SerialInv, LoneInv
<1>5. s \in Without(room, {owner[t]})
  BY <1>3, <1>4 DEF Without, Tracked
<1> QED
  BY <1>1, <1>5 DEF Tracked, TypeOK

\* No other step takes a served endpoint out of the registry.
LEMMA LosesNext ==
    ASSUME ManagerAssumption, Reconnect # "any", TypeOK, LoopInv, GoodbyeInv,
           SerialInv, [Next]_vars, NEW r \in Sockets, LosesEntry(r)
    PROVE  CleanedUp(owner[r])
<1>a. /\ pc \in [Actors -> Places] /\ Sockets \subseteq Actors
      /\ room \in Dicts \cup {NoDict} /\ entries \in [Dicts \cup {NoDict} -> SUBSET Sockets]
  BY DEF TypeOK, Actors
<1> USE DEF At
<1>0. CASE UNCHANGED vars
  BY <1>0, KeepsEntries DEF vars, Served
<1>1. ASSUME NEW s \in Sockets, Open(s) PROVE FALSE
  BY <1>a, <1>1, KeepsEntries DEF Open, Served
<1>2. ASSUME NEW s \in Sockets, Drop(s) PROVE FALSE
  BY <1>2, KeepsEntries DEF Drop, Served
<1>3. ASSUME NEW s \in Sockets, Enter(s) PROVE FALSE
  <2>1. pc' = [pc EXCEPT ![s] = "register"] \/ pc' = [pc EXCEPT ![s] = "replace"]
    BY <1>3 DEF Enter
  <2>2. Served(r)' => Served(r)
    BY <1>a, <2>1 DEF Served
  <2>3. Tracked(r) => Tracked(r)'
    BY <1>3 DEF Enter, Tracked, GoodbyeInv
  <2> QED
    BY <2>2, <2>3 DEF LosesEntry
<1>4. ASSUME NEW s \in Sockets, Register(s) PROVE FALSE
  <2>1. pc[s] \in {"register", "replace"} /\ pc' = [pc EXCEPT ![s] = "presence"]
    BY <1>4 DEF Register
  <2>2. Alive(s) /\ pc[s] = "register" /\ home[s] = room
    BY <2>1 DEF SerialInv, LoneInv, Alive, Ended
  <2>3. /\ room' = room
        /\ entries' = [entries EXCEPT ![room] = Without(room, {owner[s]}) \cup {s}]
    BY <1>4, <2>2 DEF Register
  <2>4. r # s
    BY <1>a, <2>3 DEF LosesEntry, Tracked
  <2>5. Served(r) /\ Tracked(r)
    BY <1>a, <2>1, <2>4 DEF LosesEntry, Served
  <2>6. owner[r] # owner[s]
    BY <2>2, <2>4, <2>5 DEF Served, Alive, Ended, SerialInv, LoneInv
  <2>7. Tracked(r)'
    BY <1>a, <2>3, <2>5, <2>6 DEF Tracked, Without
  <2> QED
    BY <2>7 DEF LosesEntry
<1>5. ASSUME NEW a \in Actors, Begin(a) \/ Sent(a) PROVE FALSE
  BY <1>5, KeepsEntries DEF Begin, Sent, Served
<1>6. ASSUME NEW a \in Actors, NEW s \in Sockets, Visit(a, s) \/ SendFailed(a, s)
      PROVE  FALSE
  BY <1>6, KeepsEntries DEF Visit, SendFailed, Served
<1>7. ASSUME NEW a \in Actors, Crash(a) PROVE FALSE
  BY <1>a, <1>7, KeepsEntries DEF Crash, Served
<1>8. ASSUME NEW a \in Actors, SizeChanged(a) PROVE FALSE
  BY <1>7, <1>8 DEF SizeChanged
<1>9. ASSUME NEW a \in Actors, EndLoop(a) PROVE CleanedUp(owner[r])
  BY <1>9, CleanUpPops DEF CleanedUp
<1>10. ASSUME NEW s \in Sockets, Await(s) PROVE FALSE
  <2>1. CASE Crash(s)
    BY <1>a, <1>7, <2>1
  <2>2. CASE ~Crash(s)
    BY <1>a, <1>10, <2>2, KeepsEntries DEF Await, Served
  <2> QED
    BY <2>1, <2>2
<1>11. ASSUME NEW s \in Sockets, NEW kind \in Kinds, Incoming(s, kind)
       PROVE  FALSE
  BY <1>a, <1>11, KeepsEntries DEF Incoming, Served
<1>12. ASSUME NEW s \in Sockets, Stored(s) PROVE FALSE
  <2>1. CASE Crash(s)
    BY <1>a, <1>7, <2>1
  <2>2. CASE ~Crash(s)
    BY <1>a, <1>12, <2>2, KeepsEntries DEF Stored, Served
  <2> QED
    BY <2>1, <2>2
<1>13. ASSUME NEW s \in Sockets, Reply(s) PROVE FALSE
  <2>1. CASE Crash(s)
    BY <1>a, <1>7, <2>1
  <2>2. CASE ~Crash(s)
    BY <1>a, <1>13, <2>2, KeepsEntries DEF Reply, Served
  <2> QED
    BY <2>1, <2>2
<1>14. ASSUME NEW s \in Sockets, Replied(s) PROVE FALSE
  <2>1. CASE Leave(s)
    BY <1>14, <2>1, LeaveKeepsOthers DEF Replied, Alive, Ended
  <2>2. CASE ~Leave(s)
    BY <1>a, <1>14, <2>2, KeepsEntries DEF Replied, Served
  <2> QED
    BY <2>1, <2>2
<1>15. ASSUME NEW s \in Sockets, Disconnected(s) PROVE FALSE
  BY <1>15, LeaveKeepsOthers DEF Disconnected, Alive, Ended
<1>16. ASSUME NEW a \in Announcers, Announce(a) PROVE FALSE
  <2>1. a \notin Sockets /\ a \in Actors
    BY DEF ManagerAssumption, Actors
  <2> QED
    BY <1>a, <1>16, <2>1, KeepsEntries DEF Announce, Served
<1> QED
  BY <1>0, <1>1, <1>2, <1>3, <1>4, <1>5, <1>6, <1>8, <1>9, <1>10,
     <1>11, <1>12, <1>13, <1>14, <1>15, <1>16 DEF Next, Endpoint,
     Broadcast, Frame

-----------------------------------------------------------------------------
(* Clients that open sockets whenever they like *)

\* connect registers a socket at once if it has none to replace; broadcast holds
\* a user dead after one of the user's sockets was closed.
OwnInv ==
    /\ \A s \in Sockets : pc[s] = "register" => turn = s /\ home[s] = room
    /\ \A a \in Actors : \A u \in loop[a].dead :
          \E t \in Sockets : owner[t] = u /\ link[t] = "closed"

\* A step of a coroutine that neither registers nor is about to.
LEMMA OwnFrame ==
    ASSUME ManagerAssumption, TypeOK, OwnInv,
           NEW a \in Actors, Run(a), pc[a] # "register",
           NEW to, to # "register", pc' = [pc EXCEPT ![a] = to] \/ pc' = pc,
           \A s \in Sockets : link[s] = "closed" => link'[s] = "closed",
           \A b \in Actors : \A u \in loop'[b].dead :
              \/ u \in loop[b].dead
              \/ \E t \in Sockets : owner[t] = u /\ link'[t] = "closed"
    PROVE  OwnInv'
<1>1. \A s \in Sockets : pc[s] # "register"
  BY DEF OwnInv, Run, ManagerAssumption, Actors
<1>2. \A s \in Sockets : pc'[s] # "register"
  BY <1>1 DEF TypeOK, Actors
<1>3. ASSUME NEW b \in Actors, NEW u \in loop'[b].dead
      PROVE  \E t \in Sockets : owner[t] = u /\ link'[t] = "closed"
  BY <1>3 DEF OwnInv
<1> QED
  BY <1>2, <1>3 DEF OwnInv

\* Every step keeps OwnInv.
LEMMA OwnNext ==
    ASSUME ManagerAssumption, TypeOK, LoopInv, GoodbyeInv, OwnInv, [Next]_vars
    PROVE  OwnInv'
<1> USE DEF Continue, Yield, At
<1>a. /\ pc \in [Actors -> Places] /\ link \in [Sockets -> {"none", "open", "gone", "closed"}]
      /\ Sockets \subseteq Actors /\ NoOne \notin Actors /\ loop \in [Actors -> Locals]
      /\ home \in [Sockets -> Dicts \cup {NoDict}]
  BY DEF TypeOK, Actors, ManagerAssumption
<1>0. CASE UNCHANGED vars
  BY <1>0 DEF vars, OwnInv
<1>1. ASSUME NEW s \in Sockets, Open(s) PROVE OwnInv'
  BY <1>a, <1>1 DEF Open, OwnInv
<1>2. ASSUME NEW s \in Sockets, Drop(s) PROVE OwnInv'
  BY <1>a, <1>2 DEF Drop, OwnInv
<1>3. ASSUME NEW s \in Sockets, Enter(s) PROVE OwnInv'
  <2>1. pc[s] = "accept" /\ Run(s) /\ loop' = loop
    BY <1>3 DEF Enter
  <2>2. \A t \in Sockets : pc[t] # "register"
    BY <1>a, <2>1 DEF OwnInv, Run
  <2>3. \A t \in Sockets : link[t] = "closed" => link'[t] = "closed"
    BY <1>3 DEF Enter
  <2>4. \A t \in Sockets : pc'[t] = "register" => turn' = t /\ home'[t] = room'
    BY <1>a, <1>3, <2>2 DEF Enter
  <2> QED
    BY <2>1, <2>3, <2>4 DEF OwnInv
<1>4. ASSUME NEW s \in Sockets, Register(s) PROVE OwnInv'
  <2>1. /\ pc' = [pc EXCEPT ![s] = "presence"] /\ UNCHANGED <<room, link, loop>>
        /\ Run(s)
    BY <1>4 DEF Register
  <2>2. \A t \in Sockets \ {s} : pc[t] # "register"
    BY <1>a, <2>1 DEF OwnInv, Run
  <2> QED
    BY <1>a, <2>1, <2>2 DEF OwnInv
<1>5. ASSUME NEW a \in Actors, Begin(a) \/ Sent(a) PROVE OwnInv'
  <2>1. UNCHANGED <<pc, link>> /\ Run(a) /\ pc[a] # "register"
    BY <1>5 DEF Begin, Sent, Phases, LoopInv
  <2>2. \A b \in Actors : loop'[b].dead \subseteq loop[b].dead
    <3>1. loop'[a].dead \subseteq loop[a].dead /\ \A b \in Actors \ {a} : loop'[b] = loop[b]
      <4>1. loop[a] \in Locals
        BY <1>a
      <4>2. CASE Begin(a)
        BY <1>a, <4>1, <4>2 DEF Begin, NoLoop, Locals
      <4>3. CASE Sent(a)
        BY <1>a, <4>1, <4>3 DEF Sent, Locals
      <4> QED
        BY <1>5, <4>2, <4>3
    <3> QED
      BY <3>1
  <2> QED
    BY <2>1, <2>2, OwnFrame
<1>6. ASSUME NEW a \in Actors, NEW s \in Sockets, Visit(a, s) PROVE OwnInv'
  <2>1. UNCHANGED <<pc, link>> /\ Run(a) /\ pc[a] # "register"
    BY <1>6 DEF Visit, Iterating, Phases, LoopInv
  <2>2. \A b \in Actors : \A u \in loop'[b].dead :
           u \in loop[b].dead \/ (u = owner[s] /\ link[s] = "closed")
    <3>1. loop[a] \in Locals
      BY <1>a
    <3>2. \/ loop'[a].dead = loop[a].dead
          \/ loop'[a].dead = loop[a].dead \cup {owner[s]} /\ link[s] = "closed"
      BY <1>a, <1>6, <3>1 DEF Visit, Locals
    <3>3. \A b \in Actors \ {a} : loop'[b] = loop[b]
      BY <1>a, <1>6 DEF Visit
    <3> QED
      BY <3>2, <3>3
  <2> QED
    BY <2>1, <2>2, OwnFrame
<1>7. ASSUME NEW a \in Actors, NEW s \in Sockets, SendFailed(a, s) PROVE OwnInv'
  <2>1. /\ pc' = pc /\ Run(a) /\ pc[a] # "register"
        /\ link' = [link EXCEPT ![s] = "closed"]
    BY <1>7 DEF SendFailed, Phases, LoopInv
  <2>2. \A b \in Actors : \A u \in loop'[b].dead :
           u \in loop[b].dead \/ (u = owner[s] /\ link'[s] = "closed")
    BY <1>a, <1>7, <2>1 DEF SendFailed, Locals
  <2>3. \A t \in Sockets : link[t] = "closed" => link'[t] = "closed"
    BY <1>a, <2>1
  <2> QED
    BY <2>1, <2>2, <2>3, OwnFrame
<1>8. ASSUME NEW a \in Actors, Crash(a), pc[a] # "register" PROVE OwnInv'
  <2>1. /\ pc' = [pc EXCEPT ![a] = "crashed"] /\ Run(a)
        /\ \A t \in Sockets : link[t] = "closed" => link'[t] = "closed"
    BY <1>8 DEF Crash
  <2>2. \A b \in Actors : loop'[b].dead \subseteq loop[b].dead
    BY <1>a, <1>8 DEF Crash, NoLoop
  <2> QED
    BY <1>8, <2>1, <2>2, OwnFrame
<1>9. ASSUME NEW a \in Actors, SizeChanged(a) PROVE OwnInv'
  <2>1. pc[a] # "register"
    BY <1>9 DEF SizeChanged, Iterating, LoopInv, Phases
  <2> QED
    BY <1>8, <1>9, <2>1 DEF SizeChanged
<1>10. ASSUME NEW a \in Actors, EndLoop(a) PROVE OwnInv'
  <2>1. pc[a] \in Phases
    BY <1>10 DEF EndLoop, Iterating, LoopInv
  <2>2. /\ UNCHANGED link /\ Run(a) /\ pc' = [pc EXCEPT ![a] = After(pc[a])]
    BY <1>10 DEF EndLoop
  <2>3. After(pc[a]) # "register" /\ pc[a] # "register"
    BY <2>1 DEF After, Phases
  <2>4. \A b \in Actors : loop'[b].dead \subseteq loop[b].dead
    BY <1>a, <1>10, PurgedKeeps DEF EndLoop, NoLoop
  <2> QED
    BY <2>2, <2>3, <2>4, OwnFrame
<1>11. ASSUME NEW s \in Sockets, Leave(s), pc[s] # "register",
              \A t \in Sockets : link[t] = "closed" => link'[t] = "closed"
       PROVE  OwnInv'
  <2>1. Run(s) /\ \E to \in {"goodbye", "left"} : pc' = [pc EXCEPT ![s] = to]
    BY <1>11 DEF Leave
  <2>2. \A b \in Actors : loop'[b].dead \subseteq loop[b].dead
    BY <1>11, PurgedKeeps DEF Leave
  <2> QED
    BY <1>a, <1>11, <2>1, <2>2, OwnFrame
<1>12. ASSUME NEW s \in Sockets, Await(s) \/ Stored(s) \/ Reply(s) \/ Replied(s) \/ Frame(s)
       PROVE  OwnInv'
  <2>1. CASE Crash(s)
    <3>1. pc[s] # "register"
      BY <1>12 DEF Await, Stored, Reply, Replied, Frame, Incoming
    <3> QED
      BY <1>a, <1>8, <2>1, <3>1
  <2>2. CASE Leave(s) /\ Replied(s)
    <3>1. \A t \in Sockets : link[t] = "closed" => link'[t] = "closed"
      BY <1>a, <2>2 DEF Replied
    <3> QED
      BY <1>11, <2>2, <3>1 DEF Replied
  <2>3. CASE ~Crash(s) /\ ~(Leave(s) /\ Replied(s))
    <3>1. /\ pc[s] # "register" /\ Run(s) /\ UNCHANGED <<link, loop>>
          /\ \E to \in Places \ {"register"} : pc' = [pc EXCEPT ![s] = to]
      BY <1>12, <2>3
         DEF Await, Stored, Reply, Replied, Frame, Incoming, Places, Phases
    <3> QED
      BY <1>a, <3>1, OwnFrame
  <2> QED
    BY <2>1, <2>2, <2>3
<1>13. ASSUME NEW s \in Sockets, Disconnected(s) PROVE OwnInv'
  BY <1>11, <1>13 DEF Disconnected
<1>14. ASSUME NEW a \in Announcers, Announce(a) PROVE OwnInv'
  <2>1. /\ a \in Actors /\ Run(a) /\ pc[a] # "register" /\ UNCHANGED <<link, loop>>
        /\ pc' = [pc EXCEPT ![a] = "announce"]
    BY <1>14 DEF Announce, Actors
  <2> QED
    BY <2>1, OwnFrame
<1> QED
  BY <1>0, <1>1, <1>2, <1>3, <1>4, <1>5, <1>6, <1>7, <1>9, <1>10,
     <1>12, <1>13, <1>14 DEF Next, Endpoint, Broadcast

\* Every step that takes a served endpoint out of the registry is excused.
Excused(s) ==
    \/ TakenOver(s)
    \/ Orphaned(s)
    \/ /\ CleanedUp(owner[s])
       /\ \E t \in Sockets : owner[t] = owner[s] /\ link[t] = "closed"

\* disconnect takes nobody's entry but its own user's.
LEMMA LeaveIsOwn ==
    ASSUME TypeOK, GoodbyeInv, NEW t \in Sockets, pc[t] \notin {"goodbye", "left"},
           Leave(t), NEW s \in Sockets, LosesEntry(s)
    PROVE  TakenOver(s)
<1>1. /\ entries' = [entries EXCEPT ![room] = Without(room, {owner[t]})]
      /\ room' = IF Without(room, {owner[t]}) = {} THEN NoDict ELSE room
      /\ \E to \in {"goodbye", "left"} : pc' = [pc EXCEPT ![t] = to]
  BY DEF Leave, At
<1>2. s # t /\ pc'[s] = pc[s] /\ pc'[t] # pc[t]
  BY <1>1 DEF LosesEntry, Served, TypeOK, Actors
<1>3. Tracked(s)
  BY <1>2 DEF LosesEntry, Served
<1>4. ASSUME owner[s] # owner[t] PROVE FALSE
  <2>1. s \in Without(room, {owner[t]})
    BY <1>3, <1>4 DEF Without, Tracked
  <2> QED
    BY <1>1, <2>1 DEF LosesEntry, Tracked, TypeOK
<1> QED
  BY <1>2, <1>4 DEF TakenOver

\* No other step does it.
LEMMA OwnLoses ==
    ASSUME ManagerAssumption, TypeOK, LoopInv, GoodbyeInv, OwnInv,
           [Next]_vars, NEW r \in Sockets, LosesEntry(r)
    PROVE  Excused(r)
<1>a. /\ pc \in [Actors -> Places] /\ Sockets \subseteq Actors
      /\ room \in Dicts \cup {NoDict} /\ entries \in [Dicts \cup {NoDict} -> SUBSET Sockets]
  BY DEF TypeOK, Actors
<1> USE DEF At
<1>0. CASE UNCHANGED vars
  BY <1>0, KeepsEntries DEF vars, Served
<1>1. ASSUME NEW s \in Sockets, Open(s) \/ Drop(s) PROVE FALSE
  BY <1>a, <1>1, KeepsEntries DEF Open, Drop, Served
<1>3. ASSUME NEW s \in Sockets, Enter(s) PROVE FALSE
  <2>1. pc' = [pc EXCEPT ![s] = "register"] \/ pc' = [pc EXCEPT ![s] = "replace"]
    BY <1>3 DEF Enter
  <2>2. Served(r)' => Served(r)
    BY <1>a, <2>1 DEF Served
  <2>3. Tracked(r) => Tracked(r)'
    BY <1>3 DEF Enter, Tracked, GoodbyeInv
  <2> QED
    BY <2>2, <2>3 DEF LosesEntry
<1>4. ASSUME NEW s \in Sockets, Register(s) PROVE Excused(r)
  <2>1. /\ pc[s] \in {"register", "replace"} /\ pc' = [pc EXCEPT ![s] = "presence"]
        /\ room' = room
        /\ entries' = [entries EXCEPT ![home[s]] = Without(home[s], {owner[s]}) \cup {s}]
    BY <1>4 DEF Register
  <2>2. CASE r = s
    <3>1. home[s] # room
      BY <1>a, <2>1, <2>2 DEF LosesEntry, Tracked
    <3>2. Orphaned(r)
      BY <2>1, <2>2, <3>1 DEF OwnInv, Orphaned
    <3> QED
      BY <3>2 DEF Excused
  <2>3. CASE r # s
    <3>1. Tracked(r)
      BY <1>a, <2>1, <2>3 DEF LosesEntry, Served
    <3>2. owner[r] = owner[s]
      BY <1>a, <2>1, <3>1 DEF LosesEntry, Tracked, Without
    <3>3. pc'[s] # pc[s]
      BY <1>a, <2>1
    <3> QED
      BY <2>3, <3>2, <3>3 DEF Excused, TakenOver
  <2> QED
    BY <2>2, <2>3
<1>5. ASSUME NEW a \in Actors, Begin(a) \/ Sent(a) PROVE FALSE
  BY <1>5, KeepsEntries DEF Begin, Sent, Served
<1>6. ASSUME NEW a \in Actors, NEW s \in Sockets, Visit(a, s) \/ SendFailed(a, s)
      PROVE  FALSE
  BY <1>6, KeepsEntries DEF Visit, SendFailed, Served
<1>7. ASSUME NEW a \in Actors, Crash(a) PROVE FALSE
  BY <1>a, <1>7, KeepsEntries DEF Crash, Served
<1>8. ASSUME NEW a \in Actors, SizeChanged(a) PROVE FALSE
  BY <1>7, <1>8 DEF SizeChanged
<1>9. ASSUME NEW a \in Actors, EndLoop(a) PROVE Excused(r)
  <2>1. owner[r] \in loop[a].dead
    BY <1>9, CleanUpPops
  <2>2. \E t \in Sockets : owner[t] = owner[r] /\ link[t] = "closed"
    BY <2>1 DEF OwnInv
  <2> QED
    BY <1>9, <2>1, <2>2 DEF Excused, CleanedUp
<1>10. ASSUME NEW s \in Sockets, Await(s) \/ Stored(s) \/ Reply(s) \/ Frame(s) PROVE FALSE
  <2>1. CASE Crash(s)
    BY <1>a, <1>7, <2>1
  <2>2. CASE ~Crash(s)
    BY <1>a, <1>10, <2>2, KeepsEntries DEF Await, Stored, Reply, Frame, Incoming, Served
  <2> QED
    BY <2>1, <2>2
<1>11. ASSUME NEW s \in Sockets, Replied(s) PROVE Excused(r)
  <2>1. CASE Leave(s)
    BY <1>11, <2>1, LeaveIsOwn DEF Replied, Excused
  <2>2. CASE ~Leave(s)
    BY <1>a, <1>11, <2>2, KeepsEntries DEF Replied, Served
  <2> QED
    BY <2>1, <2>2
<1>12. ASSUME NEW s \in Sockets, Disconnected(s) PROVE Excused(r)
  BY <1>12, LeaveIsOwn DEF Disconnected, Excused
<1>13. ASSUME NEW a \in Announcers, Announce(a) PROVE FALSE
  <2>1. a \notin Sockets /\ a \in Actors
    BY DEF ManagerAssumption, Actors
  <2> QED
    BY <1>a, <1>13, <2>1, KeepsEntries DEF Announce, Served
<1> QED
  BY <1>0, <1>1, <1>3, <1>4, <1>5, <1>6, <1>8, <1>9, <1>10,
     <1>11, <1>12, <1>13 DEF Next, Endpoint, Broadcast

-----------------------------------------------------------------------------
(* The theorems *)

IInv == TypeOK /\ LoopInv /\ GoodbyeInv

LEMMA InvariantNext == IInv /\ [Next]_vars => IInv'
  BY ManagerAssumption, LoopNext, TypeNext, GoodbyeNext DEF IInv

THEOREM Invariance == Spec => []IInv
<1>1. Init => IInv
  BY TypeInit, GoodbyeInit DEF IInv
<1> QED
  BY <1>1, InvariantNext, PTL DEF Spec

\* The types of the registry and of the coroutines' locals.
THEOREM TypeCorrect == Spec => []TypeOK
<1>1. IInv => TypeOK
  BY DEF IInv
<1> QED
  BY <1>1, Invariance, PTL

\* Whatever overlaps with whatever, an endpoint that ended after its goodbye
\* is not in the registry (manager.py, disconnect_and_notify), and one that died
\* is there with a closed socket at most (main.py, websocket_endpoint).
THEOREM GoodbyesAreFinal == Spec => []StaleIsClosed
<1>1. Init => CrashedInv
  BY DEF Init, CrashedInv, Actors
<1>2. IInv /\ CrashedInv /\ [Next]_vars => CrashedInv'
  BY ManagerAssumption, CrashedNext DEF IInv
<1>3. IInv /\ CrashedInv => StaleIsClosed
  BY DEF IInv, GoodbyeInv, CrashedInv, StaleIsClosed, Tracked, Ended
<1> QED
  BY <1>1, <1>2, <1>3, Invariance, PTL DEF Spec

\* If clients wait for the end of their last session, then whatever endpoints come
\* and end, it is only the clean-up of a broadcast that takes a
\* served endpoint out of the registry (manager.py, connect and disconnect).
THEOREM ServedStayTracked ==
    ASSUME Reconnect # "any"
    PROVE  Spec => OnlyCleanUpForgets
<1>1. Init => SerialInv
  BY DEF Init, SerialInv, CrashedInv, Alive, Actors
<1>2. IInv /\ SerialInv /\ [Next]_vars => SerialInv'
  BY ManagerAssumption, SerialNext DEF IInv
<1>3. IInv /\ SerialInv /\ [Next]_vars =>
         [\A s \in Sockets : LosesEntry(s) => CleanedUp(owner[s])]_vars
  BY ManagerAssumption, LosesNext DEF IInv
<1> QED
  BY <1>1, <1>2, <1>3, Invariance, PTL DEF Spec, OnlyCleanUpForgets

\* However the sockets of a user overlap, no other user's coming, going or lost
\* transport takes a served endpoint out of the registry (manager.py, connect,
\* disconnect and broadcast).
THEOREM OthersNeverForget == Spec => OnlyOwnSocketsForget
<1>1. Init => OwnInv
  BY DEF Init, OwnInv, NoLoop, Actors
<1>2. IInv /\ OwnInv /\ [Next]_vars => OwnInv'
  BY ManagerAssumption, OwnNext DEF IInv
<1>3. IInv /\ OwnInv /\ [Next]_vars =>
         [\A s \in Sockets : LosesEntry(s) =>
             \/ TakenOver(s)
             \/ Orphaned(s)
             \/ /\ CleanedUp(owner[s])
                /\ \E t \in Sockets : owner[t] = owner[s] /\ link[t] = "closed"]_vars
  BY ManagerAssumption, OwnLoses DEF IInv, Excused
<1> QED
  BY <1>1, <1>2, <1>3, Invariance, PTL DEF Spec, OnlyOwnSocketsForget
=============================================================================
