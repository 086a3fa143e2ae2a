-------------------------- MODULE RoomSessionProofs --------------------------
(* Theorems about RoomSession and the connections it makes, for any peers,   *)
(* runs of the mounting effect, overlapping rotations, retries and bounds.   *)
EXTENDS RoomSession, TLAPS

-----------------------------------------------------------------------------
(* Type correctness *)

\* The initial states have the types.
LEMMA TypeInit == Init => TypeOK
<1> SUFFICES ASSUME Init PROVE TypeOK
  OBVIOUS
<1> USE ConnectionAssumption, SessionAssumption
<1>1. ConnTypeOK
  BY DEF Init, ConnInit, ConnTypeOK
<1>2. /\ listed \in [Members -> Entry] /\ inbox \in [Mounts -> Seq(Nat)]
      /\ peers \in [Peers -> Entry] /\ trust \in [Peers -> Nat]
      /\ pc \in [Tasks -> Places]
  BY DEF Init, Nobody, NoEntry, Entry, Places, Setting
<1>3. /\ at \in [Tasks -> Nat] /\ bundle \in [Tasks -> Nat]
      /\ list \in [Tasks -> [Peers -> Entry]]
  BY DEF Init, Nobody, NoEntry, Entry
<1>4. /\ stored \in [key : Nat, epoch : Nat] /\ minted \in Nat
      /\ registered \subseteq Nat \X Nat
  BY DEF Init, NoPair
<1> QED
  BY <1>1, <1>2, <1>3, <1>4 DEF Init, TypeOK

\* What the session does to a connection keeps the types of all.
LEMMA ConnTypeNext ==
    ASSUME ConnTypeOK, NEW c \in Conns,
           Connect(c) \/ Opened(c) \/ Lost(c) \/ Due(c) \/ Close(c) \/ UNCHANGED connVars
    PROVE  ConnTypeOK'
<1> USE ConnectionAssumption DEF ConnTypeOK
<1>1. CASE Connect(c)
  BY <1>1 DEF Connect
<1>2. CASE Opened(c)
  BY <1>2 DEF Opened
<1>3. CASE Lost(c)
  BY <1>3 DEF Lost, Alive
<1>4. CASE Due(c)
  BY <1>4 DEF Due
<1>5. CASE Close(c)
  BY <1>5 DEF Close, Alive
<1>6. CASE UNCHANGED connVars
  BY <1>6 DEF connVars
<1> QED
  BY <1>1, <1>2, <1>3, <1>4, <1>5, <1>6

\* Every step of the session is a step of one connection, or of none.
LEMMA ConnStep ==
    ASSUME TypeOK, [Next]_vars
    PROVE  \/ UNCHANGED connVars
           \/ \E c \in Conns : Connect(c) \/ Opened(c) \/ Lost(c) \/ Due(c) \/ Close(c)
<1> USE SessionAssumption DEF TypeOK
<1> DEFINE Goal == \/ UNCHANGED connVars
                    \/ \E c \in Conns : Connect(c) \/ Opened(c) \/ Lost(c) \/ Due(c) \/ Close(c)
<1>0. CASE UNCHANGED vars
  BY <1>0 DEF vars
<1>1. ASSUME Rotate PROVE Goal
  BY <1>1 DEF Rotate
<1>2. ASSUME Withdraw PROVE Goal
  BY <1>2 DEF Withdraw
<1>3. ASSUME NEW p \in Peers, Publish(p) PROVE Goal
  BY <1>3 DEF Publish
<1>4. ASSUME NEW p \in Peers, TrustPeer(p) PROVE Goal
  BY <1>4 DEF TrustPeer
<1>5. ASSUME NEW p \in Peers, UntrustPeer(p) PROVE Goal
  BY <1>5 DEF UntrustPeer
<1>6. ASSUME NEW m \in Mounts, NEW e \in 1..serverEpoch, Announce(m, e) PROVE Goal
  BY <1>6 DEF Announce
<1>7. ASSUME NEW m \in Mounts, NEW e \in 1..serverEpoch, Rerun(m, e) PROVE Goal
  BY <1>7 DEF Rerun, CleanUp, Current
<1>8. ASSUME NEW m \in Mounts, ReadRoom(m) PROVE Goal
  BY <1>8 DEF ReadRoom
<1>9. ASSUME NEW m \in Mounts, Stop(m) PROVE Goal
  BY <1>9 DEF Stop
<1>10. ASSUME NEW m \in Mounts, LoadHistory(m) PROVE Goal
  BY <1>10 DEF LoadHistory
<1>11. ASSUME NEW m \in Mounts, Ignore(m) PROVE Goal
  BY <1>11 DEF Ignore
<1>12. ASSUME NEW m \in Mounts, SocketEvent(m) PROVE Goal
  BY <1>12 DEF SocketEvent
<1>13. ASSUME NEW m \in Mounts, NEW h \in Rotations, RotateKeys(m, h) PROVE Goal
  BY <1>13 DEF RotateKeys
<1>14. ASSUME Unmount PROVE Goal
  BY <1>14 DEF Unmount, CleanUp
<1>15. ASSUME LeaveRoom PROVE Goal
  BY <1>15 DEF LeaveRoom, CleanUp
<1>16. ASSUME NEW t \in Mounts \cup Rotations, Imported(t) PROVE Goal
  BY <1>16 DEF Imported
<1>17. ASSUME NEW t \in Mounts \cup Rotations, Made(t) PROVE Goal
  BY <1>17 DEF Made
<1>18. ASSUME NEW t \in Mounts \cup Rotations, Register(t) PROVE Goal
  BY <1>18 DEF Register
<1>19. ASSUME NEW t \in Tasks, Fetch(t) PROVE Goal
  BY <1>19 DEF Fetch
<1>20. ASSUME NEW t \in Tasks, Apply(t) PROVE Goal
  BY <1>20 DEF Apply
<1>21. ASSUME NEW t \in Tasks, Fail(t) PROVE Goal
  BY <1>21 DEF Fail
<1>22. ASSUME NEW l \in Loads, LoadPeers(l) PROVE Goal
  BY <1>22 DEF LoadPeers
<1>23. ASSUME SendMessage PROVE Goal
  BY <1>23 DEF SendMessage
<1>24. ASSUME SendLoaded PROVE Goal
  BY <1>24 DEF SendLoaded
<1>25. ASSUME Encrypted PROVE Goal
  BY <1>25 DEF Encrypted
<1>26. ASSUME NEW t \in Mounts \cup Rotations, NotImported(t) PROVE Goal
  BY <1>26 DEF NotImported
<1> QED
  BY <1>0, <1>1, <1>2, <1>3, <1>4, <1>5, <1>6, <1>7, <1>8, <1>9, <1>10, <1>11,
       <1>12, <1>13, <1>14, <1>15, <1>16, <1>17, <1>18, <1>19, <1>20, <1>21, <1>22,
       <1>23, <1>24, <1>25, <1>26 DEF Next, Setup

\* The first of a queue that is not empty.
LEMMA HeadOf ==
    ASSUME NEW s \in Seq(Nat), s # <<>>
    PROVE  Head(s) \in Nat
OBVIOUS

\* BeginSetup changes four variables within their types.
LEMMA SetupTypes ==
    ASSUME TypeOK, NEW t \in Tasks, NEW e \in Nat, NEW pair \in [key : Nat, epoch : Nat],
           BeginSetup(t, e, pair)
    PROVE  /\ pc' \in [Tasks -> Places] /\ at' \in [Tasks -> Nat]
           /\ bundle' \in [Tasks -> Nat] /\ stored' \in [key : Nat, epoch : Nat]
<1> USE DEF TypeOK, BeginSetup, Places, Setting, NoPair
<1>1. pc' \in [Tasks -> Places]
  OBVIOUS
<1>2. at' \in [Tasks -> Nat]
  OBVIOUS
<1>3. bundle' \in [Tasks -> Nat]
  OBVIOUS
<1>4. stored' \in [key : Nat, epoch : Nat]
  OBVIOUS
<1> QED
  BY <1>1, <1>2, <1>3, <1>4

\* Check changes four variables within their types.
LEMMA CheckTypes ==
    ASSUME TypeOK, Send \in Tasks, NEW from, NEW shown \in [Peers -> Entry], NEW e \in Nat,
           NEW k \in Nat, Check(from, shown, e, k)
    PROVE  /\ pc' \in [Tasks -> Places] /\ at' \in [Tasks -> Nat]
           /\ bundle' \in [Tasks -> Nat] /\ list' \in [Tasks -> [Peers -> Entry]]
<1>1. /\ pc \in [Tasks -> Places] /\ at \in [Tasks -> Nat]
      /\ bundle \in [Tasks -> Nat] /\ list \in [Tasks -> [Peers -> Entry]]
      /\ {"encrypt", "idle"} \subseteq Places
  BY DEF TypeOK, Places
<1>2. Nobody \in [Peers -> Entry]
  BY DEF Nobody, NoEntry, Entry
<1>3. CASE shown # Nobody /\ AllPeersVerified(shown)
  <2>1. /\ pc' = [pc EXCEPT ![Send] = "encrypt"] /\ at' = [at EXCEPT ![Send] = e]
        /\ bundle' = [bundle EXCEPT ![Send] = k] /\ list' = [list EXCEPT ![Send] = shown]
    BY <1>3 DEF Check, Goto
  <2> QED
    BY <1>1, <2>1
<1>4. CASE ~(shown # Nobody /\ AllPeersVerified(shown))
  <2>1. /\ pc' = [pc EXCEPT ![Send] = "idle"] /\ at' = [at EXCEPT ![Send] = 0]
        /\ bundle' = [bundle EXCEPT ![Send] = 0] /\ list' = [list EXCEPT ![Send] = Nobody]
    BY <1>4 DEF Check, Goto, Forget
  <2> QED
    BY <1>1, <1>2, <2>1
<1> QED
  BY <1>3, <1>4

\* Every step keeps the types.
LEMMA TypeNext ==
    ASSUME TypeOK, [Next]_vars
    PROVE  TypeOK'
<1> USE SessionAssumption DEF Members, Places, Setting, Tasks, TypeOK
<1>a. ConnTypeOK'
  BY ConnStep, ConnTypeNext
<1>b. Nobody \in [Peers -> Entry]
  BY DEF Nobody, NoEntry, Entry
<1>0. CASE UNCHANGED vars
  BY <1>a, <1>0 DEF vars, connVars, server, client, screen, storage, locals, histories
<1>1. ASSUME Rotate PROVE TypeOK'
  <2>1. serverEpoch' \in Nat
    BY <1>1 DEF Rotate
  <2>2. listed' \in [Members -> Entry]
    BY <1>1 DEF Rotate, NoEntry, Entry
  <2> QED
    BY <1>a, <1>1, <2>1, <2>2 DEF Rotate, connVars, server, client, screen, storage,
         locals, histories
<1>2. ASSUME Withdraw PROVE TypeOK'
  BY <1>a, <1>2 DEF Withdraw, NoEntry, Entry, connVars, server, client, screen, storage, locals,
       histories
<1>3. ASSUME NEW p \in Peers, Publish(p) PROVE TypeOK'
  <2>1. minted + 1 \in Nat /\ p \in Members
    BY <1>3
  <2>2. minted' \in Nat
    BY <1>3 DEF Publish
  <2>3. PICK f \in 1..(minted + 1) :
             listed' = [listed EXCEPT ![p] = [fp |-> f, key |-> minted + 1]]
    BY <1>3 DEF Publish
  <2>4. f \in Nat
    BY <2>1
  <2>5. listed' \in [Members -> Entry]
    BY <2>1, <2>3, <2>4 DEF Entry
  <2> QED
    BY <1>a, <1>3, <2>1, <2>2, <2>5 DEF Publish, connVars, server, client, screen,
         storage, locals, histories
<1>4. ASSUME NEW p \in Peers, TrustPeer(p) PROVE TypeOK'
  <2>a. peers[p].fp \in Nat
    BY DEF Entry
  <2>1. trust' \in [Peers -> Nat]
    BY <1>4, <2>a DEF TrustPeer
  <2>2. verified' \subseteq Peers \X Nat
    BY <1>4, <2>a DEF TrustPeer
  <2> QED
    BY <1>a, <1>4, <2>1, <2>2 DEF TrustPeer, connVars, server, client, screen,
         storage, locals, histories
<1>5. ASSUME NEW p \in Peers, UntrustPeer(p) PROVE TypeOK'
  BY <1>a, <1>5 DEF UntrustPeer, connVars, server, client, screen, storage, locals,
       histories
<1>6. ASSUME NEW m \in Mounts, NEW e \in 1..serverEpoch, Announce(m, e) PROVE TypeOK'
  <2>1. notices' \in Nat
    BY <1>6 DEF Announce
  <2>2. inbox' \in [Mounts -> Seq(Nat)]
    BY <1>6 DEF Announce
  <2> QED
    BY <1>a, <1>6, <2>1, <2>2 DEF Announce, connVars, server, client, screen,
         storage, locals, histories
<1>7. ASSUME NEW m \in Mounts, NEW e \in 1..serverEpoch, Rerun(m, e) PROVE TypeOK'
  <2>1. cancelled' \subseteq Mounts
    BY <1>7 DEF Rerun, CleanUp, Close, Current, Overlap, Goto, Alive
  <2>2. epoch' \in Nat
    BY <1>7 DEF Rerun, CleanUp, Close, Current, Overlap, Goto, Alive
  <2>3. pc' \in [Tasks -> Places]
    BY <1>7 DEF Rerun, CleanUp, Close, Current, Overlap, Goto, Alive
  <2>4. overlapped' \in BOOLEAN
    BY <1>7 DEF Rerun, CleanUp, Close, Current, Overlap, Goto, Alive
  <2> QED
    BY <1>a, <1>7, <2>1, <2>2, <2>3, <2>4 DEF Rerun, CleanUp, Close, Current,
         Overlap, Goto, Alive, connVars, server, client, screen, storage, locals,
         histories
<1>8. ASSUME NEW m \in Mounts, ReadRoom(m) PROVE TypeOK'
  <2>1. epoch' \in Nat
    BY <1>8 DEF ReadRoom, BeginSetup, NoPair
  <2>2. /\ pc' \in [Tasks -> Places] /\ at' \in [Tasks -> Nat]
        /\ bundle' \in [Tasks -> Nat] /\ stored' \in [key : Nat, epoch : Nat]
    BY <1>8, SetupTypes DEF ReadRoom
  <2> QED
    BY <1>a, <1>8, <2>1, <2>2 DEF ReadRoom, BeginSetup, NoPair, connVars, server,
         client, screen, storage, locals, histories
<1>9. ASSUME NEW m \in Mounts, Stop(m) PROVE TypeOK'
  BY <1>a, <1>9 DEF Stop, Goto, connVars, server, client, screen, storage, locals,
       histories
<1>10. ASSUME NEW m \in Mounts, LoadHistory(m) PROVE TypeOK'
  BY <1>a, <1>10 DEF LoadHistory, Goto, Connect, connVars, server, client, screen,
       storage, locals, histories
<1>11. ASSUME NEW m \in Mounts, Ignore(m) PROVE TypeOK'
  <2>1. inbox' \in [Mounts -> Seq(Nat)]
    BY <1>11 DEF Ignore, Take
  <2> QED
    BY <1>a, <1>11, <2>1 DEF Ignore, Take, connVars, server, client, screen,
         storage, locals, histories
<1>12. ASSUME NEW m \in Mounts, SocketEvent(m) PROVE TypeOK'
  <2>1. inbox' = inbox \/ inbox' = [inbox EXCEPT ![m] = <<>>]
    BY <1>12 DEF SocketEvent, NoFrames
  <2>2. <<>> \in Seq(Nat)
    BY <1>12
  <2>3. inbox' \in [Mounts -> Seq(Nat)]
    BY <1>12, <2>1, <2>2
  <2> QED
    BY <1>a, <1>12, <2>1, <2>2, <2>3 DEF SocketEvent, Opened, Lost, Due, NoFrames,
         Quietly, Alive, connVars, server, client, screen, storage, locals,
         histories
<1>13. ASSUME NEW m \in Mounts, NEW h \in Rotations, RotateKeys(m, h) PROVE TypeOK'
  <2>1. inbox[m] \in Seq(Nat) /\ inbox[m] # <<>>
    BY <1>13 DEF RotateKeys, Take
  <2>2. Head(inbox[m]) \in Nat
    BY <1>13, <2>1, HeadOf
  <2>3. inbox' \in [Mounts -> Seq(Nat)]
    BY <1>13 DEF RotateKeys, Take, BeginSetup, NoPair, Overlap, Nobody
  <2>4. epoch' \in Nat
    BY <1>13, <2>2 DEF RotateKeys
  <2>5. trust' \in [Peers -> Nat]
    BY <1>13 DEF RotateKeys, Take, BeginSetup, NoPair, Overlap, Nobody
  <2>6. peers' \in [Peers -> Entry]
    BY <1>13, <1>b DEF RotateKeys
  <2>7. /\ pc' \in [Tasks -> Places] /\ at' \in [Tasks -> Nat]
        /\ bundle' \in [Tasks -> Nat] /\ stored' \in [key : Nat, epoch : Nat]
    BY <1>13, <2>2, SetupTypes DEF RotateKeys, NoPair
  <2>8. verified' \subseteq Peers \X Nat
    BY <1>13 DEF RotateKeys, Take, BeginSetup, NoPair, Overlap, Nobody
  <2>9. overlapped' \in BOOLEAN
    BY <1>13 DEF RotateKeys, Take, BeginSetup, NoPair, Overlap, Nobody
  <2> QED
    BY <1>a, <1>13, <2>1, <2>2, <2>3, <2>4, <2>5, <2>6, <2>7, <2>8, <2>9 DEF
         RotateKeys, Take, BeginSetup, NoPair, Overlap, Nobody, connVars, server,
         client, screen, storage, locals, histories
<1>14. ASSUME Unmount PROVE TypeOK'
  BY <1>a, <1>14 DEF Unmount, CleanUp, Close, Current, Alive, connVars, server,
       client, screen, storage, locals, histories
<1>15. ASSUME LeaveRoom PROVE TypeOK'
  BY <1>a, <1>15 DEF LeaveRoom, CleanUp, Close, Current, Alive, NoPair, Nobody,
       connVars, server, client, screen, storage, locals, histories
<1>16. ASSUME NEW t \in Mounts \cup Rotations, Imported(t) PROVE TypeOK'
  BY <1>a, <1>16 DEF Imported, Goto, connVars, server, client, screen, storage,
       locals, histories
<1>17. ASSUME NEW t \in Mounts \cup Rotations, Made(t) PROVE TypeOK'
  <2>1. minted' \in Nat
    <3>1. minted' = minted + 1 /\ minted \in Nat
      BY <1>17 DEF Made
    <3> QED
      BY <3>1
  <2>2. keys' \in Nat
    BY <1>17, <2>1 DEF Made
  <2>3. keysEpoch' \in Nat
    BY <1>17 DEF Made, Goto
  <2>4. bundle' \in [Tasks -> Nat]
    BY <1>17 DEF Made, Goto
  <2>5. stored' \in [key : Nat, epoch : Nat]
    BY <1>17 DEF Made, Goto
  <2>6. pc' \in [Tasks -> Places]
    BY <1>17 DEF Made, Goto
  <2> QED
    BY <1>a, <1>17, <2>1, <2>2, <2>3, <2>4, <2>5, <2>6 DEF Made, Goto, connVars,
         server, client, screen, storage, locals, histories
<1>18. ASSUME NEW t \in Mounts \cup Rotations, Register(t) PROVE TypeOK'
  <2>1. listed' \in [Members -> Entry]
    BY <1>18 DEF Register, Goto, Entry
  <2>2. registered' \subseteq Nat \X Nat
    <3>1. registered' \in {registered, registered \cup {<<bundle[t], at[t]>>}}
      BY <1>18 DEF Register
    <3>2. bundle[t] \in Nat /\ at[t] \in Nat /\ registered \subseteq Nat \X Nat
      OBVIOUS
    <3> QED
      BY <3>1, <3>2
  <2>3. pc' \in [Tasks -> Places]
    BY <1>18 DEF Register, Goto
  <2>4. at' \in [Tasks -> Nat]
    BY <1>18 DEF Register, Goto
  <2>5. bundle' \in [Tasks -> Nat]
    BY <1>18 DEF Register, Goto
  <2> QED
    BY <1>a, <1>18, <2>1, <2>2, <2>3, <2>4, <2>5 DEF Register, Goto, connVars,
         server, client, screen, storage, locals, histories
<1>19. ASSUME NEW t \in Tasks, Fetch(t) PROVE TypeOK'
  BY <1>a, <1>19 DEF Fetch, Goto, connVars, server, client, screen, storage, locals,
       histories
<1>20. ASSUME NEW t \in Tasks, Apply(t) PROVE TypeOK'
  BY <1>a, <1>b, <1>20 DEF Apply, Goto, connVars, server, client, screen, storage,
       locals, histories
<1>21. ASSUME NEW t \in Tasks, Fail(t) PROVE TypeOK'
  BY <1>a, <1>b, <1>21 DEF Fail, Forget, connVars, server, client, screen,
       storage, locals, histories
<1>22. ASSUME NEW l \in Loads, LoadPeers(l) PROVE TypeOK'
  BY <1>a, <1>22 DEF LoadPeers, Goto, connVars, server, client, screen, storage,
       locals, histories
<1>23. ASSUME SendMessage PROVE TypeOK'
  <2> USE DEF SendMessage
  <2>1. Send \in Tasks
    OBVIOUS
  <2>2. CASE peers # Nobody
    <3>1. /\ pc' \in [Tasks -> Places] /\ at' \in [Tasks -> Nat]
          /\ bundle' \in [Tasks -> Nat] /\ list' \in [Tasks -> [Peers -> Entry]]
      BY <1>23, <2>1, <2>2, CheckTypes
    <3> QED
      BY <1>a, <1>23, <3>1 DEF connVars, server, client, screen, storage, locals, histories
  <2>3. CASE peers = Nobody
    <3>1. pc' \in [Tasks -> Places] /\ list' \in [Tasks -> [Peers -> Entry]]
      BY <1>23, <2>1, <2>3 DEF Goto
    <3>2. at' \in [Tasks -> Nat] /\ bundle' \in [Tasks -> Nat]
      BY <1>23, <2>1, <2>3
    <3> QED
      BY <1>a, <1>23, <3>1, <3>2 DEF connVars, server, client, screen, storage, locals,
         histories
  <2> QED
    BY <2>2, <2>3
<1>24. ASSUME SendLoaded PROVE TypeOK'
  <2>1. Send \in Tasks
    BY <1>24
  <2>2. peers' \in [Peers -> Entry]
    BY <1>24 DEF SendLoaded, Check, Goto, Forget, Nobody, AllPeersVerified
  <2>3. /\ pc' \in [Tasks -> Places] /\ at' \in [Tasks -> Nat]
        /\ bundle' \in [Tasks -> Nat] /\ list' \in [Tasks -> [Peers -> Entry]]
    BY <1>24, <2>1, CheckTypes DEF SendLoaded
  <2> QED
    BY <1>a, <1>24, <2>1, <2>2, <2>3 DEF SendLoaded, Check, Goto, Forget, Nobody,
         AllPeersVerified, connVars, server, client, screen, storage, locals,
         histories
<1>25. ASSUME Encrypted PROVE TypeOK'
  BY <1>a, <1>b, <1>25 DEF Encrypted, Goto, Forget, connVars, server, client,
       screen, storage, locals, histories
<1>26. ASSUME NEW t \in Mounts \cup Rotations, NotImported(t) PROVE TypeOK'
  <2>1. /\ pc' \in [Tasks -> Places] /\ bundle' \in [Tasks -> Nat]
        /\ stored' \in [key : Nat, epoch : Nat]
    BY <1>26 DEF NotImported, Goto, NoPair
  <2> QED
    BY <1>a, <1>26, <2>1 DEF NotImported, connVars, server, screen, storage, histories
<1> QED
  BY <1>0, <1>1, <1>2, <1>3, <1>4, <1>5, <1>6, <1>7, <1>8, <1>9, <1>10, <1>11,
       <1>12, <1>13, <1>14, <1>15, <1>16, <1>17, <1>18, <1>19, <1>20, <1>21, <1>22,
       <1>23, <1>24, <1>25, <1>26 DEF Next, Setup

-----------------------------------------------------------------------------
(* Verified fingerprints *)

\* The trust store holds nothing from before the last rotation.
TrustInv == \A p \in Peers : trust[p] # 0 => <<p, trust[p]>> \in verified

\* Only TrustPeer adds to it, and every clearing of the history clears it.
LEMMA TrustNext ==
    ASSUME TypeOK, TrustInv, [Next]_vars
    PROVE  TrustInv'
<1> USE SessionAssumption DEF TypeOK, TrustInv
<1>0. CASE UNCHANGED vars
  BY <1>0 DEF vars, connVars, server, client, screen, storage, locals, histories
<1>1. ASSUME Rotate PROVE TrustInv'
  BY <1>1 DEF Rotate, connVars, server, client, screen, storage, locals, histories
<1>2. ASSUME Withdraw PROVE TrustInv'
  BY <1>2 DEF Withdraw, connVars, server, client, screen, storage, locals, histories
<1>3. ASSUME NEW p \in Peers, Publish(p) PROVE TrustInv'
  BY <1>3 DEF Publish, connVars, server, client, screen, storage, locals, histories
<1>4. ASSUME NEW p \in Peers, TrustPeer(p) PROVE TrustInv'
  BY <1>4 DEF TrustPeer, Entry
<1>5. ASSUME NEW p \in Peers, UntrustPeer(p) PROVE TrustInv'
  BY <1>5 DEF UntrustPeer, connVars, server, client, screen, storage, locals,
       histories
<1>6. ASSUME NEW m \in Mounts, NEW e \in 1..serverEpoch, Announce(m, e) PROVE TrustInv'
  BY <1>6 DEF Announce, connVars, server, client, screen, storage, locals, histories
<1>7. ASSUME NEW m \in Mounts, NEW e \in 1..serverEpoch, Rerun(m, e) PROVE TrustInv'
  BY <1>7 DEF Rerun, CleanUp, Close, Current, Overlap, Goto, Alive, connVars,
       server, client, screen, storage, locals, histories
<1>8. ASSUME NEW m \in Mounts, ReadRoom(m) PROVE TrustInv'
  BY <1>8 DEF ReadRoom, BeginSetup, NoPair, connVars, server, client, screen,
       storage, locals, histories
<1>9. ASSUME NEW m \in Mounts, Stop(m) PROVE TrustInv'
  BY <1>9 DEF Stop, Goto, connVars, server, client, screen, storage, locals,
       histories
<1>10. ASSUME NEW m \in Mounts, LoadHistory(m) PROVE TrustInv'
  BY <1>10 DEF LoadHistory, Goto, Connect, connVars, server, client, screen,
       storage, locals, histories
<1>11. ASSUME NEW m \in Mounts, Ignore(m) PROVE TrustInv'
  BY <1>11 DEF Ignore, Take, connVars, server, client, screen, storage, locals,
       histories
<1>12. ASSUME NEW m \in Mounts, SocketEvent(m) PROVE TrustInv'
  BY <1>12 DEF SocketEvent, Opened, Lost, Due, NoFrames, Quietly, Alive, connVars,
       server, client, screen, storage, locals, histories
<1>13. ASSUME NEW m \in Mounts, NEW h \in Rotations, RotateKeys(m, h) PROVE TrustInv'
  BY <1>13 DEF RotateKeys, Take, BeginSetup, NoPair, Overlap, Nobody, connVars,
       server, client, screen, storage, locals, histories
<1>14. ASSUME Unmount PROVE TrustInv'
  BY <1>14 DEF Unmount, CleanUp, Close, Current, Alive, connVars, server, client,
       screen, storage, locals, histories
<1>15. ASSUME LeaveRoom PROVE TrustInv'
  BY <1>15 DEF LeaveRoom, CleanUp, Close, Current, Alive, NoPair, Nobody, connVars,
       server, client, screen, storage, locals, histories
<1>16. ASSUME NEW t \in Mounts \cup Rotations, Imported(t) PROVE TrustInv'
  BY <1>16 DEF Imported, Goto, connVars, server, client, screen, storage, locals,
       histories
<1>17. ASSUME NEW t \in Mounts \cup Rotations, Made(t) PROVE TrustInv'
  BY <1>17 DEF Made, Goto, connVars, server, client, screen, storage, locals,
       histories
<1>18. ASSUME NEW t \in Mounts \cup Rotations, Register(t) PROVE TrustInv'
  BY <1>18 DEF Register, Goto, connVars, server, client, screen, storage, locals,
       histories
<1>19. ASSUME NEW t \in Tasks, Fetch(t) PROVE TrustInv'
  BY <1>19 DEF Fetch, Goto, connVars, server, client, screen, storage, locals,
       histories
<1>20. ASSUME NEW t \in Tasks, Apply(t) PROVE TrustInv'
  BY <1>20 DEF Apply, Goto, Nobody, connVars, server, client, screen, storage,
       locals, histories
<1>21. ASSUME NEW t \in Tasks, Fail(t) PROVE TrustInv'
  BY <1>21 DEF Fail, Forget, Nobody, connVars, server, client, screen, storage,
       locals, histories
<1>22. ASSUME NEW l \in Loads, LoadPeers(l) PROVE TrustInv'
  BY <1>22 DEF LoadPeers, Goto, connVars, server, client, screen, storage, locals,
       histories
<1>23. ASSUME SendMessage PROVE TrustInv'
  BY <1>23 DEF SendMessage, Check, Goto, Forget, Nobody, Current, AllPeersVerified,
       connVars, server, client, screen, storage, locals, histories
<1>24. ASSUME SendLoaded PROVE TrustInv'
  BY <1>24 DEF SendLoaded, Check, Goto, Forget, Nobody, AllPeersVerified, connVars,
       server, client, screen, storage, locals, histories
<1>25. ASSUME Encrypted PROVE TrustInv'
  BY <1>25 DEF Encrypted, Goto, Forget, Nobody, connVars, server, client, screen,
       storage, locals, histories
<1>26. ASSUME NEW t \in Mounts \cup Rotations, NotImported(t) PROVE TrustInv'
  BY <1>26 DEF NotImported, histories
<1> QED
  BY <1>0, <1>1, <1>2, <1>3, <1>4, <1>5, <1>6, <1>7, <1>8, <1>9, <1>10, <1>11,
       <1>12, <1>13, <1>14, <1>15, <1>16, <1>17, <1>18, <1>19, <1>20, <1>21, <1>22,
       <1>23, <1>24, <1>25, <1>26 DEF Next, Setup

\* What Check lets through has a record in the trust store for every entry.
LEMMA CheckAdmits ==
    ASSUME TypeOK, TrustInv, Send \in Tasks, NEW from, NEW shown \in [Peers -> Entry],
           NEW e, NEW k, Check(from, shown, e, k), pc'[Send] = "encrypt",
           NEW p \in Peers, list'[Send][p] # NoEntry
    PROVE  <<p, list'[Send][p].fp>> \in verified
<1>1. AllPeersVerified(shown) /\ list'[Send] = shown
  BY DEF TypeOK, Check, Goto, Forget
<1> QED
  BY <1>1 DEF AllPeersVerified, TrustInv

\* A message is let through by Check alone.
LEMMA OnlyVerifiedNext ==
    ASSUME TypeOK, TrustInv, [Next]_vars
    PROVE  OnlyVerified
<1> USE SessionAssumption DEF TypeOK, TrustInv, OnlyVerified, LetsThrough, Tasks
<1>0. CASE UNCHANGED vars
  BY <1>0 DEF vars, connVars, server, client, screen, storage, locals, histories
<1>1. ASSUME Rotate PROVE OnlyVerified
  BY <1>1 DEF Rotate, connVars, server, client, screen, storage, locals, histories
<1>2. ASSUME Withdraw PROVE OnlyVerified
  BY <1>2 DEF Withdraw, connVars, server, client, screen, storage, locals, histories
<1>3. ASSUME NEW p \in Peers, Publish(p) PROVE OnlyVerified
  BY <1>3 DEF Publish, connVars, server, client, screen, storage, locals, histories
<1>4. ASSUME NEW p \in Peers, TrustPeer(p) PROVE OnlyVerified
  BY <1>4 DEF TrustPeer, connVars, server, client, screen, storage, locals,
       histories
<1>5. ASSUME NEW p \in Peers, UntrustPeer(p) PROVE OnlyVerified
  BY <1>5 DEF UntrustPeer, connVars, server, client, screen, storage, locals,
       histories
<1>6. ASSUME NEW m \in Mounts, NEW e \in 1..serverEpoch, Announce(m, e) PROVE OnlyVerified
  BY <1>6 DEF Announce, connVars, server, client, screen, storage, locals, histories
<1>7. ASSUME NEW m \in Mounts, NEW e \in 1..serverEpoch, Rerun(m, e) PROVE OnlyVerified
  BY <1>7 DEF Rerun, CleanUp, Close, Current, Overlap, Goto, Alive, connVars,
       server, client, screen, storage, locals, histories
<1>8. ASSUME NEW m \in Mounts, ReadRoom(m) PROVE OnlyVerified
  BY <1>8 DEF ReadRoom, BeginSetup, NoPair, connVars, server, client, screen,
       storage, locals, histories
<1>9. ASSUME NEW m \in Mounts, Stop(m) PROVE OnlyVerified
  BY <1>9 DEF Stop, Goto, connVars, server, client, screen, storage, locals,
       histories
<1>10. ASSUME NEW m \in Mounts, LoadHistory(m) PROVE OnlyVerified
  BY <1>10 DEF LoadHistory, Goto, Connect, connVars, server, client, screen,
       storage, locals, histories
<1>11. ASSUME NEW m \in Mounts, Ignore(m) PROVE OnlyVerified
  BY <1>11 DEF Ignore, Take, connVars, server, client, screen, storage, locals,
       histories
<1>12. ASSUME NEW m \in Mounts, SocketEvent(m) PROVE OnlyVerified
  BY <1>12 DEF SocketEvent, Opened, Lost, Due, NoFrames, Quietly, Alive, connVars,
       server, client, screen, storage, locals, histories
<1>13. ASSUME NEW m \in Mounts, NEW h \in Rotations, RotateKeys(m, h) PROVE OnlyVerified
  BY <1>13 DEF RotateKeys, Take, BeginSetup, NoPair, Overlap, Nobody, connVars,
       server, client, screen, storage, locals, histories
<1>14. ASSUME Unmount PROVE OnlyVerified
  BY <1>14 DEF Unmount, CleanUp, Close, Current, Alive, connVars, server, client,
       screen, storage, locals, histories
<1>15. ASSUME LeaveRoom PROVE OnlyVerified
  BY <1>15 DEF LeaveRoom, CleanUp, Close, Current, Alive, NoPair, Nobody, connVars,
       server, client, screen, storage, locals, histories
<1>16. ASSUME NEW t \in Mounts \cup Rotations, Imported(t) PROVE OnlyVerified
  BY <1>16 DEF Imported, Goto, connVars, server, client, screen, storage, locals,
       histories
<1>17. ASSUME NEW t \in Mounts \cup Rotations, Made(t) PROVE OnlyVerified
  BY <1>17 DEF Made, Goto, connVars, server, client, screen, storage, locals,
       histories
<1>18. ASSUME NEW t \in Mounts \cup Rotations, Register(t) PROVE OnlyVerified
  BY <1>18 DEF Register, Goto, connVars, server, client, screen, storage, locals,
       histories
<1>19. ASSUME NEW t \in Tasks, Fetch(t) PROVE OnlyVerified
  BY <1>19 DEF Fetch, Goto, connVars, server, client, screen, storage, locals,
       histories
<1>20. ASSUME NEW t \in Tasks, Apply(t) PROVE OnlyVerified
  BY <1>20 DEF Apply, Goto, Nobody, connVars, server, client, screen, storage,
       locals, histories
<1>21. ASSUME NEW t \in Tasks, Fail(t) PROVE OnlyVerified
  BY <1>21 DEF Fail, Forget, Nobody, connVars, server, client, screen, storage,
       locals, histories
<1>22. ASSUME NEW l \in Loads, LoadPeers(l) PROVE OnlyVerified
  BY <1>22 DEF LoadPeers, Goto, connVars, server, client, screen, storage, locals,
       histories
<1>23. ASSUME SendMessage PROVE OnlyVerified
  <2>1. CASE peers # Nobody
    BY <1>23, <2>1, CheckAdmits DEF SendMessage
  <2>2. CASE peers = Nobody
    BY <1>23, <2>2 DEF SendMessage, Goto
  <2> QED
    BY <2>1, <2>2
<1>24. ASSUME SendLoaded PROVE OnlyVerified
  <2>1. list[Send] \in [Peers -> Entry]
    OBVIOUS
  <2> QED
    BY <1>24, <2>1, CheckAdmits DEF SendLoaded
<1>25. ASSUME Encrypted PROVE OnlyVerified
  BY <1>25 DEF Encrypted, Goto, Forget, Nobody, connVars, server, client, screen,
       storage, locals, histories
<1>26. ASSUME NEW t \in Mounts \cup Rotations, NotImported(t) PROVE OnlyVerified
  BY <1>26 DEF NotImported, Goto
<1> QED
  BY <1>0, <1>1, <1>2, <1>3, <1>4, <1>5, <1>6, <1>7, <1>8, <1>9, <1>10, <1>11,
       <1>12, <1>13, <1>14, <1>15, <1>16, <1>17, <1>18, <1>19, <1>20, <1>21, <1>22,
       <1>23, <1>24, <1>25, <1>26 DEF Next, Setup

-----------------------------------------------------------------------------
(* The connection *)

\* A timer is pending for a dead socket only; after close() no new one is set,
\* and the one that may be pending is used up when it revives the connection.
ConnInv ==
    /\ \A c \in Conns : timer[c] => sock[c] = "closed"
    /\ NeverStranded
    /\ \A c \in Conns : \/ revived[c] = 0
                        \/ revived[c] = 1 /\ closed[c] /\ ~timer[c]

\* Every event of a connection keeps ConnInv.
LEMMA ConnInvNext ==
    ASSUME ConnTypeOK, ConnInv, NEW c \in Conns,
           Connect(c) \/ Opened(c) \/ Lost(c) \/ Due(c) \/ Close(c) \/ UNCHANGED connVars
    PROVE  ConnInv'
<1> USE ConnectionAssumption DEF ConnTypeOK, ConnInv, NeverStranded
<1>1. CASE Connect(c)
  BY <1>1 DEF Connect
<1>2. CASE Opened(c)
  BY <1>2 DEF Opened
<1>3. CASE Lost(c)
  <2>1. \A n \in Conns \ {c} : /\ sock'[n] = sock[n] /\ timer'[n] = timer[n]
                               /\ retries'[n] = retries[n]
    BY <1>3 DEF Lost
  <2>2. /\ sock'[c] = "closed" /\ closed' = closed /\ revived' = revived
        /\ timer'[c] = (~closed[c] /\ retries[c] < MaxRetries)
        /\ retries'[c] = IF ~closed[c] /\ retries[c] < MaxRetries THEN retries[c] + 1
                                                                 ELSE retries[c]
    BY <1>3 DEF Lost
  <2>3. retries[c] < MaxRetries \/ retries[c] = MaxRetries
    OBVIOUS
  <2> QED
    BY <2>1, <2>2, <2>3
<1>4. CASE Due(c)
  BY <1>4 DEF Due
<1>5. CASE Close(c)
  BY <1>5 DEF Close, Alive
<1>6. CASE UNCHANGED connVars
  BY <1>6 DEF connVars
<1> QED
  BY <1>1, <1>2, <1>3, <1>4, <1>5, <1>6

\* Only connectWebSocket gives a connection its first socket.
LEMMA NoneStays ==
    ASSUME ConnTypeOK, ConnInv, NEW c, NEW n \in Conns,
           Opened(c) \/ Lost(c) \/ Due(c) \/ Close(c)
    PROVE  sock'[n] # "none" => sock[n] # "none"
BY DEF ConnTypeOK, ConnInv, Opened, Lost, Due, Close, Alive

-----------------------------------------------------------------------------
(* What the shared parts of the coroutines do *)

\* BeginSetup moves one coroutine, to import the stored pair if it is of the
\* epoch, or to make one.
LEMMA SetupMoves ==
    ASSUME TypeOK, NEW t \in Tasks, NEW e \in Nat, NEW pair \in [key : Nat, epoch : Nat],
           BeginSetup(t, e, pair)
    PROVE  /\ at'[t] = e
           /\ \/ pc'[t] = "make" /\ stored' = NoPair
              \/ /\ pc'[t] = "import" /\ bundle'[t] = pair.key /\ bundle'[t] # 0
                 /\ pair.epoch = e /\ stored' = pair
           /\ \A u \in Tasks \ {t} : pc'[u] = pc[u] /\ bundle'[u] = bundle[u] /\ at'[u] = at[u]
BY DEF TypeOK, BeginSetup

\* Check moves the coroutine of sendMessage alone.
LEMMA CheckElsewhere ==
    ASSUME TypeOK, NEW from, NEW shown, NEW e, NEW k, Check(from, shown, e, k)
    PROVE  \A u \in Tasks \ {Send} :
              pc'[u] = pc[u] /\ bundle'[u] = bundle[u] /\ at'[u] = at[u]
BY DEF TypeOK, Check, Goto, Forget

-----------------------------------------------------------------------------
(* Keys before sockets *)

\* A pair that is being imported is one.
ImportHasPair == \A t \in Mounts \cup Rotations : pc[t] = "import" => bundle[t] # 0

\* A run of the effect that is past Made or Imported has keys, so has one that
\* made its connection, and they are never taken away.
SocketHasKeys ==
    \A m \in Mounts :
        sock[m] # "none" \/ pc[m] \in {"register", "fetch", "apply", "history"} => keys # 0

KeysInv == ImportHasPair /\ SocketHasKeys

\* Every step keeps KeysInv.
LEMMA KeysNext ==
    ASSUME TypeOK, ConnInv, KeysInv, [Next]_vars
    PROVE  KeysInv'
<1> USE SessionAssumption DEF TypeOK, ConnTypeOK, ImportHasPair, SocketHasKeys, KeysInv,
         Tasks, Disjoint
<1>0. CASE UNCHANGED vars
  BY <1>0 DEF vars, connVars, server, client, screen, storage, locals, histories
<1>1. ASSUME Rotate PROVE KeysInv'
  BY <1>1 DEF Rotate, connVars, server, client, screen, storage, locals, histories
<1>2. ASSUME Withdraw PROVE KeysInv'
  BY <1>2 DEF Withdraw, connVars, server, client, screen, storage, locals, histories
<1>3. ASSUME NEW p \in Peers, Publish(p) PROVE KeysInv'
  BY <1>3 DEF Publish, connVars, server, client, screen, storage, locals, histories
<1>4. ASSUME NEW p \in Peers, TrustPeer(p) PROVE KeysInv'
  BY <1>4 DEF TrustPeer, connVars, server, client, screen, storage, locals,
       histories
<1>5. ASSUME NEW p \in Peers, UntrustPeer(p) PROVE KeysInv'
  BY <1>5 DEF UntrustPeer, connVars, server, client, screen, storage, locals,
       histories
<1>6. ASSUME NEW m \in Mounts, NEW e \in 1..serverEpoch, Announce(m, e) PROVE KeysInv'
  BY <1>6 DEF Announce, connVars, server, client, screen, storage, locals, histories
<1>7. ASSUME NEW m \in Mounts, NEW e \in 1..serverEpoch, Rerun(m, e) PROVE KeysInv'
  <2>1. \A n \in Mounts : sock'[n] # "none" => sock[n] # "none"
    BY <1>7, NoneStays DEF Rerun, CleanUp, connVars
  <2>2. ImportHasPair'
    BY <1>7 DEF Rerun, Goto, locals
  <2>3. SocketHasKeys'
    BY <1>7, <2>1 DEF Rerun, Goto
  <2> QED
    BY <2>2, <2>3
<1>8. ASSUME NEW m \in Mounts, ReadRoom(m) PROVE KeysInv'
  <2>1. m \in Tasks /\ serverEpoch \in Nat /\ stored \in [key : Nat, epoch : Nat]
    OBVIOUS
  <2>2. /\ pc'[m] \in {"make", "import"} /\ (pc'[m] = "import" => bundle'[m] # 0)
        /\ \A u \in Tasks \ {m} : pc'[u] = pc[u] /\ bundle'[u] = bundle[u]
    BY <1>8, <2>1, SetupMoves DEF ReadRoom
  <2>3. ImportHasPair'
    BY <2>2
  <2>4. SocketHasKeys'
    BY <1>8, <2>2 DEF ReadRoom, connVars
  <2> QED
    BY <2>3, <2>4
<1>9. ASSUME NEW m \in Mounts, Stop(m) PROVE KeysInv'
  BY <1>9 DEF Stop, Goto, connVars, server, client, screen, storage, locals,
       histories
<1>10. ASSUME NEW m \in Mounts, LoadHistory(m) PROVE KeysInv'
  BY <1>10 DEF LoadHistory, Goto, Connect, connVars, server, client, screen,
       storage, locals, histories
<1>11. ASSUME NEW m \in Mounts, Ignore(m) PROVE KeysInv'
  BY <1>11 DEF Ignore, Take, connVars, server, client, screen, storage, locals,
       histories
<1>12. ASSUME NEW m \in Mounts, SocketEvent(m) PROVE KeysInv'
  <2>1. ASSUME NEW n \in Mounts PROVE sock'[n] # "none" => sock[n] # "none"
    <3>1. Opened(m) \/ Lost(m) \/ Due(m) \/ Close(m)
      BY <1>12 DEF SocketEvent
    <3>2. ConnTypeOK /\ n \in Conns
      OBVIOUS
    <3> QED
      BY <3>1, <3>2, NoneStays
  <2>2. ImportHasPair'
    BY <1>12 DEF SocketEvent, Quietly, client, screen, locals
  <2>3. SocketHasKeys'
    BY <1>12, <2>1 DEF SocketEvent, Quietly, client, screen, locals
  <2> QED
    BY <2>2, <2>3
<1>13. ASSUME NEW m \in Mounts, NEW h \in Rotations, RotateKeys(m, h) PROVE KeysInv'
  <2>1. h \in Tasks /\ NoPair \in [key : Nat, epoch : Nat] /\ Head(inbox[m]) \in Nat
    BY <1>13, HeadOf DEF RotateKeys, Take, NoPair
  <2>2. /\ pc'[h] \in {"make", "import"} /\ (pc'[h] = "import" => bundle'[h] # 0)
        /\ \A u \in Tasks \ {h} : pc'[u] = pc[u] /\ bundle'[u] = bundle[u]
    BY <1>13, <2>1, SetupMoves DEF RotateKeys
  <2>3. ImportHasPair'
    BY <2>2
  <2>4. SocketHasKeys'
    BY <1>13, <2>2 DEF RotateKeys, connVars
  <2> QED
    BY <2>3, <2>4
<1>14. ASSUME Unmount PROVE KeysInv'
  <2>1. \A n \in Mounts : sock'[n] # "none" => sock[n] # "none"
    BY <1>14, NoneStays DEF Unmount, CleanUp, connVars
  <2>2. ImportHasPair'
    BY <1>14 DEF Unmount, locals
  <2>3. SocketHasKeys'
    BY <1>14, <2>1 DEF Unmount
  <2> QED
    BY <2>2, <2>3
<1>15. ASSUME LeaveRoom PROVE KeysInv'
  <2>1. \A n \in Mounts : sock'[n] # "none" => sock[n] # "none"
    BY <1>15, NoneStays DEF LeaveRoom, CleanUp, connVars
  <2>2. ImportHasPair'
    BY <1>15 DEF LeaveRoom, locals
  <2>3. SocketHasKeys'
    BY <1>15, <2>1 DEF LeaveRoom
  <2> QED
    BY <2>2, <2>3
<1>16. ASSUME NEW t \in Mounts \cup Rotations, Imported(t) PROVE KeysInv'
  BY <1>16 DEF Imported, Goto, connVars, server, client, screen, storage, locals,
       histories
<1>17. ASSUME NEW t \in Mounts \cup Rotations, Made(t) PROVE KeysInv'
  <2>1. ImportHasPair'
    BY <1>17 DEF Made, Goto, connVars, server, client, screen, storage, locals,
         histories
  <2>2. SocketHasKeys'
    BY <1>17 DEF Made, Goto, connVars, server, client, screen, storage, locals,
         histories
  <2> QED
    BY <1>17, <2>1, <2>2 DEF Made, Goto, connVars, server, client, screen, storage,
         locals, histories
<1>18. ASSUME NEW t \in Mounts \cup Rotations, Register(t) PROVE KeysInv'
  BY <1>18 DEF Register, Goto, connVars, server, client, screen, storage, locals,
       histories
<1>19. ASSUME NEW t \in Tasks, Fetch(t) PROVE KeysInv'
  BY <1>19 DEF Fetch, Goto, connVars, server, client, screen, storage, locals,
       histories
<1>20. ASSUME NEW t \in Tasks, Apply(t) PROVE KeysInv'
  BY <1>20 DEF Apply, Goto, Nobody, connVars, server, client, screen, storage,
       locals, histories
<1>21. ASSUME NEW t \in Tasks, Fail(t) PROVE KeysInv'
  BY <1>21 DEF Fail, Forget, Nobody, connVars, server, client, screen, storage,
       locals, histories
<1>22. ASSUME NEW l \in Loads, LoadPeers(l) PROVE KeysInv'
  <2>1. ImportHasPair'
    BY <1>22 DEF LoadPeers, Goto, connVars, server, client, screen, storage, locals,
         histories
  <2>2. SocketHasKeys'
    BY <1>22 DEF LoadPeers, Goto, connVars, server, client, screen, storage, locals,
         histories
  <2> QED
    BY <1>22, <2>1, <2>2 DEF LoadPeers, Goto, connVars, server, client, screen,
         storage, locals, histories
<1>23. ASSUME SendMessage PROVE KeysInv'
  <2>1. \A u \in Tasks \ {Send} : pc'[u] = pc[u] /\ bundle'[u] = bundle[u]
    BY <1>23, CheckElsewhere DEF SendMessage, Goto
  <2>2. sock' = sock /\ keys' = keys
    BY <1>23 DEF SendMessage, connVars, screen
  <2> QED
    BY <2>1, <2>2
<1>24. ASSUME SendLoaded PROVE KeysInv'
  <2>1. \A u \in Tasks \ {Send} : pc'[u] = pc[u] /\ bundle'[u] = bundle[u]
    BY <1>24, CheckElsewhere DEF SendLoaded, Goto
  <2>2. sock' = sock /\ keys' = keys
    BY <1>24 DEF SendLoaded, connVars, screen
  <2> QED
    BY <2>1, <2>2
<1>25. ASSUME Encrypted PROVE KeysInv'
  BY <1>25 DEF Encrypted, Goto, Forget, Nobody, connVars, server, client, screen,
       storage, locals, histories
<1>26. ASSUME NEW t \in Mounts \cup Rotations, NotImported(t) PROVE KeysInv'
  <2>1. ImportHasPair'
    BY <1>26 DEF NotImported, Goto
  <2>2. SocketHasKeys'
    BY <1>26 DEF NotImported, Goto, connVars, screen
  <2> QED
    BY <2>1, <2>2
<1> QED
  BY <1>0, <1>1, <1>2, <1>3, <1>4, <1>5, <1>6, <1>7, <1>8, <1>9, <1>10, <1>11,
       <1>12, <1>13, <1>14, <1>15, <1>16, <1>17, <1>18, <1>19, <1>20, <1>21, <1>22,
       <1>23, <1>24, <1>25, <1>26 DEF Next, Setup

-----------------------------------------------------------------------------
(* One epoch for a key pair *)

\* The key pair k is registered at epoch e, stored for it, or about to be
\* registered at it.
HasEpoch(k, e) ==
    \/ <<k, e>> \in registered
    \/ k # 0 /\ stored.key = k /\ stored.epoch = e
    \/ \E t \in Mounts \cup Rotations :
          pc[t] \in {"import", "register"} /\ bundle[t] = k /\ at[t] = e

PairInv ==
    /\ \A k, e \in Nat : HasEpoch(k, e) => k <= minted
    /\ \A k, d, e \in Nat : HasEpoch(k, d) /\ HasEpoch(k, e) => d = e

\* The only pair that gains an epoch in a step is the one that is made, and
\* stored, in it.
Gains(k, e) ==
    HasEpoch(k, e)' =>
        \/ HasEpoch(k, e)
        \/ k = minted + 1 /\ minted' = minted + 1 /\ e = stored'.epoch

\* Made gives out the next number; everything else moves a pair along.
LEMMA PairStep ==
    ASSUME TypeOK, NEW k \in Nat, NEW e \in Nat, [Next]_vars
    PROVE  Gains(k, e) /\ minted' >= minted
<1> USE SessionAssumption DEF TypeOK, Gains, HasEpoch, Tasks
<1>0. CASE UNCHANGED vars
  BY <1>0 DEF vars, connVars, server, client, screen, storage, locals, histories
<1>1. ASSUME Rotate PROVE Gains(k, e) /\ minted' >= minted
  BY <1>1 DEF Rotate, connVars, server, client, screen, storage, locals, histories
<1>2. ASSUME Withdraw PROVE Gains(k, e) /\ minted' >= minted
  BY <1>2 DEF Withdraw, connVars, server, client, screen, storage, locals, histories
<1>3. ASSUME NEW p \in Peers, Publish(p) PROVE Gains(k, e) /\ minted' >= minted
  BY <1>3 DEF Publish, connVars, server, client, screen, storage, locals, histories
<1>4. ASSUME NEW p \in Peers, TrustPeer(p) PROVE Gains(k, e) /\ minted' >= minted
  BY <1>4 DEF TrustPeer, connVars, server, client, screen, storage, locals,
       histories
<1>5. ASSUME NEW p \in Peers, UntrustPeer(p) PROVE Gains(k, e) /\ minted' >= minted
  BY <1>5 DEF UntrustPeer, connVars, server, client, screen, storage, locals,
       histories
<1>6. ASSUME NEW m \in Mounts, NEW f \in 1..serverEpoch, Announce(m, f)
      PROVE  Gains(k, e) /\ minted' >= minted
  BY <1>6 DEF Announce, connVars, server, client, screen, storage, locals, histories
<1>7. ASSUME NEW m \in Mounts, NEW f \in 1..serverEpoch, Rerun(m, f)
      PROVE  Gains(k, e) /\ minted' >= minted
  <2>1. UNCHANGED <<registered, minted, stored, bundle, at>>
    BY <1>7 DEF Rerun, storage, locals
  <2>2. pc' = [pc EXCEPT ![m] = "room"]
    BY <1>7 DEF Rerun, Goto
  <2> QED
    BY <2>1, <2>2
<1>8. ASSUME NEW m \in Mounts, ReadRoom(m) PROVE Gains(k, e) /\ minted' >= minted
  <2>1. m \in Tasks /\ serverEpoch \in Nat /\ stored \in [key : Nat, epoch : Nat]
    OBVIOUS
  <2>2. /\ at'[m] = serverEpoch
        /\ \/ pc'[m] = "make" /\ stored' = NoPair
           \/ /\ pc'[m] = "import" /\ bundle'[m] = stored.key /\ bundle'[m] # 0
              /\ stored.epoch = serverEpoch /\ stored' = stored
        /\ \A u \in Tasks \ {m} : pc'[u] = pc[u] /\ bundle'[u] = bundle[u] /\ at'[u] = at[u]
    BY <1>8, <2>1, SetupMoves DEF ReadRoom
  <2>3. UNCHANGED <<registered, minted>>
    BY <1>8 DEF ReadRoom, histories
  <2>4. HasEpoch(k, e)' => HasEpoch(k, e)
    <3>1. NoPair.key = 0
      BY DEF NoPair
    <3>2. CASE <<k, e>> \in registered'
      BY <2>3, <3>2
    <3>3. CASE k # 0 /\ stored'.key = k /\ stored'.epoch = e
      BY <2>2, <3>1, <3>3
    <3>4. ASSUME NEW u \in Mounts \cup Rotations,
                 pc'[u] \in {"import", "register"}, bundle'[u] = k, at'[u] = e
          PROVE  HasEpoch(k, e)
      BY <2>2, <3>4
    <3> QED
      BY <3>2, <3>3, <3>4
  <2> QED
    BY <2>3, <2>4
<1>9. ASSUME NEW m \in Mounts, Stop(m) PROVE Gains(k, e) /\ minted' >= minted
  BY <1>9 DEF Stop, Goto, connVars, server, client, screen, storage, locals,
       histories
<1>10. ASSUME NEW m \in Mounts, LoadHistory(m) PROVE Gains(k, e) /\ minted' >= minted
  BY <1>10 DEF LoadHistory, Goto, Connect, connVars, server, client, screen,
       storage, locals, histories
<1>11. ASSUME NEW m \in Mounts, Ignore(m) PROVE Gains(k, e) /\ minted' >= minted
  BY <1>11 DEF Ignore, Take, connVars, server, client, screen, storage, locals,
       histories
<1>12. ASSUME NEW m \in Mounts, SocketEvent(m) PROVE Gains(k, e) /\ minted' >= minted
  <2>1. UNCHANGED <<registered, stored, pc, bundle, at, minted>>
    BY <1>12 DEF SocketEvent, Quietly, client, screen, storage, locals, histories
  <2> QED
    BY <2>1
<1>13. ASSUME NEW m \in Mounts, NEW h \in Rotations, RotateKeys(m, h)
      PROVE  Gains(k, e) /\ minted' >= minted
  <2>1. /\ h \in Tasks /\ NoPair \in [key : Nat, epoch : Nat] /\ NoPair.key = 0
        /\ Head(inbox[m]) \in Nat
    BY <1>13, HeadOf DEF RotateKeys, Take, NoPair
  <2>2. /\ pc'[h] = "make" /\ stored' = NoPair
        /\ \A u \in Tasks \ {h} : pc'[u] = pc[u] /\ bundle'[u] = bundle[u] /\ at'[u] = at[u]
    BY <1>13, <2>1, SetupMoves DEF RotateKeys
  <2>3. UNCHANGED <<registered, minted>>
    BY <1>13 DEF RotateKeys
  <2>4. HasEpoch(k, e)' => HasEpoch(k, e)
    <3>1. CASE <<k, e>> \in registered'
      BY <2>3, <3>1
    <3>2. ~(k # 0 /\ stored'.key = k /\ stored'.epoch = e)
      BY <2>1, <2>2
    <3>3. ASSUME NEW u \in Mounts \cup Rotations,
                 pc'[u] \in {"import", "register"}, bundle'[u] = k, at'[u] = e
          PROVE  HasEpoch(k, e)
      BY <2>2, <3>3
    <3> QED
      BY <3>1, <3>2, <3>3
  <2> QED
    BY <2>3, <2>4
<1>14. ASSUME Unmount PROVE Gains(k, e) /\ minted' >= minted
  BY <1>14 DEF Unmount, CleanUp, Close, Current, Alive, connVars, server, client,
       screen, storage, locals, histories
<1>15. ASSUME LeaveRoom PROVE Gains(k, e) /\ minted' >= minted
  BY <1>15 DEF LeaveRoom, CleanUp, Close, Current, Alive, NoPair, Nobody, connVars,
       server, client, screen, storage, locals, histories
<1>16. ASSUME NEW t \in Mounts \cup Rotations, Imported(t)
      PROVE  Gains(k, e) /\ minted' >= minted
  BY <1>16 DEF Imported, Goto, connVars, server, client, screen, storage, locals,
       histories
<1>17. ASSUME NEW t \in Mounts \cup Rotations, Made(t) PROVE Gains(k, e) /\ minted' >= minted
  <2>1. /\ minted' = minted + 1 /\ UNCHANGED <<registered, at>>
        /\ pc[t] = "make" /\ pc' = [pc EXCEPT ![t] = "register"]
        /\ bundle' = [bundle EXCEPT ![t] = minted + 1]
        /\ stored' = [key |-> minted + 1, epoch |-> at[t]]
    BY <1>17 DEF Made, Goto
  <2>2. ASSUME HasEpoch(k, e)', ~HasEpoch(k, e) PROVE k = minted + 1 /\ e = at[t]
    BY <2>1, <2>2
  <2> QED
    BY <2>1, <2>2
<1>18. ASSUME NEW t \in Mounts \cup Rotations, Register(t)
      PROVE  Gains(k, e) /\ minted' >= minted
  <2>1. /\ stored' = stored /\ minted' = minted /\ pc[t] = "register"
        /\ registered' \subseteq registered \cup {<<bundle[t], at[t]>>}
        /\ pc'[t] \notin {"import", "register"}
        /\ \A u \in Mounts \cup Rotations :
              u # t => pc'[u] = pc[u] /\ at'[u] = at[u] /\ bundle'[u] = bundle[u]
    BY <1>18 DEF Register, Goto, client, screen, storage, histories
  <2>2. ASSUME HasEpoch(k, e)' PROVE HasEpoch(k, e)
    BY <2>1, <2>2
  <2> QED
    BY <2>1, <2>2
<1>19. ASSUME NEW t \in Tasks, Fetch(t) PROVE Gains(k, e) /\ minted' >= minted
  BY <1>19 DEF Fetch, Goto, connVars, server, client, screen, storage, locals,
       histories
<1>20. ASSUME NEW t \in Tasks, Apply(t) PROVE Gains(k, e) /\ minted' >= minted
  BY <1>20 DEF Apply, Goto, Nobody, connVars, server, client, screen, storage,
       locals, histories
<1>21. ASSUME NEW t \in Tasks, Fail(t) PROVE Gains(k, e) /\ minted' >= minted
  BY <1>21 DEF Fail, Forget, Nobody, connVars, server, client, screen, storage,
       locals, histories
<1>22. ASSUME NEW l \in Loads, LoadPeers(l) PROVE Gains(k, e) /\ minted' >= minted
  BY <1>22 DEF LoadPeers, Goto, connVars, server, client, screen, storage, locals,
       histories
<1>23. ASSUME SendMessage PROVE Gains(k, e) /\ minted' >= minted
  <2>1. \A u \in Tasks \ {Send} :
           pc'[u] = pc[u] /\ bundle'[u] = bundle[u] /\ at'[u] = at[u]
    BY <1>23, CheckElsewhere DEF SendMessage, Goto
  <2>2. UNCHANGED <<registered, stored, minted>>
    BY <1>23 DEF SendMessage, storage, histories
  <2>3. \A u \in Mounts \cup Rotations :
           pc'[u] = pc[u] /\ bundle'[u] = bundle[u] /\ at'[u] = at[u]
    BY <2>1
  <2>4. HasEpoch(k, e)' => HasEpoch(k, e)
    BY <2>2, <2>3
  <2> QED
    BY <2>2, <2>4
<1>24. ASSUME SendLoaded PROVE Gains(k, e) /\ minted' >= minted
  <2>1. \A u \in Tasks \ {Send} :
           pc'[u] = pc[u] /\ bundle'[u] = bundle[u] /\ at'[u] = at[u]
    BY <1>24, CheckElsewhere DEF SendLoaded, Goto
  <2>2. UNCHANGED <<registered, stored, minted>>
    BY <1>24 DEF SendLoaded, storage, histories
  <2>3. \A u \in Mounts \cup Rotations :
           pc'[u] = pc[u] /\ bundle'[u] = bundle[u] /\ at'[u] = at[u]
    BY <2>1
  <2>4. HasEpoch(k, e)' => HasEpoch(k, e)
    BY <2>2, <2>3
  <2> QED
    BY <2>2, <2>4
<1>25. ASSUME Encrypted PROVE Gains(k, e) /\ minted' >= minted
  BY <1>25 DEF Encrypted, Goto, Forget, Nobody, connVars, server, client, screen,
       storage, locals, histories
<1>26. ASSUME NEW t \in Mounts \cup Rotations, NotImported(t)
      PROVE  Gains(k, e) /\ minted' >= minted
  <2>1. /\ minted' = minted /\ registered' = registered /\ at' = at
        /\ stored'.key = 0 /\ pc'[t] = "make"
        /\ \A u \in Mounts \cup Rotations :
              u # t => pc'[u] = pc[u] /\ bundle'[u] = bundle[u]
    BY <1>26 DEF NotImported, Goto, NoPair, histories
  <2>2. HasEpoch(k, e)' => HasEpoch(k, e)
    BY <2>1
  <2> QED
    BY <2>1, <2>2
<1> QED
  BY <1>0, <1>1, <1>2, <1>3, <1>4, <1>5, <1>6, <1>7, <1>8, <1>9, <1>10, <1>11,
       <1>12, <1>13, <1>14, <1>15, <1>16, <1>17, <1>18, <1>19, <1>20, <1>21, <1>22,
       <1>23, <1>24, <1>25, <1>26 DEF Next, Setup

\* What PairStep says of one pair, for all of them.
LEMMA PairNext ==
    ASSUME TypeOK, PairInv, [Next]_vars
    PROVE  PairInv'
<1>1. \A k, e \in Nat : Gains(k, e) /\ minted' >= minted
  BY PairStep
<1>2. minted \in Nat /\ minted' \in Nat
  BY TypeNext DEF TypeOK
<1>3. ASSUME NEW k \in Nat, NEW e \in Nat, HasEpoch(k, e)'
      PROVE  k <= minted'
  <2>a. Gains(k, e)
    BY <1>1
  <2>1. HasEpoch(k, e) \/ (k = minted + 1 /\ minted' = minted + 1)
    BY <2>a, <1>3 DEF Gains
  <2>2. CASE HasEpoch(k, e)
    <3>1. k <= minted
      BY <2>2 DEF PairInv
    <3> QED
      BY <1>1, <1>2, <3>1
  <2> QED
    BY <1>2, <2>1, <2>2
<1>4. ASSUME NEW k \in Nat, NEW d \in Nat, NEW e \in Nat, HasEpoch(k, d)', HasEpoch(k, e)'
      PROVE  d = e
  <2>a. Gains(k, d) /\ Gains(k, e)
    BY <1>1
  <2>1. /\ HasEpoch(k, d) \/ (k = minted + 1 /\ d = stored'.epoch)
        /\ HasEpoch(k, e) \/ (k = minted + 1 /\ e = stored'.epoch)
    BY <2>a, <1>4 DEF Gains
  <2>2. HasEpoch(k, d) \/ HasEpoch(k, e) => k # minted + 1
    <3>1. HasEpoch(k, d) \/ HasEpoch(k, e) => k <= minted
      BY DEF PairInv
    <3> QED
      BY <1>2, <3>1
  <2>3. HasEpoch(k, d) /\ HasEpoch(k, e) => d = e
    BY DEF PairInv
  <2> QED
    BY <2>1, <2>2, <2>3
<1> QED
  BY <1>3, <1>4 DEF PairInv

\* No two epochs are registered for a pair.
LEMMA PairUnique == TypeOK /\ PairInv => KeyOfOneEpoch
<1> SUFFICES ASSUME TypeOK, PairInv, NEW a \in registered, NEW b \in registered, a[1] = b[1]
             PROVE  a[2] = b[2]
  BY DEF KeyOfOneEpoch
<1>1. /\ a[1] \in Nat /\ a[2] \in Nat /\ b[2] \in Nat
      /\ a = <<a[1], a[2]>> /\ b = <<b[1], b[2]>>
  BY DEF TypeOK
<1>2. HasEpoch(a[1], a[2]) /\ HasEpoch(a[1], b[2])
  BY <1>1 DEF HasEpoch
<1> QED
  BY <1>1, <1>2 DEF PairInv

-----------------------------------------------------------------------------
(* Keys of the epoch shown *)

Setters == Mounts \cup Rotations
Preparing(t) == pc[t] \in {"make", "import"}
Prepared(t) == pc[t] \in {"register", "fetch", "apply", "history"}

\* Until two of them overlap, one coroutine at most sets up keys: it prepares a
\* pair for the epoch that is shown, or has taken it into use.  Before it does,
\* the effect has closed the connection, so a connection that is not closed has a
\* pair of the epoch shown, or a rotation prepares one or has failed to.
MatchInv ==
    ~overlapped =>
        /\ \A s, t \in Setters : Busy(s) /\ Busy(t) => s = t
        /\ \A t \in Setters : Preparing(t) => at[t] = epoch
        /\ \A t \in Setters : Prepared(t) => keysEpoch = epoch
        /\ ref # NoOne /\ ~closed[ref] /\ ~unmade /\ (\A t \in Setters : ~Preparing(t))
              => keysEpoch = epoch

\* A step of another coroutine, of the server, of the user or of a socket.
LEMMA MatchFrame ==
    ASSUME MatchInv,
           UNCHANGED <<epoch, keysEpoch, ref, overlapped, unmade>>,
           ref # NoOne /\ ~closed'[ref] => ~closed[ref],
           \A t \in Setters : pc'[t] = pc[t] /\ at'[t] = at[t]
    PROVE  MatchInv'
BY DEF MatchInv, Busy, Setters, Preparing, Prepared

\* A coroutine that has its pair goes on, or any that has none in preparation
\* stops.
LEMMA MatchMove ==
    ASSUME MatchInv, NEW t \in Setters,
           UNCHANGED <<epoch, keysEpoch, overlapped, unmade, closed>>,
           Prepared(t) \/ pc[t] = "room",
           pc'[t] \in {"done", "idle"} \/ (Prepared(t) /\ Prepared(t)'),
           ref' = ref \/ Prepared(t),
           \A u \in Setters \ {t} : pc'[u] = pc[u] /\ at'[u] = at[u]
    PROVE  MatchInv'
<1> SUFFICES ASSUME ~overlapped PROVE MatchInv'
  BY DEF MatchInv
<1>1. \A s \in Setters : Busy(s)' => Busy(s)
  BY DEF Busy, Setters, Prepared, Setting
<1>2. \A s \in Setters : Preparing(s)' => s # t /\ Preparing(s)
  BY DEF Preparing, Prepared
<1>3. \A s \in Setters : Prepared(s)' => Prepared(s)
  BY DEF Prepared
<1>4. (\A s \in Setters : ~Preparing(s)') => \A s \in Setters : ~Preparing(s)
  BY DEF Preparing, Prepared
<1> QED
  BY <1>1, <1>2, <1>3, <1>4 DEF MatchInv

\* A coroutine that is alone begins to prepare a pair, for the epoch it shows.
LEMMA MatchBegin ==
    ASSUME MatchInv, NEW t \in Setters, NEW e,
           ~overlapped' => ~overlapped /\ \A u \in Setters \ {t} : ~Busy(u),
           epoch' = e /\ at'[t] = e /\ Preparing(t)',
           \A u \in Setters \ {t} : pc'[u] = pc[u]
    PROVE  MatchInv'
<1> SUFFICES ASSUME ~overlapped' PROVE MatchInv'
  BY DEF MatchInv
<1>1. \A u \in Setters \ {t} : ~Busy(u)'
  BY DEF Busy
<1>2. \A u \in Setters : Preparing(u)' \/ Prepared(u)' => Busy(u)'
  BY DEF Preparing, Prepared, Busy, Setters, Setting
<1>3. ~Prepared(t)'
  BY DEF Preparing, Prepared
<1> QED
  BY <1>1, <1>2, <1>3 DEF MatchInv

\* A coroutine takes the pair that it has prepared into use.
LEMMA MatchUse ==
    ASSUME MatchInv, NEW t \in Setters,
           Preparing(t), Prepared(t)', keysEpoch' = at[t],
           UNCHANGED <<epoch, overlapped>>,
           \A u \in Setters \ {t} : pc'[u] = pc[u]
    PROVE  MatchInv'
<1> SUFFICES ASSUME ~overlapped PROVE MatchInv'
  BY DEF MatchInv
<1>1. \A u \in Setters \ {t} : ~Busy(u)
  BY DEF MatchInv, Busy, Setters, Preparing, Setting
<1>2. \A u \in Setters \ {t} : ~Busy(u)' /\ ~Preparing(u)' /\ ~Prepared(u)'
  BY <1>1 DEF Busy, Setters, Preparing, Prepared, Setting
<1>3. ~Preparing(t)' /\ keysEpoch' = epoch'
  BY DEF MatchInv, Preparing, Prepared
<1> QED
  BY <1>2, <1>3 DEF MatchInv

\* Cleaning up closes the connection that wsRef names, if it names one.
LEMMA CleanUpCloses ==
    ASSUME TypeOK, CleanUp
    PROVE  /\ \A c \in Conns : closed[c] => closed'[c]
           /\ ref # NoOne => closed'[ref]
<1>1. ref \in Conns \cup {NoOne} /\ closed \in [Conns -> BOOLEAN]
  BY SessionAssumption DEF TypeOK, ConnTypeOK
<1> QED
  BY <1>1 DEF CleanUp, Close, connVars

\* Every step keeps MatchInv.
LEMMA MatchNext ==
    ASSUME TypeOK, MatchInv, [Next]_vars
    PROVE  MatchInv'
<1> USE DEF Setters
<1>a. /\ ref \in Mounts \cup {NoOne} /\ NoOne \notin Mounts /\ Conns = Mounts
      /\ Setters \subseteq Tasks /\ Send \notin Setters /\ Setters \cap Loads = {}
      /\ pc \in [Tasks -> Places] /\ at \in [Tasks -> Nat]
      /\ closed \in [Conns -> BOOLEAN]
  BY SessionAssumption DEF TypeOK, ConnTypeOK, Tasks, Disjoint
<1>b. inbox \in [Mounts -> Seq(Nat)]
  BY DEF TypeOK
<1>0. CASE UNCHANGED vars
  BY <1>0, MatchFrame DEF vars, connVars, client, screen, locals, histories
<1>1. ASSUME Rotate PROVE MatchInv'
  BY <1>1, MatchFrame DEF Rotate, connVars, client, screen, locals, histories
<1>2. ASSUME Withdraw PROVE MatchInv'
  BY <1>2, MatchFrame DEF Withdraw, connVars, client, screen, locals, histories
<1>3. ASSUME NEW p \in Peers, Publish(p) PROVE MatchInv'
  BY <1>3, MatchFrame DEF Publish, connVars, client, screen, locals, histories
<1>4. ASSUME NEW p \in Peers, TrustPeer(p) PROVE MatchInv'
  BY <1>4, MatchFrame DEF TrustPeer, connVars, screen, locals
<1>5. ASSUME NEW p \in Peers, UntrustPeer(p) PROVE MatchInv'
  BY <1>5, MatchFrame DEF UntrustPeer, connVars, screen, locals, histories
<1>6. ASSUME NEW m \in Mounts, NEW e \in 1..serverEpoch, Announce(m, e) PROVE MatchInv'
  BY <1>6, MatchFrame DEF Announce, connVars, client, screen, locals, histories
<1>7. ASSUME NEW m \in Mounts, NEW e \in 1..serverEpoch, Rerun(m, e) PROVE MatchInv'
  <2> SUFFICES ASSUME ~overlapped' PROVE MatchInv'
    BY DEF MatchInv
  <2>1. \A t \in Setters : ~Busy(t)
    BY <1>7, <1>a DEF Rerun, Overlap
  <2>2. \A t \in Setters \ {m} : pc'[t] = pc[t]
    BY <1>7, <1>a DEF Rerun, Goto
  <2>3. pc'[m] = "room"
    BY <1>7, <1>a DEF Rerun, Goto
  <2>4. \A t \in Setters \ {m} : ~Busy(t)'
    BY <2>1, <2>2 DEF Busy
  <2>5. \A t \in Setters : ~Preparing(t)' /\ ~Prepared(t)'
    BY <2>3, <2>4 DEF Busy, Preparing, Prepared, Setting
  <2>6. ref' = ref /\ (ref # NoOne => closed'[ref])
    BY <1>7, CleanUpCloses DEF Rerun
  <2> QED
    BY <2>4, <2>5, <2>6 DEF MatchInv
<1>8. ASSUME NEW m \in Mounts, ReadRoom(m) PROVE MatchInv'
  <2>1. m \in Tasks /\ serverEpoch \in Nat /\ stored \in [key : Nat, epoch : Nat]
    BY <1>a DEF TypeOK
  <2>2. /\ at'[m] = serverEpoch /\ Preparing(m)' /\ epoch' = serverEpoch
        /\ \A u \in Tasks \ {m} : pc'[u] = pc[u]
    BY <1>8, <2>1, SetupMoves DEF ReadRoom, Preparing
  <2>3. overlapped' = overlapped /\ Busy(m)
    BY <1>8 DEF ReadRoom, histories, Busy, Setting
  <2>4. ~overlapped => \A u \in Setters \ {m} : ~Busy(u)
    BY <2>3 DEF MatchInv
  <2> QED
    BY <1>a, <2>2, <2>3, <2>4, MatchBegin
<1>9. ASSUME NEW m \in Mounts, Stop(m) PROVE MatchInv'
  <2>1. pc[m] = "room" /\ pc'[m] = "done" /\ \A u \in Setters \ {m} : pc'[u] = pc[u]
    BY <1>9, <1>a DEF Stop, Goto
  <2>2. UNCHANGED <<epoch, keysEpoch, overlapped, unmade, closed, ref, at>>
    BY <1>9 DEF Stop, connVars, screen, locals, histories
  <2> QED
    BY <2>1, <2>2, MatchMove
<1>10. ASSUME NEW m \in Mounts, LoadHistory(m) PROVE MatchInv'
  <2>1. pc[m] = "history" /\ pc'[m] = "done" /\ \A u \in Setters \ {m} : pc'[u] = pc[u]
    BY <1>10, <1>a DEF LoadHistory, Goto
  <2>2. UNCHANGED <<epoch, keysEpoch, overlapped, unmade, closed, at>>
    BY <1>10 DEF LoadHistory, Connect, locals, histories
  <2> QED
    BY <2>1, <2>2, MatchMove DEF Prepared
<1>11. ASSUME NEW m \in Mounts, Ignore(m) PROVE MatchInv'
  BY <1>11, MatchFrame DEF Ignore, connVars, client, screen, locals, histories
<1>12. ASSUME NEW m \in Mounts, SocketEvent(m) PROVE MatchInv'
  <2>1. closed' = closed
    BY <1>12 DEF SocketEvent, Opened, Lost, Due
  <2>2. UNCHANGED client
    BY <1>12 DEF SocketEvent, Quietly
  <2> QED
    BY <2>1, <2>2, MatchFrame DEF client, screen, locals, histories
<1>13. ASSUME NEW m \in Mounts, NEW h \in Rotations, RotateKeys(m, h) PROVE MatchInv'
  <2>1. h \in Tasks /\ NoPair \in [key : Nat, epoch : Nat] /\ Head(inbox[m]) \in Nat
    BY <1>13, <1>a, <1>b, HeadOf DEF RotateKeys, Take, NoPair
  <2>2. /\ at'[h] = Head(inbox[m]) /\ Preparing(h)' /\ epoch' = Head(inbox[m])
        /\ \A u \in Tasks \ {h} : pc'[u] = pc[u]
    BY <1>13, <2>1, SetupMoves DEF RotateKeys, Preparing
  <2>3. ~overlapped' => ~overlapped /\ \A u \in Setters : ~Busy(u)
    BY <1>13, <1>a DEF RotateKeys, Overlap
  <2> QED
    BY <1>a, <2>2, <2>3, MatchBegin
<1>14. ASSUME Unmount PROVE MatchInv'
  <2>1. UNCHANGED <<epoch, keysEpoch, ref, overlapped, unmade, pc, at>>
    BY <1>14 DEF Unmount, locals, histories
  <2>2. ref # NoOne => closed'[ref]
    BY <1>14, CleanUpCloses DEF Unmount
  <2> QED
    BY <2>1, <2>2, MatchFrame
<1>15. ASSUME LeaveRoom PROVE MatchInv'
  <2>1. UNCHANGED <<epoch, keysEpoch, ref, overlapped, unmade, pc, at>>
    BY <1>15 DEF LeaveRoom, locals, histories
  <2>2. ref # NoOne => closed'[ref]
    BY <1>15, CleanUpCloses DEF LeaveRoom
  <2> QED
    BY <2>1, <2>2, MatchFrame
<1>16. ASSUME NEW t \in Mounts \cup Rotations, Imported(t) PROVE MatchInv'
  <2>1. Preparing(t) /\ Prepared(t)' /\ \A u \in Setters \ {t} : pc'[u] = pc[u]
    BY <1>16, <1>a DEF Imported, Goto, Preparing, Prepared
  <2>2. keysEpoch' = at[t] /\ UNCHANGED <<epoch, overlapped>>
    BY <1>16 DEF Imported
  <2> QED
    BY <2>1, <2>2, MatchUse
<1>17. ASSUME NEW t \in Mounts \cup Rotations, Made(t) PROVE MatchInv'
  <2>1. Preparing(t) /\ Prepared(t)' /\ \A u \in Setters \ {t} : pc'[u] = pc[u]
    BY <1>17, <1>a DEF Made, Goto, Preparing, Prepared
  <2>2. keysEpoch' = at[t] /\ UNCHANGED <<epoch, overlapped>>
    BY <1>17 DEF Made
  <2> QED
    BY <2>1, <2>2, MatchUse
<1>18. ASSUME NEW t \in Mounts \cup Rotations, Register(t) PROVE MatchInv'
  <2>1. /\ pc[t] = "register" /\ pc'[t] \in {"fetch", "done", "idle"}
        /\ \A u \in Setters \ {t} : pc'[u] = pc[u] /\ at'[u] = at[u]
    BY <1>18, <1>a DEF Register, Goto
  <2>2. UNCHANGED <<epoch, keysEpoch, overlapped, unmade, closed, ref>>
    BY <1>18 DEF Register, connVars, screen
  <2> QED
    BY <2>1, <2>2, MatchMove DEF Prepared
<1>19. ASSUME NEW t \in Tasks, Fetch(t) PROVE MatchInv'
  <2>1. /\ pc[t] = "fetch" /\ pc'[t] = "apply" /\ \A u \in Tasks \ {t} : pc'[u] = pc[u]
    BY <1>19, <1>a DEF Fetch, Goto
  <2>2. UNCHANGED <<epoch, keysEpoch, overlapped, unmade, closed, ref, at>>
    BY <1>19 DEF Fetch, connVars, screen, histories
  <2>3. CASE t \in Setters
    BY <1>a, <2>1, <2>2, <2>3, MatchMove DEF Prepared
  <2>4. CASE t \notin Setters
    BY <1>a, <2>1, <2>2, <2>4, MatchFrame
  <2> QED
    BY <2>3, <2>4
<1>20. ASSUME NEW t \in Tasks, Apply(t) PROVE MatchInv'
  <2>1. /\ pc[t] = "apply" /\ pc'[t] \in {"history", "done", "idle"}
        /\ \A u \in Tasks \ {t} : pc'[u] = pc[u]
    BY <1>20, <1>a DEF Apply, Goto
  <2>2. UNCHANGED <<epoch, keysEpoch, overlapped, unmade, closed, ref, at>>
    BY <1>20 DEF Apply, connVars, histories
  <2>3. CASE t \in Setters
    BY <1>a, <2>1, <2>2, <2>3, MatchMove DEF Prepared
  <2>4. CASE t \notin Setters
    BY <1>a, <2>1, <2>2, <2>4, MatchFrame
  <2> QED
    BY <2>3, <2>4
<1>21. ASSUME NEW t \in Tasks, Fail(t) PROVE MatchInv'
  <2>1. /\ pc[t] \in {"room", "make", "register", "fetch", "apply", "history"}
        /\ pc'[t] \in {"done", "idle"}
        /\ \A u \in Tasks \ {t} : pc'[u] = pc[u] /\ at'[u] = at[u]
    BY <1>21, <1>a DEF Fail, Forget
  <2>2. UNCHANGED <<epoch, keysEpoch, overlapped, closed, ref>>
    BY <1>21 DEF Fail, connVars, screen
  <2>3. IF pc[t] = "make" THEN unmade' ELSE unmade' = unmade
    BY <1>21 DEF Fail, TypeOK
  <2>4. CASE pc[t] = "make" /\ t \in Setters
    <3>1. \A u \in Setters : Busy(u)' => Busy(u)
      BY <1>a, <2>1 DEF Busy, Setting
    <3>2. \A u \in Setters : (Preparing(u)' => Preparing(u)) /\ (Prepared(u)' => Prepared(u))
      BY <1>a, <2>1 DEF Preparing, Prepared
    <3>3. \A u \in Setters : Preparing(u)' => at'[u] = at[u]
      BY <1>a, <2>1 DEF Preparing
    <3> QED
      BY <2>2, <2>3, <2>4, <3>1, <3>2, <3>3 DEF MatchInv
  <2>5. CASE pc[t] # "make" /\ t \in Setters
    BY <1>a, <2>1, <2>2, <2>3, <2>5, MatchMove DEF Prepared
  <2>6. CASE t \notin Setters
    <3>1. \A u \in Setters : Busy(u)' = Busy(u) /\ Preparing(u)' = Preparing(u)
                            /\ Prepared(u)' = Prepared(u) /\ at'[u] = at[u]
      BY <1>a, <2>1, <2>6 DEF Busy, Preparing, Prepared
    <3>2. ~unmade' => ~unmade
      BY <2>3
    <3> QED
      BY <2>2, <3>1, <3>2 DEF MatchInv
  <2> QED
    BY <2>4, <2>5, <2>6
<1>22. ASSUME NEW l \in Loads, LoadPeers(l) PROVE MatchInv'
  <2>1. \A u \in Setters : pc'[u] = pc[u]
    BY <1>22, <1>a DEF LoadPeers, Goto
  <2> QED
    BY <1>22, <2>1, MatchFrame DEF LoadPeers, connVars, screen, locals, histories
<1>23. ASSUME SendMessage PROVE MatchInv'
  <2>1. \A u \in Setters : pc'[u] = pc[u] /\ at'[u] = at[u]
    BY <1>23, <1>a, CheckElsewhere DEF SendMessage, Goto
  <2> QED
    BY <1>23, <2>1, MatchFrame DEF SendMessage, connVars, screen, histories
<1>24. ASSUME SendLoaded PROVE MatchInv'
  <2>1. \A u \in Setters : pc'[u] = pc[u] /\ at'[u] = at[u]
    BY <1>24, <1>a, CheckElsewhere DEF SendLoaded
  <2> QED
    BY <1>24, <2>1, MatchFrame DEF SendLoaded, connVars, histories
<1>25. ASSUME Encrypted PROVE MatchInv'
  <2>1. \A u \in Setters : pc'[u] = pc[u] /\ at'[u] = at[u]
    BY <1>25, <1>a DEF Encrypted, Goto, Forget
  <2> QED
    BY <1>25, <2>1, MatchFrame DEF Encrypted, connVars, screen, histories
<1>26. ASSUME NEW t \in Mounts \cup Rotations, NotImported(t) PROVE MatchInv'
  <2>1. /\ pc[t] = "import" /\ pc'[t] = "make"
        /\ \A u \in Setters \ {t} : pc'[u] = pc[u]
    BY <1>26, <1>a DEF NotImported, Goto
  <2>2. UNCHANGED <<epoch, keysEpoch, overlapped, unmade, closed, ref, at>>
    BY <1>26 DEF NotImported, connVars, screen, histories
  <2>3. \A u \in Setters : (Busy(u)' <=> Busy(u)) /\ (Preparing(u)' <=> Preparing(u))
                              /\ (Prepared(u)' <=> Prepared(u))
    BY <2>1 DEF Busy, Preparing, Prepared, Setting
  <2> QED
    BY <2>2, <2>3 DEF MatchInv
<1> QED
  BY <1>0, <1>1, <1>2, <1>3, <1>4, <1>5, <1>6, <1>7, <1>8, <1>9, <1>10, <1>11,
       <1>12, <1>13, <1>14, <1>15, <1>16, <1>17, <1>18, <1>19, <1>20, <1>21, <1>22,
       <1>23, <1>24, <1>25, <1>26 DEF Next, Setup

-----------------------------------------------------------------------------
(* The connection that wsRef names *)

Unclosed(c) == sock[c] # "none" /\ ~closed[c]

\* A run of the effect on its way to a connection finds the last one closed.
LoneInv ==
    ~overlapped =>
        /\ \A c \in Conns : Unclosed(c) => c = ref
        /\ \A m \in Mounts : pc[m] \in Setting => ref = NoOne \/ closed[ref]

\* A step in which no run begins, or comes to its connection.
LEMMA LoneFrame ==
    ASSUME LoneInv, ref \in Conns \cup {NoOne},
           UNCHANGED <<ref, overlapped>>,
           \A c \in Conns : Unclosed(c)' => Unclosed(c),
           \A c \in Conns : closed[c] => closed'[c],
           \A m \in Mounts : pc'[m] \in Setting => pc[m] \in Setting
    PROVE  LoneInv'
BY DEF LoneInv

\* A step that leaves the connections alone.
LEMMA LoneQuiet ==
    ASSUME LoneInv, ref \in Conns \cup {NoOne},
           UNCHANGED connVars, UNCHANGED <<ref, overlapped>>,
           \A m \in Mounts : pc'[m] \in Setting => pc[m] \in Setting
    PROVE  LoneInv'
BY LoneFrame DEF connVars, Unclosed

\* Cleaning up makes no connection.
LEMMA CleanUpOpensNone ==
    ASSUME TypeOK, CleanUp, NEW c \in Conns, Unclosed(c)'
    PROVE  Unclosed(c)
<1>1. ref \in Conns \cup {NoOne}
  BY SessionAssumption DEF TypeOK
<1> QED
  BY <1>1 DEF TypeOK, ConnTypeOK, CleanUp, Close, Alive, Unclosed, connVars

\* Every step keeps LoneInv.
LEMMA LoneNext ==
    ASSUME TypeOK, ConnInv, MatchInv, LoneInv, [Next]_vars
    PROVE  LoneInv'
<1>a. /\ ref \in Conns \cup {NoOne} /\ NoOne \notin Mounts /\ Conns = Mounts
      /\ Mounts \subseteq Tasks /\ Send \notin Mounts
      /\ Mounts \cap Loads = {} /\ Mounts \cap Rotations = {}
      /\ pc \in [Tasks -> Places]
  BY SessionAssumption DEF TypeOK, Tasks, Disjoint
<1>0. CASE UNCHANGED vars
  BY <1>0, <1>a, LoneQuiet DEF vars, client, screen, histories
<1>1. ASSUME Rotate PROVE LoneInv'
  BY <1>1, <1>a, LoneQuiet DEF Rotate, client, screen, histories
<1>2. ASSUME Withdraw PROVE LoneInv'
  BY <1>2, <1>a, LoneQuiet DEF Withdraw, client, screen, histories
<1>3. ASSUME NEW p \in Peers, Publish(p) PROVE LoneInv'
  BY <1>3, <1>a, LoneQuiet DEF Publish, client, screen, histories
<1>4. ASSUME NEW p \in Peers, TrustPeer(p) PROVE LoneInv'
  BY <1>4, <1>a, LoneQuiet DEF TrustPeer, screen
<1>5. ASSUME NEW p \in Peers, UntrustPeer(p) PROVE LoneInv'
  BY <1>5, <1>a, LoneQuiet DEF UntrustPeer, screen, histories
<1>6. ASSUME NEW m \in Mounts, NEW e \in 1..serverEpoch, Announce(m, e) PROVE LoneInv'
  BY <1>6, <1>a, LoneQuiet DEF Announce, client, screen, histories
<1>7. ASSUME NEW m \in Mounts, NEW e \in 1..serverEpoch, Rerun(m, e) PROVE LoneInv'
  <2>1. /\ \A c \in Conns : Unclosed(c)' => Unclosed(c)
        /\ ref' = ref /\ (ref # NoOne => closed'[ref])
    BY <1>7, CleanUpCloses, CleanUpOpensNone DEF Rerun
  <2>2. ~overlapped' => ~overlapped
    BY <1>7 DEF Rerun, Overlap
  <2> QED
    BY <2>1, <2>2 DEF LoneInv
<1>8. ASSUME NEW m \in Mounts, ReadRoom(m) PROVE LoneInv'
  <2>1. m \in Tasks /\ serverEpoch \in Nat /\ stored \in [key : Nat, epoch : Nat]
    BY <1>a DEF TypeOK
  <2>2. pc[m] = "room" /\ \A u \in Tasks \ {m} : pc'[u] = pc[u]
    BY <1>8, <2>1, SetupMoves DEF ReadRoom
  <2> QED
    BY <1>8, <1>a, <2>2, LoneQuiet DEF ReadRoom, histories, Setting
<1>9. ASSUME NEW m \in Mounts, Stop(m) PROVE LoneInv'
  BY <1>9, <1>a, LoneQuiet DEF Stop, Goto, Setting, screen, histories
<1>10. ASSUME NEW m \in Mounts, LoadHistory(m) PROVE LoneInv'
  <2> SUFFICES ASSUME ~overlapped PROVE LoneInv'
    BY <1>10 DEF LoneInv, LoadHistory, histories
  <2>1. /\ pc[m] = "history" /\ pc' = [pc EXCEPT ![m] = "done"]
        /\ ref' = m /\ closed' = closed /\ \A c \in Conns \ {m} : sock'[c] = sock[c]
    BY <1>10 DEF LoadHistory, Goto, Connect
  <2>2. ref = NoOne \/ closed[ref]
    BY <2>1 DEF LoneInv, Setting
  <2>3. \A c \in Conns : ~Unclosed(c)
    BY <1>a, <2>2 DEF LoneInv, Unclosed
  <2>4. \A n \in Mounts \ {m} : pc[n] \notin Setting
    BY <2>1 DEF MatchInv, Busy, Setters, Setting
  <2>5. \A n \in Mounts : pc'[n] \notin Setting
    BY <1>a, <2>1, <2>4 DEF Setting
  <2> QED
    BY <2>1, <2>3, <2>5 DEF LoneInv, Unclosed
<1>11. ASSUME NEW m \in Mounts, Ignore(m) PROVE LoneInv'
  BY <1>11, <1>a, LoneQuiet DEF Ignore, client, screen, histories
<1>12. ASSUME NEW m \in Mounts, SocketEvent(m) PROVE LoneInv'
  <2>1. UNCHANGED <<ref, overlapped, pc>>
    BY <1>12 DEF SocketEvent, Quietly, client, screen, histories
  <2>2. sock[m] # "none" /\ closed' = closed /\ \A c \in Conns \ {m} : sock'[c] = sock[c]
    BY <1>12, <1>a DEF SocketEvent, Opened, Lost, Due, Alive, ConnInv, TypeOK, ConnTypeOK
  <2> QED
    BY <1>a, <2>1, <2>2, LoneFrame DEF Unclosed
<1>13. ASSUME NEW m \in Mounts, NEW h \in Rotations, RotateKeys(m, h) PROVE LoneInv'
  <2> SUFFICES ASSUME ~overlapped' PROVE LoneInv'
    BY DEF LoneInv
  <2>1. h \in Tasks /\ NoPair \in [key : Nat, epoch : Nat] /\ Head(inbox[m]) \in Nat
    BY <1>13, HeadOf DEF RotateKeys, Take, NoPair, TypeOK, Tasks
  <2>2. \A u \in Mounts : pc'[u] = pc[u]
    BY <1>13, <1>a, <2>1, SetupMoves DEF RotateKeys
  <2>3. overlapped' = overlapped
    BY <1>13 DEF RotateKeys, Overlap, Busy, TypeOK
  <2> QED
    BY <1>13, <1>a, <2>2, <2>3, LoneQuiet DEF RotateKeys
<1>14. ASSUME Unmount PROVE LoneInv'
  <2>1. UNCHANGED <<ref, overlapped, pc>>
    BY <1>14 DEF Unmount, histories
  <2> QED
    BY <1>14, <1>a, <2>1, CleanUpCloses, CleanUpOpensNone, LoneFrame DEF Unmount
<1>15. ASSUME LeaveRoom PROVE LoneInv'
  <2>1. UNCHANGED <<ref, overlapped, pc>>
    BY <1>15 DEF LeaveRoom, histories
  <2> QED
    BY <1>15, <1>a, <2>1, CleanUpCloses, CleanUpOpensNone, LoneFrame DEF LeaveRoom
<1>16. ASSUME NEW t \in Mounts \cup Rotations, Imported(t) PROVE LoneInv'
  BY <1>16, <1>a, LoneQuiet DEF Imported, Goto, Setting
<1>17. ASSUME NEW t \in Mounts \cup Rotations, Made(t) PROVE LoneInv'
  BY <1>17, <1>a, LoneQuiet DEF Made, Goto, Setting
<1>18. ASSUME NEW t \in Mounts \cup Rotations, Register(t) PROVE LoneInv'
  BY <1>18, <1>a, LoneQuiet DEF Register, Goto, Setting, screen
<1>19. ASSUME NEW t \in Tasks, Fetch(t) PROVE LoneInv'
  BY <1>19, <1>a, LoneQuiet DEF Fetch, Goto, Setting, screen, histories
<1>20. ASSUME NEW t \in Tasks, Apply(t) PROVE LoneInv'
  BY <1>20, <1>a, LoneQuiet DEF Apply, Goto, Setting, histories
<1>21. ASSUME NEW t \in Tasks, Fail(t) PROVE LoneInv'
  BY <1>21, <1>a, LoneQuiet DEF Fail, Setting, screen, histories
<1>22. ASSUME NEW l \in Loads, LoadPeers(l) PROVE LoneInv'
  BY <1>22, <1>a, LoneQuiet DEF LoadPeers, Goto, screen, histories
<1>23. ASSUME SendMessage PROVE LoneInv'
  <2>1. \A u \in Mounts : pc'[u] = pc[u]
    BY <1>23, <1>a, CheckElsewhere DEF SendMessage, Goto
  <2> QED
    BY <1>23, <1>a, <2>1, LoneQuiet DEF SendMessage, screen, histories
<1>24. ASSUME SendLoaded PROVE LoneInv'
  <2>1. \A u \in Mounts : pc'[u] = pc[u]
    BY <1>24, <1>a, CheckElsewhere DEF SendLoaded
  <2> QED
    BY <1>24, <1>a, <2>1, LoneQuiet DEF SendLoaded, histories
<1>25. ASSUME Encrypted PROVE LoneInv'
  BY <1>25, <1>a, LoneQuiet DEF Encrypted, Goto, screen, histories
<1>26. ASSUME NEW t \in Mounts \cup Rotations, NotImported(t) PROVE LoneInv'
  BY <1>26, <1>a, LoneQuiet DEF NotImported, Goto, Setting, screen, histories
<1> QED
  BY <1>0, <1>1, <1>2, <1>3, <1>4, <1>5, <1>6, <1>7, <1>8, <1>9, <1>10, <1>11,
       <1>12, <1>13, <1>14, <1>15, <1>16, <1>17, <1>18, <1>19, <1>20, <1>21, <1>22,
       <1>23, <1>24, <1>25, <1>26 DEF Next, Setup

-----------------------------------------------------------------------------
(* The theorems *)

\* The invariant of the session that is inductive.
SessionInv == TypeOK /\ TrustInv /\ ConnInv /\ KeysInv /\ PairInv /\ MatchInv /\ LoneInv

\* The visit starts in SessionInv.
LEMMA SessionInit == Init => SessionInv
<1> SUFFICES ASSUME Init PROVE SessionInv
  OBVIOUS
<1> USE SessionAssumption
<1>1. TypeOK
  BY TypeInit
<1>2. TrustInv
  BY DEF Init, Nobody, TrustInv
<1>3. ConnInv
  <2>1. \A c \in Conns : sock[c] = "none" /\ revived[c] = 0 /\ ~timer[c]
    BY DEF Init, ConnInit
  <2> QED
    BY <2>1 DEF ConnInv, NeverStranded
<1>4. KeysInv
  <2>1. \A t \in Tasks : pc[t] \in {"idle", "room"}
    BY DEF Init
  <2>2. \A m \in Mounts : m \in Tasks /\ sock[m] = "none"
    BY DEF Init, ConnInit, Tasks
  <2> QED
    BY <2>1, <2>2 DEF KeysInv, ImportHasPair, SocketHasKeys, Tasks
<1>5. PairInv
  <2>1. \A t \in Tasks : pc[t] \in {"idle", "room"}
    BY DEF Init
  <2>2. ASSUME NEW k \in Nat, NEW e \in Nat, HasEpoch(k, e)
        PROVE  minted = 1 /\ k = 1 /\ e = 1
    <3>1. \A t \in Mounts \cup Rotations : pc[t] \notin {"import", "register"}
      BY <2>1 DEF Tasks
    <3>2. <<k, e>> \in registered \/ (k # 0 /\ stored.key = k /\ stored.epoch = e)
      BY <2>2, <3>1 DEF HasEpoch
    <3> QED
      BY <3>2 DEF Init, NoPair
  <2> QED
    BY <2>2 DEF PairInv
<1>6. MatchInv
  <2>1. \A t \in Setters : pc[t] = (IF t = First THEN "room" ELSE "idle")
    BY DEF Init, Setters, Tasks
  <2> QED
    BY <2>1 DEF Init, MatchInv, Busy, Setting, Preparing, Prepared
<1>7. LoneInv
  BY DEF Init, ConnInit, LoneInv, Unclosed
<1> QED
  BY <1>1, <1>2, <1>3, <1>4, <1>5, <1>6, <1>7 DEF SessionInv

\* Every step keeps SessionInv.
LEMMA SessionNext ==
    ASSUME SessionInv, [Next]_vars
    PROVE  SessionInv'
<1> USE DEF SessionInv
<1>1. TypeOK' /\ TrustInv'
  BY TypeNext, TrustNext
<1>2. ConnInv'
  <2>1. ConnTypeOK
    BY DEF TypeOK
  <2>2. \/ UNCHANGED connVars
        \/ \E c \in Conns : Connect(c) \/ Opened(c) \/ Lost(c) \/ Due(c) \/ Close(c)
    BY ConnStep
  <2>3. First \in Conns
    BY SessionAssumption
  <2> QED
    BY <2>1, <2>2, <2>3, ConnInvNext
<1>3. KeysInv' /\ PairInv' /\ MatchInv' /\ LoneInv'
  BY KeysNext, PairNext, MatchNext, LoneNext
<1> QED
  BY <1>1, <1>2, <1>3

\* So it always holds.
LEMMA SessionCorrect == Spec => []SessionInv
<1>1. SessionInv /\ [Next]_vars => SessionInv'
  BY SessionNext
<1> QED
  BY SessionInit, <1>1, PTL DEF Spec

\* The variables of the session and of its connections always have their types:
\* the queues, the coroutines' places and the trust store among them.
THEOREM TypeCorrect == Spec => []TypeOK
<1>1. SessionInv => TypeOK
  BY DEF SessionInv
<1> QED
  BY SessionCorrect, <1>1, PTL

\* However a rotation, the answers of loadPeers and the awaits of sendMessage
\* interleave, a message goes only to entries whose listed fingerprint was
\* verified since that rotation.  Of their keys it says nothing.
THEOREM MessagesGoToVerified == Spec => SentToVerified
<1>1. SessionInv /\ [Next]_vars => [OnlyVerified]_vars
  BY OnlyVerifiedNext DEF SessionInv
<1> QED
  BY SessionCorrect, <1>1, PTL DEF Spec, SentToVerified

\* A key pair from an earlier visit, or one that a slow coroutine has made, is
\* never registered at a second epoch.
THEOREM PairsKeepTheirEpoch == Spec => []KeyOfOneEpoch
<1>1. SessionInv => KeyOfOneEpoch
  BY PairUnique DEF SessionInv
<1> QED
  BY SessionCorrect, <1>1, PTL

\* A client that can be sent keys_rotated has the key pair without which
\* handleIncoming would ignore it.
THEOREM SocketsFollowKeys == Spec => []OpenHasKeys
<1>1. SessionInv => OpenHasKeys
  BY SessionAssumption DEF SessionInv, KeysInv, SocketHasKeys, OpenHasKeys
<1> QED
  BY SessionCorrect, <1>1, PTL

\* The callbacks of the socket and of the back-off timer, in any order, leave no
\* connection waiting for nothing.
THEOREM ConnectionsRetry == Spec => []NeverStranded
<1>1. SessionInv => NeverStranded
  BY DEF SessionInv, ConnInv
<1> QED
  BY SessionCorrect, <1>1, PTL

\* A connected client uses a key pair of the epoch that it stamps its messages
\* with, as long as no two of the coroutines that set keys have overlapped and
\* the last pair that was due could be made.
THEOREM KeysFollowEpoch == Spec => []KeysMatchEpoch
<1>1. SessionInv => KeysMatchEpoch
  <2> SUFFICES ASSUME SessionInv, ~overlapped, ~unmade, ref # NoOne, ~closed[ref],
                      \A t \in Tasks : ~Busy(t)
               PROVE  keysEpoch = epoch
    BY DEF KeysMatchEpoch
  <2>1. \A t \in Setters : ~Preparing(t)
    BY DEF Busy, Setters, Tasks, Preparing, Setting
  <2> QED
    BY <2>1 DEF SessionInv, MatchInv
<1> QED
  BY SessionCorrect, <1>1, PTL

\* Unless a rotation or a run of the effect begins while another sets up keys, a
\* run has its connection closed before the next one makes its own.
THEOREM ConnectionsAreFew == Spec => []OneConnection
<1>1. SessionInv => OneConnection
  BY DEF SessionInv, LoneInv, Unclosed, OneConnection
<1> QED
  BY SessionCorrect, <1>1, PTL

\* The timer that close() forgets revives a connection once at most.
THEOREM ClosedRevivesOnce == Spec => []RevivedAtMostOnce
<1>1. SessionInv => RevivedAtMostOnce
  <2> SUFFICES ASSUME SessionInv PROVE RevivedAtMostOnce
    OBVIOUS
  <2>1. ASSUME NEW c \in Conns PROVE revived[c] <= 1
    <3>1. \/ revived[c] = 0
          \/ revived[c] = 1 /\ closed[c] /\ ~timer[c]
      BY DEF SessionInv, ConnInv
    <3> QED
      BY <3>1
  <2> QED
    BY <2>1 DEF RevivedAtMostOnce
<1> QED
  BY SessionCorrect, <1>1, PTL
=============================================================================
