------------------------- MODULE RoomMessagesProofs -------------------------
(***************************************************************************)
(* What a visit to a room shows and whom it trusts, for any members, any   *)
(* number of runs of the effect, of rotations and of messages.             *)
(***************************************************************************)
EXTENDS RoomMessages, TLAPS

-----------------------------------------------------------------------------
(* The coroutines *)

RunPc == {"idle", "room", "keys", "peers", "history", "decrypt", "done"}

\* Where each kind of coroutine may be, and what it knows there; a run that has a
\* connection is over.
TaskOK(t) ==
    /\ t \in Runs => pc[t] \in RunPc /\ (conn[t] # "none" => pc[t] = "done")
    /\ t \in Rotations => pc[t] \in {"idle", "keys", "peers"}
    /\ t \in Handlers =>
          /\ pc[t] \in {"idle", "peers", "decrypt"}
          /\ pc[t] = "peers" => frame[t] \in 1..Len(archive) /\ via[t] \in Runs
    /\ t = Send =>
          /\ pc[t] \in {"idle", "peers", "encrypt"}
          /\ pc[t] # "idle" => via[t] \in Runs /\ pc[via[t]] = "done"

TaskInv ==
    /\ \A t \in Tasks : TaskOK(t)
    /\ ref # NoRun => conn[ref] # "none"
    /\ \A w \in wire : conn[w[1]] = "open"

Sound == TypeOK /\ TaskInv

\* The bubbles of a set of messages: one each at most, readable only with the epoch.
LEMMA DecryptedFacts ==
    ASSUME archive \in Seq(Frames), NEW s \in SUBSET (1..Len(archive)), NEW m, NEW e,
           NEW r \in Runs, NEW live \in BOOLEAN, NEW bubbles \in Decrypted(s, m, e, r, live)
    PROVE  /\ bubbles \in SUBSET Bubbles
           /\ \A b \in bubbles :
                 /\ b.frame \in s /\ b.by = r /\ b.live = live
                 /\ b.kind # "sent" /\ (b.kind = "text" => b.epoch = e)
           /\ \A b, c \in bubbles : b.frame = c.frame => b = c
<1> DEFINE shown == {i \in s : Kinds(archive[i], m, e) # {}}
<1> PICK kind \in {f \in [shown -> {"text", "earlier", "own", "failed"}] :
                      \A i \in shown : f[i] \in Kinds(archive[i], m, e)} :
        bubbles = {[frame |-> i, epoch |-> archive[i].epoch, kind |-> kind[i], by |-> r,
                    live |-> live, late |-> FALSE] : i \in shown}
  BY DEF Decrypted
<1>1. ASSUME NEW i \in shown
      PROVE  archive[i].epoch \in Nat /\ kind[i] \in {"text", "earlier", "own", "failed"} /\ i \in Nat
  <2>1. i \in 1..Len(archive)  OBVIOUS
  <2>2. archive[i] \in Frames  BY <2>1
  <2>3. archive[i].epoch \in Nat  BY <2>2 DEF Frames
  <2>4. kind[i] \in {"text", "earlier", "own", "failed"}
    <3> HIDE DEF shown
    <3> QED  OBVIOUS
  <2>5. i \in Nat
    <3> HIDE DEF shown
    <3> QED  BY <2>1
  <2> QED  BY <2>3, <2>4, <2>5
<1>2. ASSUME NEW i \in shown, kind[i] = "text"  PROVE archive[i].epoch = e
  BY <1>2 DEF Kinds
<1> DEFINE B(i) == [frame |-> i, epoch |-> archive[i].epoch, kind |-> kind[i], by |-> r,
                    live |-> live, late |-> FALSE]
<1>3. ASSUME NEW b \in bubbles
      PROVE  \E i \in shown : b = B(i)
  OBVIOUS
<1>4. ASSUME NEW i \in shown  PROVE B(i) \in Bubbles
  BY <1>1 DEF Bubbles
<1>5. bubbles \in SUBSET Bubbles
  BY <1>3, <1>4
<1>6. ASSUME NEW b \in bubbles
      PROVE  /\ b.frame \in s /\ b.by = r /\ b.live = live
             /\ b.kind # "sent" /\ (b.kind = "text" => b.epoch = e)
             /\ b = B(b.frame)
  <2> PICK i \in shown : b = B(i)
    BY <1>3
  <2>1. i \in s  OBVIOUS
  <2>2. kind[i] # "sent" /\ (kind[i] = "text" => archive[i].epoch = e)
    BY <1>1, <1>2
  <2> HIDE DEF shown
  <2> QED  BY <2>1, <2>2
<1> HIDE DEF shown, B
<1> QED  BY <1>5, <1>6

-----------------------------------------------------------------------------
(* The types *)

LEMMA InitSound == Init => Sound
<1> SUFFICES ASSUME Init  PROVE Sound
  OBVIOUS
<1> USE MessagesAssumption
<1>1. NoMap \in Maps  BY DEF NoMap, Maps
<1>2. pc \in [Tasks -> RunPc]  BY DEF Init, RunPc
<1>3. TypeOK
  <2>1. archive \in Seq(Frames) /\ wire \subseteq Runs \X (1..Len(archive))
    BY DEF Init
  <2>2. legacy \in Maps
    BY DEF Init, Maps
  <2>3. map \in PeerMaps
    BY DEF Init, NoPeers, PeerMaps
  <2> QED  BY <1>1, <1>2, <2>1, <2>2, <2>3 DEF Init, TypeOK, RunPc
<1>4. TaskInv
  BY DEF Init, TaskInv, TaskOK, RunPc, Tasks, Setups
<1> QED  BY <1>3, <1>4 DEF Sound

\* One coroutine moves.
LEMMA OneMoves ==
    ASSUME TaskInv, NEW t \in Tasks, TaskOK(t)',
           \A u \in Tasks \ {t} : pc'[u] = pc[u] /\ frame'[u] = frame[u] /\ via'[u] = via[u],
           pc[t] = "done" => pc'[t] = "done",
           UNCHANGED <<archive, conn, ref>>, wire' \subseteq wire
    PROVE  TaskInv'
<1> USE MessagesAssumption
<1>1. ASSUME NEW u \in Tasks  PROVE TaskOK(u)'
  <2>1. CASE u = t  BY <2>1
  <2>2. CASE u # t
    <3>1. TaskOK(u)  BY DEF TaskInv
    <3>2. u = Send /\ pc[u] # "idle" => via[u] \in Runs /\ pc'[via[u]] = "done"
      BY <2>2, <3>1 DEF TaskOK, Tasks, Setups
    <3> QED  BY <2>2, <3>1, <3>2 DEF TaskOK
  <2> QED  BY <2>1, <2>2
<1> QED  BY <1>1 DEF TaskInv

\* The listing that loadPeers leaves.
LEMMA ListedType ==
    ASSUME Listed
    PROVE  peers' \subseteq Entries /\ map' \in PeerMaps
BY DEF Listed, Listings, MapsOf

LEMMA LoadTrustType == ASSUME TypeOK  PROVE LoadTrust \in Maps
BY DEF TypeOK, LoadTrust

\* Bubbles stay bubbles when they are shown.
LEMMA ShowType ==
    ASSUME TypeOK, NEW t \in Tasks, NEW bubbles \in SUBSET Bubbles, Show(t, bubbles)
    PROVE  messages' \subseteq Bubbles
<1>1. (since[t] < rounds) \in BOOLEAN  BY DEF TypeOK
<1>2. ASSUME NEW b \in bubbles  PROVE [b EXCEPT !.late = since[t] < rounds] \in Bubbles
  BY <1>1 DEF Bubbles
<1> QED  BY <1>2 DEF Show, TypeOK

\* A message is stored at the end.
LEMMA Stored ==
    ASSUME archive \in Seq(Frames), NEW f \in Frames, archive' = Append(archive, f)
    PROVE  archive' \in Seq(Frames) /\ Len(archive') = Len(archive) + 1 /\ Len(archive) \in Nat
OBVIOUS

LEMMA ServerStep ==
    ASSUME Sound,
           \/ Rotate \/ LoadPeers
           \/ \E n \in Names, e \in 1..serverEpoch, mine \in BOOLEAN : Post(n, e, mine)
    PROVE  Sound'
<1> USE MessagesAssumption DEF Sound
<1>1. CASE Rotate
  BY <1>1 DEF Rotate, TypeOK, TaskInv, TaskOK, room, listing, trust, sockets, locals, work, cargo, histories
<1>2. CASE LoadPeers
  BY <1>2, ListedType DEF LoadPeers, TypeOK, TaskInv, TaskOK, server, room, trust, sockets, locals, work, cargo, histories
<1>3. ASSUME NEW n \in Names, NEW e \in 1..serverEpoch, NEW mine \in BOOLEAN, Post(n, e, mine)
      PROVE  Sound'
  <2> DEFINE f == [from |-> n, epoch |-> e, mine |-> mine]
  <2>1. f \in Frames  BY DEF TypeOK, Frames
  <2>2. archive' \in Seq(Frames) /\ Len(archive') = Len(archive) + 1 /\ Len(archive) \in Nat
    BY <1>3, <2>1, Stored DEF Post, TypeOK
  <2>3. wire' \subseteq Runs \X (1..Len(archive'))
    BY <1>3, <2>2 DEF Post, TypeOK
  <2>4. TypeOK'
    BY <1>3, <2>2, <2>3 DEF Post, TypeOK, room, listing, trust, sockets, locals, work, cargo
  <2>5. \A w \in wire' : conn[w[1]] = "open"
    BY <1>3 DEF Post, TaskInv
  <2>6. TaskInv'
    BY <1>3, <2>2, <2>5 DEF Post, TaskInv, TaskOK, sockets, locals, work, cargo
  <2> QED  BY <2>4, <2>6
<1> QED  BY <1>1, <1>2, <1>3

LEMMA RunStep ==
    ASSUME Sound, NEW r \in Runs,
           \/ ReadRoom(r) \/ Stop(r) \/ Settled(r) \/ HistoryRead(r) \/ Joined(r)
           \/ Opened(r) \/ Lost(r)
           \/ \E e \in 1..serverEpoch : Rerun(r, e)
    PROVE  Sound'
<1> USE MessagesAssumption DEF Sound, server, room, listing, trust, sockets, locals, work, cargo, histories
<1>0. r \in Tasks /\ r \notin Rotations /\ r \notin Handlers /\ r # Send
  BY DEF Tasks, Setups
<1>1. CASE ReadRoom(r)
  <2>1. TypeOK'  BY <1>0, <1>1 DEF ReadRoom, Goto, Keep, TypeOK
  <2>2. TaskInv'
    <3>1. TaskOK(r)  BY <1>0 DEF TaskInv
    <3>2. TaskOK(r)'  BY <1>0, <1>1, <3>1 DEF ReadRoom, Goto, Keep, TypeOK, TaskOK, RunPc
    <3> QED  BY <1>0, <1>1, <3>2, OneMoves DEF ReadRoom, Goto, Keep, TypeOK
  <2> QED  BY <2>1, <2>2
<1>2. CASE Stop(r)
  <2>1. TypeOK'  BY <1>0, <1>2 DEF Stop, Goto, TypeOK
  <2>2. TaskInv'
    <3>1. TaskOK(r)  BY <1>0 DEF TaskInv
    <3>2. TaskOK(r)'  BY <1>0, <1>2, <3>1 DEF Stop, Goto, TypeOK, TaskOK, RunPc
    <3> QED  BY <1>0, <1>2, <3>2, OneMoves DEF Stop, Goto, TypeOK
  <2> QED  BY <2>1, <2>2
<1>3. CASE Settled(r)
  <2>1. peers' \subseteq Entries /\ map' \in PeerMaps
    BY <1>3, ListedType DEF Settled
  <2>2. pc[r] = "peers" /\ pc' \in {[pc EXCEPT ![r] = "done"], [pc EXCEPT ![r] = "history"]}
    BY <1>3 DEF Settled, Goto
  <2>3. /\ at' \in [Tasks -> Nat] /\ since' \in [Tasks -> Nat]
        /\ frame' \in [Tasks -> Nat] /\ via' \in [Tasks -> Runs \cup {NoRun}]
        /\ pending' \in [Tasks -> SUBSET Bubbles]
        /\ \A t \in Tasks \ {r} : frame'[t] = frame[t] /\ via'[t] = via[t]
    <3>1. CASE Forget(r)  BY <1>0, <3>1 DEF Forget, Keep, Carry, TypeOK
    <3>2. CASE UNCHANGED <<work, cargo>>  BY <3>2 DEF TypeOK
    <3> QED  BY <1>3, <3>1, <3>2 DEF Settled
  <2>4. TypeOK'
    BY <1>0, <1>3, <2>1, <2>2, <2>3 DEF Settled, TypeOK
  <2>5. TaskInv'
    <3>1. TaskOK(r)  BY <1>0 DEF TaskInv
    <3>2. TaskOK(r)'  BY <1>0, <1>3, <2>2, <2>3, <3>1 DEF Settled, TypeOK, TaskOK, RunPc
    <3> QED  BY <1>0, <1>3, <2>2, <2>3, <3>2, OneMoves DEF Settled, TypeOK
  <2> QED  BY <2>4, <2>5
<1>4. CASE HistoryRead(r)
  <2> PICK bubbles \in Decrypted(1..Len(archive), map, at[r], r, FALSE) : Carry(r, 0, NoRun, bubbles)
    BY <1>4 DEF HistoryRead
  <2>1. bubbles \in SUBSET Bubbles
    <3> DEFINE all == 1..Len(archive)
               e == at[r]
               live == FALSE
    <3> HIDE DEF all, e, live
    <3>1. all \in SUBSET (1..Len(archive)) /\ archive \in Seq(Frames) /\ live \in BOOLEAN
      BY DEF TypeOK, all, live
    <3>2. bubbles \in Decrypted(all, map, e, r, live)
      BY DEF all, e, live
    <3> QED  BY <3>1, <3>2, DecryptedFacts
  <2>2. TypeOK'  BY <1>0, <1>4, <2>1 DEF HistoryRead, Goto, Keep, Carry, TypeOK
  <2>3. TaskInv'
    <3>1. TaskOK(r)  BY <1>0 DEF TaskInv
    <3>2. TaskOK(r)'  BY <1>0, <1>4, <3>1 DEF HistoryRead, Goto, Keep, Carry, TypeOK, TaskOK, RunPc
    <3> QED  BY <1>0, <1>4, <3>2, OneMoves DEF HistoryRead, Goto, Keep, Carry, TypeOK
  <2> QED  BY <2>2, <2>3
<1>5. CASE Joined(r)
  <2>1. messages' \subseteq Bubbles
    BY <1>0, <1>5, ShowType DEF Joined, TypeOK
  <2>2. TypeOK'  BY <1>0, <1>5, <2>1 DEF Joined, Goto, Forget, Keep, Carry, TypeOK
  <2>3. TaskInv'
    <3>1. ASSUME NEW t \in Tasks  PROVE TaskOK(t)'
      <4>1. TaskOK(t)  BY DEF TaskInv
      <4>2. pc[r] = "decrypt" /\ pc' = [pc EXCEPT ![r] = "done"] /\ conn' = [conn EXCEPT ![r] = "down"]
        BY <1>5 DEF Joined, Goto
      <4>3. frame' = [frame EXCEPT ![r] = 0] /\ via' = [via EXCEPT ![r] = NoRun] /\ archive' = archive
        BY <1>5 DEF Joined, Forget, Carry
      <4>4. CASE t = r  BY <1>0, <4>1, <4>2, <4>3, <4>4 DEF TaskOK, TypeOK, RunPc
      <4>5. CASE t # r  BY <1>0, <4>1, <4>2, <4>3, <4>5 DEF TaskOK, TypeOK
      <4> QED  BY <4>4, <4>5
    <3>2. pc[r] = "decrypt" /\ conn' = [conn EXCEPT ![r] = "down"] /\ ref' = r /\ wire' = wire
      BY <1>5 DEF Joined, Goto
    <3>3. conn[r] = "none"
      BY <1>0, <3>2 DEF TaskInv, TaskOK
    <3>4. \A w \in wire : w[1] \in Runs
      BY DEF TypeOK
    <3> QED  BY <3>1, <3>2, <3>3, <3>4 DEF TaskInv, TypeOK
  <2> QED  BY <2>2, <2>3
<1>6. CASE Opened(r)
  <2>1. TypeOK'  BY <1>6 DEF Opened, TypeOK
  <2>2. TaskInv'  BY <1>6 DEF Opened, TypeOK, TaskInv, TaskOK
  <2> QED  BY <2>1, <2>2
<1>7. CASE Lost(r)
  <2>1. TypeOK'  BY <1>7 DEF Lost, TypeOK
  <2>2. TaskInv'  BY <1>7 DEF Lost, TypeOK, TaskInv, TaskOK
  <2> QED  BY <2>1, <2>2
<1>8. ASSUME NEW e \in 1..serverEpoch, Rerun(r, e)  PROVE Sound'
  <2>1. /\ conn' \in [Runs -> {"none", "open", "down", "closed"}]
        /\ \A c \in Runs : conn'[c] = "none" <=> conn[c] = "none"
        /\ \A c \in Runs : c # ref => conn'[c] = conn[c]
    BY <1>8 DEF Rerun, TypeOK, TaskInv
  <2>2. TypeOK'  BY <1>0, <1>8, <2>1 DEF Rerun, Goto, TypeOK, Current
  <2>3. TaskInv'
    BY <1>0, <1>8, <2>1 DEF Rerun, Goto, TypeOK, TaskInv, TaskOK, RunPc
  <2> QED  BY <2>2, <2>3
<1> QED  BY <1>1, <1>2, <1>3, <1>4, <1>5, <1>6, <1>7, <1>8

LEMMA TrustStep ==
    ASSUME Sound, Render \/ OtherTab \/ \E e \in Entries : Trust(e) \/ Untrust(e)
    PROVE  Sound'
<1> USE MessagesAssumption DEF Sound, server, room, listing, sockets, locals, work, cargo, histories
<1>1. UNCHANGED <<server, wire, room, listing, messages, sockets, pc, locals, rounds, begun, reran>>
  BY DEF Render, OtherTab, Trust, Untrust
<1>2. TaskInv'
  BY <1>1 DEF TaskInv, TaskOK
<1>3. LoadTrust \in Maps /\ NoMap \in Maps
  BY LoadTrustType DEF NoMap, Maps
<1>4. session' \in Maps /\ legacy' \in Maps /\ NoMap \in {session', legacy'}
      /\ verified' \subseteq Names \X Prints
  <2>1. ASSUME Render
        PROVE  session' \in Maps /\ legacy' \in Maps /\ NoMap \in {session', legacy'}
    BY <1>3, <2>1 DEF Render, SaveTrust, TypeOK
  <2>2. ASSUME OtherTab
        PROVE  session' \in Maps /\ legacy' \in Maps /\ NoMap \in {session', legacy'}
    BY <1>3, <2>2 DEF OtherTab, TypeOK
  <2>3. ASSUME NEW e \in Entries, Trust(e) \/ Untrust(e)
        PROVE  session' \in Maps /\ legacy' = NoMap /\ verified' \subseteq Names \X Prints
    <3>1. e.name \in Names /\ e.fp \in Prints  OBVIOUS
    <3>2. \A k \in Prints \cup {NoPrint} : [LoadTrust EXCEPT ![e.name] = k] \in Maps
      BY <1>3, <3>1 DEF Maps
    <3>3. \E k \in Prints \cup {NoPrint} : SaveTrust([LoadTrust EXCEPT ![e.name] = k])
      BY <2>3, <3>1 DEF Trust, Untrust
    <3>4. /\ verified' \in {{}, verified, verified \cup {<<e.name, e.fp>>}}
          /\ verified \subseteq Names \X Prints
      BY <2>3 DEF Trust, Untrust, TypeOK
    <3>5. session' \in Maps /\ legacy' = NoMap
      BY <3>2, <3>3 DEF SaveTrust
    <3>6. <<e.name, e.fp>> \in Names \X Prints
      BY <3>1
    <3>7. verified' \subseteq Names \X Prints
      BY <3>4, <3>6
    <3> QED  BY <3>5, <3>7
  <2>4. verified \subseteq Names \X Prints  BY DEF TypeOK
  <2>5. Render \/ OtherTab => verified' = verified  BY DEF Render, OtherTab
  <2>6. ASSUME Render \/ OtherTab
        PROVE  session' \in Maps /\ legacy' \in Maps /\ NoMap \in {session', legacy'}
    BY <2>1, <2>2, <2>6
  <2> HIDE DEF Sound, server, room, listing, sockets, locals, work, cargo, histories
  <2>7. session' \in Maps /\ legacy' \in Maps /\ NoMap \in {session', legacy'}
    BY <1>3, <2>3, <2>6
  <2>8. verified' \subseteq Names \X Prints
    <3>1. CASE Render \/ OtherTab  BY <2>4, <2>5, <3>1
    <3>2. CASE \E e \in Entries : Trust(e) \/ Untrust(e)  BY <2>3, <3>2
    <3> QED  BY <3>1, <3>2
  <2> QED  BY <2>7, <2>8
<1>5. NoMap' = NoMap  BY DEF NoMap
<1>6. TypeOK'
  BY <1>1, <1>4, <1>5 DEF TypeOK
<1> QED  BY <1>2, <1>6

LEMMA RotationStep ==
    ASSUME Sound, NEW t \in Tasks,
           \/ t \in Rotations /\ (Rotated(t) \/ \E e \in 1..serverEpoch : RotateKeys(t, e))
           \/ t \in Setups /\ Keyed(t)
           \/ Fail(t)
    PROVE  Sound'
<1> USE MessagesAssumption DEF Sound, server, room, listing, trust, sockets, locals, work, cargo, histories
<1>0. t \in Tasks
  OBVIOUS
<1>1. CASE t \in Rotations /\ Rotated(t)
  <2>1. peers' \subseteq Entries /\ map' \in PeerMaps
    BY <1>1, ListedType DEF Rotated
  <2>2. t \notin Runs /\ t \notin Handlers /\ t # Send
    BY <1>1 DEF Setups
  <2>3. TypeOK'  BY <1>1, <2>1 DEF Rotated, Goto, Forget, Keep, Carry, TypeOK
  <2>4. TaskInv'
    <3>1. TaskOK(t)  BY <1>0 DEF TaskInv
    <3>2. TaskOK(t)'  BY <1>0, <1>1, <2>2, <3>1 DEF Rotated, Goto, Forget, Keep, Carry, TypeOK, TaskOK, RunPc
    <3> QED  BY <1>0, <1>1, <2>2, <3>2, OneMoves DEF Rotated, Goto, Forget, Keep, Carry, TypeOK
  <2> QED  BY <2>3, <2>4
<1>2. ASSUME t \in Rotations, NEW e \in 1..serverEpoch, RotateKeys(t, e)  PROVE Sound'
  <2>1. NoMap \in Maps  BY DEF NoMap, Maps
  <2>2. t \notin Runs /\ t \notin Handlers /\ t # Send
    BY <1>2 DEF Setups
  <2>3. TypeOK'
    <3>1. /\ at' \in [Tasks -> Nat] /\ since' \in [Tasks -> Nat] /\ epoch' \in Nat
          /\ pc' \in [Tasks -> {"idle", "room", "keys", "peers", "history", "decrypt", "encrypt", "done"}]
      BY <1>2 DEF RotateKeys, Goto, Keep, TypeOK
    <3>2. peers' = {} /\ map' \in PeerMaps /\ session' = NoMap /\ legacy' = NoMap /\ NoMap' = NoMap
      BY <1>2, <2>1 DEF RotateKeys, ClearRoomTrust, NoMap, NoPeers, PeerMaps
    <3>3. rounds' \in Nat
      BY <1>2 DEF RotateKeys, TypeOK
    <3>4. reran' \in BOOLEAN /\ verified' = {} /\ messages' = {}
      BY <1>2 DEF RotateKeys
    <3> QED  BY <1>2, <2>1, <3>1, <3>2, <3>3, <3>4 DEF RotateKeys, TypeOK
  <2>4. TaskInv'
    <3>1. TaskOK(t)  BY <1>0 DEF TaskInv
    <3>2. TaskOK(t)'  BY <1>0, <1>2, <2>2, <3>1 DEF RotateKeys, Goto, Keep, TypeOK, TaskOK, RunPc
    <3> QED  BY <1>0, <1>2, <2>2, <3>2, OneMoves DEF RotateKeys, Goto, Keep, TypeOK
  <2> QED  BY <2>3, <2>4
<1>3. CASE t \in Setups /\ Keyed(t)
  <2>1. t \notin Handlers /\ t # Send
    BY <1>3
  <2>2. TypeOK'  BY <1>3 DEF Keyed, Goto, TypeOK
  <2>3. TaskInv'
    <3>1. TaskOK(t)  BY <1>0 DEF TaskInv
    <3>2. TaskOK(t)'  BY <1>0, <1>3, <2>1, <3>1 DEF Keyed, Goto, Setups, TypeOK, TaskOK, RunPc
    <3> QED  BY <1>0, <1>3, <2>1, <3>2, OneMoves DEF Keyed, Goto, Setups, TypeOK
  <2> QED  BY <2>2, <2>3
<1>4. CASE Fail(t)
  <2>1. TypeOK'  BY <1>4 DEF Fail, Forget, Keep, Carry, TypeOK
  <2>2. TaskInv'
    <3>1. TaskOK(t)  BY <1>0 DEF TaskInv
    <3>2. TaskOK(t)'
      <4>1. pc[t] \in {"room", "keys", "peers", "history"} /\ UNCHANGED <<archive, conn>>
        BY <1>4 DEF Fail
      <4>2. pc'[t] = IF t \in Runs THEN "done" ELSE "idle"
        BY <1>4 DEF Fail, TypeOK
      <4> QED  BY <3>1, <4>1, <4>2, MessagesAssumption DEF TaskOK, RunPc, Setups
    <3> QED  BY <1>0, <1>4, <3>2, OneMoves DEF Fail, Forget, Keep, Carry, TypeOK
  <2> QED  BY <2>1, <2>2
<1> QED  BY <1>1, <1>2, <1>3, <1>4

\* The end of handleIncoming, at either of the two places where it is reached.
LEMMA DecryptStep ==
    ASSUME Sound, NEW h \in Handlers, NEW from \in {"idle", "peers"}, NEW i \in 1..Len(archive),
           NEW m, NEW r \in Runs, Decrypt(h, from, i, m, r)
    PROVE  /\ pc[h] = from
           /\ \E to \in {"idle", "decrypt"} : pc' = [pc EXCEPT ![h] = to]
           /\ at' = [at EXCEPT ![h] = 0]
           /\ \E s \in {0, rounds} : since' = [since EXCEPT ![h] = s]
           /\ frame' = [frame EXCEPT ![h] = 0] /\ via' = [via EXCEPT ![h] = NoRun]
           /\ pending' \in [Tasks -> SUBSET Bubbles]
<1>1. h \in Tasks  BY DEF Tasks
<1>2. CASE archive[i].from = Me \/ m[archive[i].from] = NoEntry \/ ~archive[i].mine
  <2>1. pc[h] = from /\ pc' = [pc EXCEPT ![h] = "idle"] /\ Forget(h)
    BY <1>2 DEF Decrypt, Goto
  <2> QED  BY <1>1, <2>1 DEF Forget, Keep, Carry, Sound, TypeOK
<1>3. CASE ~(archive[i].from = Me \/ m[archive[i].from] = NoEntry \/ ~archive[i].mine)
  <2> PICK bubbles \in Decrypted({i}, m, epoch, r, TRUE) : Carry(h, 0, NoRun, bubbles)
    BY <1>3 DEF Decrypt
  <2>1. bubbles \in SUBSET Bubbles
    <3>1. {i} \in SUBSET (1..Len(archive)) /\ TRUE \in BOOLEAN /\ archive \in Seq(Frames)
      BY DEF Sound, TypeOK
    <3> QED  BY <3>1, DecryptedFacts
  <2>2. pc[h] = from /\ pc' = [pc EXCEPT ![h] = "decrypt"] /\ Keep(h, 0, rounds)
    BY <1>3 DEF Decrypt, Goto
  <2> QED  BY <1>1, <2>1, <2>2 DEF Keep, Carry, Sound, TypeOK
<1> QED  BY <1>2, <1>3

LEMMA HandlerStep ==
    ASSUME Sound,
           \/ \E w \in wire : Ignore(w) \/ \E h \in Handlers : Receive(h, w[1], w[2])
           \/ \E h \in Handlers : SenderLoaded(h) \/ Received(h)
    PROVE  Sound'
<1> USE MessagesAssumption DEF Sound, server, room, listing, trust, sockets, locals, work, cargo, histories
<1>0. ASSUME NEW h \in Handlers  PROVE h \in Tasks /\ h \notin Runs /\ h \notin Rotations /\ h # Send
  BY DEF Tasks, Setups
<1>1. ASSUME NEW w \in wire, Ignore(w)  PROVE Sound'
  <2>1. TypeOK'  BY <1>1 DEF Ignore, TypeOK
  <2>2. TaskInv'  BY <1>1 DEF Ignore, TypeOK, TaskInv, TaskOK
  <2> QED  BY <2>1, <2>2
<1>2. ASSUME NEW w \in wire, NEW h \in Handlers, Receive(h, w[1], w[2])  PROVE Sound'
  <2> DEFINE r == w[1]
             i == w[2]
  <2>1. r \in Runs /\ i \in 1..Len(archive) /\ i \in Nat /\ wire' = wire \ {w}
    <3>1. w \in Runs \X (1..Len(archive))  BY DEF TypeOK
    <3>2. w = <<w[1], w[2]>>  BY <3>1
    <3>3. wire' = wire \ {<<r, i>>}  BY <1>2 DEF Receive
    <3>4. Len(archive) \in Nat  BY DEF TypeOK
    <3> QED  BY <3>1, <3>2, <3>3, <3>4
  <2>2. CASE archive[i].from # Me /\ map[archive[i].from] # NoEntry
    <3>1. Decrypt(h, "idle", i, map, r)
      BY <1>2, <2>2 DEF Receive
    <3>2. /\ pc[h] = "idle"
          /\ \E to \in {"idle", "decrypt"} : pc' = [pc EXCEPT ![h] = to]
          /\ at' = [at EXCEPT ![h] = 0]
          /\ \E s \in {0, rounds} : since' = [since EXCEPT ![h] = s]
          /\ frame' = [frame EXCEPT ![h] = 0] /\ via' = [via EXCEPT ![h] = NoRun]
          /\ pending' \in [Tasks -> SUBSET Bubbles]
      BY <2>1, <3>1, DecryptStep
    <3>3. TypeOK'
      <4>1. /\ UNCHANGED <<serverEpoch, archive, epoch, keyed, peers, map, session, legacy>>
            /\ UNCHANGED <<messages, conn, ref, cancelled, list, rounds, begun, reran, verified>>
            /\ wire' \subseteq wire
        BY <1>2, <2>1 DEF Receive
      <4>2. pc' \in [Tasks -> {"idle", "room", "keys", "peers", "history", "decrypt",
                              "encrypt", "done"}]
        BY <3>2 DEF TypeOK
      <4>3. at' \in [Tasks -> Nat] /\ since' \in [Tasks -> Nat] /\ frame' \in [Tasks -> Nat]
        <5>1. rounds \in Nat  BY DEF TypeOK
        <5>2. PICK s \in Nat : since' = [since EXCEPT ![h] = s]  BY <3>2, <5>1
        <5> QED  BY <3>2, <5>2 DEF TypeOK
      <4>4. via' \in [Tasks -> Runs \cup {NoRun}] /\ pending' \in [Tasks -> SUBSET Bubbles]
        BY <3>2 DEF TypeOK
      <4> QED  BY <4>1, <4>2, <4>3, <4>4 DEF TypeOK
    <3>4. TaskInv'
      <4>1. TaskOK(h)  BY <1>0 DEF TaskInv
      <4>2. TaskOK(h)'  BY <1>0, <1>2, <2>1, <3>2, <4>1 DEF Receive, TypeOK, TaskOK, RunPc
      <4> QED  BY <1>0, <1>2, <2>1, <3>2, <4>2, OneMoves DEF Receive, TypeOK
    <3> QED  BY <3>3, <3>4
  <2>3. CASE ~(archive[i].from # Me /\ map[archive[i].from] # NoEntry)
    <3>1. Goto(h, "idle", "peers") /\ Keep(h, 0, 0) /\ Carry(h, i, r, {})
      BY <1>2, <2>3 DEF Receive
    <3>2. TypeOK'  BY <1>0, <1>2, <2>1, <3>1 DEF Receive, Goto, Keep, Carry, TypeOK
    <3>3. TaskInv'
      <4>1. TaskOK(h)  BY <1>0 DEF TaskInv
      <4>2. TaskOK(h)'  BY <1>0, <1>2, <2>1, <3>1, <4>1 DEF Receive, Goto, Keep, Carry, TypeOK, TaskOK, RunPc
      <4> QED  BY <1>0, <1>2, <2>1, <3>1, <4>2, OneMoves DEF Receive, Goto, Keep, Carry, TypeOK
    <3> QED  BY <3>2, <3>3
  <2> QED  BY <2>2, <2>3
<1>3. ASSUME NEW h \in Handlers, SenderLoaded(h)  PROVE Sound'
  <2>1. peers' \subseteq Entries /\ map' \in PeerMaps
    BY <1>3, ListedType DEF SenderLoaded
  <2>2. Decrypt(h, "peers", frame[h], map', via[h]) /\ frame[h] \in 1..Len(archive) /\ via[h] \in Runs
    BY <1>3 DEF SenderLoaded, TaskInv, TaskOK, Tasks
  <2>3. /\ \E to \in {"idle", "decrypt"} : pc' = [pc EXCEPT ![h] = to]
        /\ at' = [at EXCEPT ![h] = 0]
        /\ \E s \in {0, rounds} : since' = [since EXCEPT ![h] = s]
        /\ frame' = [frame EXCEPT ![h] = 0] /\ via' = [via EXCEPT ![h] = NoRun]
        /\ pending' \in [Tasks -> SUBSET Bubbles]
    BY <2>2, DecryptStep
  <2>4. TypeOK'  BY <1>0, <1>3, <2>1, <2>3 DEF SenderLoaded, TypeOK
  <2>5. TaskInv'
    <3>1. TaskOK(h)  BY <1>0 DEF TaskInv
    <3>2. TaskOK(h)'  BY <1>0, <1>3, <2>3, <3>1 DEF SenderLoaded, TypeOK, TaskOK, RunPc
    <3> QED  BY <1>0, <1>3, <2>3, <3>2, OneMoves DEF SenderLoaded, TypeOK
  <2> QED  BY <2>4, <2>5
<1>4. ASSUME NEW h \in Handlers, Received(h)  PROVE Sound'
  <2>1. messages' \subseteq Bubbles
    BY <1>0, <1>4, ShowType DEF Received, TypeOK
  <2>2. TypeOK'  BY <1>0, <1>4, <2>1 DEF Received, Goto, Forget, Keep, Carry, TypeOK
  <2>3. TaskInv'
    <3>1. TaskOK(h)  BY <1>0 DEF TaskInv
    <3>2. TaskOK(h)'  BY <1>0, <1>4, <3>1 DEF Received, Goto, Forget, Keep, Carry, TypeOK, TaskOK, RunPc
    <3> QED  BY <1>0, <1>4, <3>2, OneMoves DEF Received, Goto, Forget, Keep, Carry, TypeOK
  <2> QED  BY <2>2, <2>3
<1> QED  BY <1>1, <1>2, <1>3, <1>4

\* The check of sendMessage, at either of the two places where it is reached.
LEMMA CheckStep ==
    ASSUME Sound, NEW from \in {"idle", "peers"}, NEW shown \in SUBSET Entries, NEW e \in Nat,
           NEW r \in Runs, NEW s \in Nat, Check(from, shown, e, r, s)
    PROVE  /\ pc[Send] = from
           /\ \/ /\ pc' = [pc EXCEPT ![Send] = "idle"] /\ list' = {}
                 /\ Forget(Send)
              \/ /\ pc' = [pc EXCEPT ![Send] = "encrypt"] /\ list' = shown
                 /\ AllPeersVerified(shown)
                 /\ Keep(Send, e, s) /\ Carry(Send, 0, r, {})
<1>1. CASE shown # {} /\ AllPeersVerified(shown)
  BY <1>1 DEF Check, Goto
<1>2. CASE ~(shown # {} /\ AllPeersVerified(shown))
  BY <1>2 DEF Check, Goto
<1> QED  BY <1>1, <1>2

\* What it leaves; the connection is one that a run has made.
LEMMA SenderTypes ==
    ASSUME Sound, pc[Send] \in {"idle", "peers"}, NEW r \in Runs, pc[r] = "done", NEW e \in Nat, NEW s \in Nat,
           UNCHANGED <<archive, conn, ref, wire>>,
           \/ pc' = [pc EXCEPT ![Send] = "idle"] /\ Forget(Send)
           \/ /\ \E to \in {"peers", "encrypt"} : pc' = [pc EXCEPT ![Send] = to]
              /\ Keep(Send, e, s) /\ Carry(Send, 0, r, {})
    PROVE  /\ pc' \in [Tasks -> {"idle", "room", "keys", "peers", "history", "decrypt", "encrypt", "done"}]
           /\ at' \in [Tasks -> Nat] /\ since' \in [Tasks -> Nat]
           /\ frame' \in [Tasks -> Nat] /\ via' \in [Tasks -> Runs \cup {NoRun}]
           /\ pending' \in [Tasks -> SUBSET Bubbles]
           /\ TaskInv'
<1> USE MessagesAssumption DEF Sound
<1>1. Send \in Tasks /\ Send \notin Runs /\ Send \notin Rotations /\ Send \notin Handlers
  BY DEF Tasks, Setups
<1>2. CASE pc' = [pc EXCEPT ![Send] = "idle"] /\ Forget(Send)
  <2>1. TaskOK(Send)'  BY <1>1, <1>2 DEF TaskOK, TypeOK
  <2>2. TaskInv'
    BY <1>1, <1>2, <2>1, OneMoves DEF Forget, Keep, Carry, TypeOK
  <2> QED  BY <1>1, <1>2, <2>2 DEF Forget, Keep, Carry, TypeOK
<1>3. ASSUME NEW to \in {"peers", "encrypt"}, pc' = [pc EXCEPT ![Send] = to],
             Keep(Send, e, s), Carry(Send, 0, r, {})
      PROVE  /\ pc' \in [Tasks -> {"idle", "room", "keys", "peers", "history", "decrypt", "encrypt", "done"}]
             /\ at' \in [Tasks -> Nat] /\ since' \in [Tasks -> Nat]
             /\ frame' \in [Tasks -> Nat] /\ via' \in [Tasks -> Runs \cup {NoRun}]
             /\ pending' \in [Tasks -> SUBSET Bubbles]
             /\ TaskInv'
  <2>1. r \in Tasks /\ r # Send  BY <1>1 DEF Tasks, Setups
  <2>2. TaskOK(Send)'  BY <1>1, <1>3, <2>1 DEF Carry, TaskOK, TypeOK
  <2>3. TaskInv'
    BY <1>1, <1>3, <2>2, OneMoves DEF Keep, Carry, TypeOK
  <2> QED  BY <1>1, <1>3, <2>3 DEF Keep, Carry, TypeOK
<1> QED  BY <1>2, <1>3

\* The connection that sendMessage takes is one of a run that is over.
LEMMA RefDone ==
    ASSUME Sound, ref # NoRun
    PROVE  ref \in Runs /\ pc[ref] = "done" /\ conn[ref] # "none"
<1>1. ref \in Runs /\ ref \in Tasks  BY DEF Sound, TypeOK, Tasks, Setups
<1> QED  BY <1>1 DEF Sound, TaskInv, TaskOK

LEMMA SenderStep == ASSUME Sound, SendMessage \/ SendLoaded \/ Encrypted  PROVE Sound'
<1> USE MessagesAssumption DEF server, room, listing, trust, sockets, locals, work, cargo, histories
<1>0. /\ Send \in Tasks /\ Send \notin Runs /\ Send \notin Rotations /\ Send \notin Handlers
      /\ epoch \in Nat /\ rounds \in Nat /\ at[Send] \in Nat /\ since[Send] \in Nat
  BY DEF Tasks, Setups, Sound, TypeOK
<1>1. \A m : EntriesOf(m) \in SUBSET Entries
  BY DEF EntriesOf
<1>2. CASE SendMessage
  <2>1. ref \in Runs /\ pc[ref] = "done"
    BY <1>2, RefDone DEF SendMessage
  <2>2. \E shown \in SUBSET Entries : Check("idle", shown, epoch, ref, rounds)
           \/ /\ pc[Send] = "idle" /\ pc' = [pc EXCEPT ![Send] = "peers"] /\ list' = {}
              /\ Keep(Send, epoch, rounds) /\ Carry(Send, 0, ref, {})
    <3>1. CASE peers # {}  BY <1>2, <3>1 DEF SendMessage, Sound, TypeOK
    <3>2. CASE peers = {} /\ EntriesOf(map) # {}  BY <1>1, <1>2, <3>2 DEF SendMessage
    <3>3. CASE peers = {} /\ EntriesOf(map) = {}  BY <1>2, <3>3 DEF SendMessage, Goto
    <3> QED  BY <3>1, <3>2, <3>3
  <2>3. /\ pc[Send] = "idle" /\ list' \subseteq Entries
        /\ \/ pc' = [pc EXCEPT ![Send] = "idle"] /\ Forget(Send)
           \/ /\ \E to \in {"peers", "encrypt"} : pc' = [pc EXCEPT ![Send] = to]
              /\ Keep(Send, epoch, rounds) /\ Carry(Send, 0, ref, {})
    BY <1>0, <2>1, <2>2, CheckStep
  <2>4. UNCHANGED <<archive, conn, ref, wire>>
    BY <1>2 DEF SendMessage
  <2>5. /\ pc' \in [Tasks -> {"idle", "room", "keys", "peers", "history", "decrypt", "encrypt", "done"}]
        /\ at' \in [Tasks -> Nat] /\ since' \in [Tasks -> Nat]
        /\ frame' \in [Tasks -> Nat] /\ via' \in [Tasks -> Runs \cup {NoRun}]
        /\ pending' \in [Tasks -> SUBSET Bubbles]
        /\ TaskInv'
    BY <1>0, <2>1, <2>3, <2>4, SenderTypes
  <2>6. begun' \in Nat  BY <1>2 DEF SendMessage, Sound, TypeOK
  <2>7. TypeOK'
    BY <1>2, <2>3, <2>5, <2>6 DEF SendMessage, Sound, TypeOK
  <2> QED  BY <2>5, <2>7 DEF Sound
<1>3. CASE SendLoaded
  <2>1. PICK shown \in SUBSET Entries : Check("peers", shown, at[Send], via[Send], since[Send])
    BY <1>1, <1>3 DEF SendLoaded
  <2>2. pc[Send] = "peers"
    BY <2>1 DEF Check, Goto
  <2>3. via[Send] \in Runs /\ pc[via[Send]] = "done"
    BY <1>0, <2>2 DEF Sound, TaskInv, TaskOK
  <2>4. /\ list' \subseteq Entries
        /\ \/ pc' = [pc EXCEPT ![Send] = "idle"] /\ Forget(Send)
           \/ /\ \E to \in {"peers", "encrypt"} : pc' = [pc EXCEPT ![Send] = to]
              /\ Keep(Send, at[Send], since[Send]) /\ Carry(Send, 0, via[Send], {})
    BY <1>0, <1>1, <2>1, <2>3, CheckStep
  <2>5. UNCHANGED <<archive, conn, ref, wire>>
    BY <1>3 DEF SendLoaded
  <2>6. /\ pc' \in [Tasks -> {"idle", "room", "keys", "peers", "history", "decrypt", "encrypt", "done"}]
        /\ at' \in [Tasks -> Nat] /\ since' \in [Tasks -> Nat]
        /\ frame' \in [Tasks -> Nat] /\ via' \in [Tasks -> Runs \cup {NoRun}]
        /\ pending' \in [Tasks -> SUBSET Bubbles]
        /\ TaskInv'
    BY <1>0, <2>2, <2>3, <2>4, <2>5, SenderTypes
  <2>7. peers' \subseteq Entries /\ map' \in PeerMaps
    BY <1>3, ListedType DEF SendLoaded
  <2>8. TypeOK'
    BY <1>3, <2>4, <2>6, <2>7 DEF SendLoaded, Sound, TypeOK
  <2> QED  BY <2>6, <2>8 DEF Sound
<1>4. CASE Encrypted
  <2> DEFINE f == [from |-> Me, epoch |-> at[Send], mine |-> FALSE]
             sent == conn[via[Send]] = "open"
             b == [frame |-> IF sent THEN Len(archive) + 1 ELSE 0, epoch |-> at[Send],
                   kind |-> "sent", by |-> via[Send], live |-> TRUE, late |-> FALSE]
  <2>1. f \in Frames  BY <1>0 DEF Frames
  <2>2. Len(archive) \in Nat /\ archive \in Seq(Frames)  BY DEF Sound, TypeOK
  <2>3. archive' \in Seq(Frames) /\ Len(archive') \in Nat /\ Len(archive) <= Len(archive')
    <3>1. CASE sent  BY <1>4, <2>1, <2>2, <3>1, Stored DEF Encrypted
    <3>2. CASE ~sent  BY <1>4, <2>2, <3>2 DEF Encrypted
    <3> QED  BY <3>1, <3>2
  <2>4. pc[Send] = "encrypt" /\ pc' = [pc EXCEPT ![Send] = "idle"] /\ list' = {}
    BY <1>4 DEF Encrypted, Goto
  <2>5. via[Send] \in Runs
    BY <1>0, <2>4 DEF Sound, TaskInv, TaskOK
  <2>6. b \in Bubbles
    BY <1>0, <2>2, <2>5 DEF Bubbles
  <2>7. messages' \subseteq Bubbles
    <3>1. Show(Send, {b})  BY <1>4 DEF Encrypted
    <3> QED  BY <1>0, <2>6, <3>1, ShowType DEF Sound
  <2>8. TypeOK'
    <3>1. wire' \subseteq Runs \X (1..Len(archive'))
      BY <1>4, <2>2, <2>3 DEF Encrypted, Sound, TypeOK
    <3> QED  BY <1>0, <1>4, <2>3, <2>4, <2>7, <3>1 DEF Encrypted, Forget, Keep, Carry, Sound, TypeOK
  <2>9. TaskInv'
    <3>1. ASSUME NEW t \in Tasks  PROVE TaskOK(t)'
      <4>1. TaskOK(t)  BY DEF Sound, TaskInv
      <4>2. frame' = [frame EXCEPT ![Send] = 0] /\ via' = [via EXCEPT ![Send] = NoRun] /\ conn' = conn
        BY <1>4 DEF Encrypted, Forget, Carry
      <4>3. CASE t = Send  BY <1>0, <2>4, <4>3 DEF TaskOK, Sound, TypeOK
      <4>4. CASE t # Send  BY <1>0, <2>2, <2>3, <2>4, <4>1, <4>2, <4>4 DEF TaskOK, Sound, TypeOK
      <4> QED  BY <4>3, <4>4
    <3> QED  BY <1>4, <3>1 DEF Encrypted, Sound, TaskInv
  <2> QED  BY <2>8, <2>9 DEF Sound
<1> QED  BY <1>2, <1>3, <1>4

LEMMA NextSound == Sound /\ [Next]_vars => Sound'
<1> SUFFICES ASSUME Sound, [Next]_vars  PROVE Sound'
  OBVIOUS
<1>1. CASE UNCHANGED vars
  BY <1>1 DEF Sound, TypeOK, TaskInv, TaskOK, vars, server, room, listing, trust, sockets, locals, work,
              cargo, histories, NoMap
<1>2. CASE Next
  <2>1. ASSUME NEW t \in Tasks, Fail(t)  PROVE Sound'
    BY <2>1, RotationStep
  <2>2. ASSUME NEW t \in Setups, Keyed(t)  PROVE Sound'
    BY <2>2, RotationStep DEF Tasks
  <2>3. ASSUME NEW t \in Rotations, Rotated(t) \/ \E e \in 1..serverEpoch : RotateKeys(t, e)  PROVE Sound'
    BY <2>3, RotationStep DEF Tasks, Setups
  <2> QED  BY <1>2, <2>1, <2>2, <2>3, ServerStep, RunStep, TrustStep, HandlerStep, SenderStep DEF Next
<1> QED  BY <1>1, <1>2

\* What the view keeps has its type (ChatRoom.tsx:40-299, lib/trustStore.ts).
THEOREM TypeCorrect == Spec => []TypeOK
<1>1. Sound => TypeOK  BY DEF Sound
<1> QED  BY <1>1, InitSound, NextSound, PTL DEF Spec

-----------------------------------------------------------------------------
(* Recipients *)

\* Members of one name are sent a message together only under one fingerprint
\* (ChatRoom.tsx:359, trustStore.ts:92).
THEOREM NamesakesAgree == Spec => []NamesakesShareFingerprint
<1>1. Init => NamesakesShareFingerprint
  BY DEF Init, NamesakesShareFingerprint
<1>2. ASSUME NEW shown \in SUBSET Entries, AllPeersVerified(shown), NEW d \in shown, NEW e \in shown,
             d.name = e.name
      PROVE  d.fp = e.fp
  BY <1>2 DEF AllPeersVerified, PeerTrustStatus
<1>3. Sound /\ NamesakesShareFingerprint /\ [Next]_vars => NamesakesShareFingerprint'
  <2> SUFFICES ASSUME Sound, NamesakesShareFingerprint, [Next]_vars  PROVE NamesakesShareFingerprint'
    OBVIOUS
  <2>1. CASE SendMessage
    <3>1. list' = {} \/ \E shown \in SUBSET Entries : list' = shown /\ AllPeersVerified(shown)
      <4>1. epoch \in Nat /\ rounds \in Nat /\ ref \in Runs
        BY <2>1, RefDone DEF SendMessage, Sound, TypeOK
      <4>2. \A m : EntriesOf(m) \in SUBSET Entries
        BY DEF EntriesOf
      <4>3. CASE peers # {}
        BY <2>1, <4>1, <4>3, CheckStep DEF SendMessage, Sound, TypeOK
      <4>4. CASE peers = {} /\ EntriesOf(map) # {}
        BY <2>1, <4>1, <4>2, <4>4, CheckStep DEF SendMessage
      <4>5. CASE peers = {} /\ EntriesOf(map) = {}
        BY <2>1, <4>5 DEF SendMessage
      <4> QED  BY <4>3, <4>4, <4>5
    <3> QED  BY <1>2, <3>1 DEF NamesakesShareFingerprint
  <2>2. CASE SendLoaded
    <3>1. PICK shown \in SUBSET Entries : Check("peers", shown, at[Send], via[Send], since[Send])
      BY <2>2 DEF SendLoaded, EntriesOf
    <3>2. list' = {} \/ (list' = shown /\ AllPeersVerified(shown))
      <4>1. CASE shown # {} /\ AllPeersVerified(shown)  BY <3>1, <4>1 DEF Check
      <4>2. CASE ~(shown # {} /\ AllPeersVerified(shown))  BY <3>1, <4>2 DEF Check
      <4> QED  BY <4>1, <4>2
    <3> QED  BY <1>2, <3>2 DEF NamesakesShareFingerprint
  <2>3. CASE Encrypted
    BY <2>3 DEF Encrypted, NamesakesShareFingerprint
  <2>4. CASE UNCHANGED list
    BY <2>4 DEF NamesakesShareFingerprint
  <2>5. CASE list' # list
    <3>1. Next  BY <2>5 DEF vars, locals
    <3>2. SendMessage \/ SendLoaded \/ Encrypted
      BY <2>5, <3>1 DEF Next, Rotate, LoadPeers, Render, OtherTab, Post, ReadRoom, Stop, Settled, HistoryRead,
           Joined, Opened, Lost, Rerun, Rotated, RotateKeys, Keyed, Fail, Ignore, Receive, SenderLoaded,
           Received, Trust, Untrust, locals
    <3> QED  BY <2>1, <2>2, <2>3, <3>2
  <2> QED  BY <2>4, <2>5
<1> QED  BY <1>1, <1>3, InitSound, NextSound, PTL DEF Spec

-----------------------------------------------------------------------------
(* Trust *)

\* What is trusted after a rotation was verified after it (ChatRoom.tsx:90,
\* trustStore.ts:41).
THEOREM TrustIsRenewed == Spec => []TrustEndsWithRotation
<1>1. Init => TrustEndsWithRotation
  BY DEF Init, TrustEndsWithRotation
<1>2. Sound /\ TrustEndsWithRotation /\ [Next]_vars => TrustEndsWithRotation'
  <2> SUFFICES ASSUME Sound, TrustEndsWithRotation, [Next]_vars  PROVE TrustEndsWithRotation'
    OBVIOUS
  <2>1. LoadTrust \in Maps /\ rounds \in Nat /\ NoMap' = NoMap
    BY LoadTrustType DEF Sound, TypeOK, NoMap
  <2>2. ASSUME NEW m \in Maps, SaveTrust(m)  PROVE LoadTrust' = m
    BY <2>2 DEF SaveTrust, LoadTrust, NoMap
  <2>3. CASE Render
    <3>1. LoadTrust' = LoadTrust
      BY <2>1, <2>2, <2>3 DEF Render
    <3> QED  BY <2>3, <3>1 DEF Render, TrustEndsWithRotation, histories
  <2>4. CASE OtherTab
    <3>1. LoadTrust' = NoMap
      BY <2>1, <2>4 DEF OtherTab, LoadTrust, Sound, TypeOK
    <3> QED  BY <3>1 DEF TrustEndsWithRotation, NoMap
  <2>5. ASSUME NEW e \in Entries, Trust(e)  PROVE TrustEndsWithRotation'
    <3>1. e.name \in Names /\ e.fp \in Prints
      BY MessagesAssumption
    <3>2. LoadTrust' = [LoadTrust EXCEPT ![e.name] = e.fp]
      BY <2>1, <2>2, <2>5, <3>1 DEF Trust, Maps
    <3>3. rounds' = rounds /\ verified' = IF rounds = 0 THEN {} ELSE verified \cup {<<e.name, e.fp>>}
      BY <2>5 DEF Trust
    <3>4. ASSUME rounds' > 0, NEW n \in Names, LoadTrust'[n] # NoPrint
          PROVE  <<n, LoadTrust'[n]>> \in verified'
      <4>1. CASE n = e.name  BY <2>1, <3>1, <3>2, <3>3, <3>4, <4>1 DEF Maps
      <4>2. CASE n # e.name  BY <2>1, <3>2, <3>3, <3>4, <4>2 DEF Maps, TrustEndsWithRotation
      <4> QED  BY <4>1, <4>2
    <3> QED  BY <3>4 DEF TrustEndsWithRotation
  <2>6. ASSUME NEW e \in Entries, Untrust(e)  PROVE TrustEndsWithRotation'
    <3>1. e.name \in Names
      BY MessagesAssumption
    <3>2. LoadTrust' = [LoadTrust EXCEPT ![e.name] = NoPrint]
      BY <2>1, <2>2, <2>6, <3>1 DEF Untrust, Maps
    <3> QED  BY <2>1, <2>6, <3>2 DEF Untrust, Maps, histories, TrustEndsWithRotation
  <2>7. ASSUME NEW t \in Rotations, NEW e \in 1..serverEpoch, RotateKeys(t, e)  PROVE TrustEndsWithRotation'
    <3>1. LoadTrust' = NoMap
      BY <2>7 DEF RotateKeys, ClearRoomTrust, LoadTrust, NoMap
    <3> QED  BY <3>1 DEF TrustEndsWithRotation, NoMap
  <2>8. CASE UNCHANGED <<trust, rounds, verified>>
    BY <2>8 DEF trust, TrustEndsWithRotation, LoadTrust, NoMap
  <2>9. \/ Render \/ OtherTab \/ \E e \in Entries : Trust(e) \/ Untrust(e)
        \/ \E t \in Rotations, e \in 1..serverEpoch : RotateKeys(t, e)
        \/ UNCHANGED <<trust, rounds, verified>>
    BY DEF Next, vars, Rotate, LoadPeers, Post, ReadRoom, Stop, Settled, HistoryRead, Joined, Opened, Lost,
           Rerun, Rotated, Keyed, Fail, Ignore, Receive, SenderLoaded, Received, SendMessage, SendLoaded,
           Encrypted, histories
  <2> QED  BY <2>3, <2>4, <2>5, <2>6, <2>7, <2>8, <2>9
<1> QED  BY <1>1, <1>2, InitSound, NextSound, PTL DEF Spec

-----------------------------------------------------------------------------
(* What a rotation leaves on the screen *)

\* What coroutine t shows of epoch e may be read.
Fresh(t, e) == e = epoch \/ reran \/ since[t] < rounds

\* What a coroutine knows of the epoch that it works for.
FreshTask(t) ==
    /\ since[t] <= rounds
    /\ pc[t] = "decrypt" =>
          \A b \in pending[t] : b.kind # "sent" /\ (b.kind = "text" => Fresh(t, b.epoch))
    /\ t \in Runs /\ pc[t] \in {"keys", "peers", "history"} => Fresh(t, at[t])
    /\ t = Send /\ pc[t] # "idle" => Fresh(t, at[t])

ForgetInv == RotationForgets /\ \A t \in Tasks : FreshTask(t)

\* The epoch changes by a rotation, or by a run of the effect, which is noted.
Onward ==
    \/ rounds' = rounds /\ (reran => reran') /\ (epoch' = epoch \/ reran')
    \/ rounds' = rounds + 1

\* The coroutines in s stay where they are.
Rest(s) == \A u \in s : pc'[u] = pc[u] /\ at'[u] = at[u] /\ since'[u] = since[u] /\ pending'[u] = pending[u]

LEMMA FreshKept ==
    ASSUME TypeOK, Onward, NEW t \in Tasks, Rest({t}), FreshTask(t)
    PROVE  FreshTask(t)'
<1>1. ASSUME NEW e, Fresh(t, e)  PROVE Fresh(t, e)'
  BY <1>1 DEF TypeOK, Onward, Rest, FreshTask, Fresh
<1>2. since'[t] <= rounds'
  BY DEF TypeOK, Onward, Rest, FreshTask
<1> QED  BY <1>1, <1>2 DEF Rest, FreshTask

\* What is on the screen may stay there unless a rotation begins.
LEMMA ScreenKept ==
    ASSUME TypeOK, RotationForgets, Onward, rounds' = rounds, messages' \subseteq messages
    PROVE  RotationForgets'
BY DEF TypeOK, Onward, RotationForgets, Read

\* A coroutine shows what it has.
LEMMA ScreenGrows ==
    ASSUME TypeOK, RotationForgets, NEW t \in Tasks, NEW bubbles \in SUBSET Bubbles, Show(t, bubbles),
           \A b \in bubbles : b.kind \in {"text", "sent"} => Fresh(t, b.epoch),
           UNCHANGED <<epoch, reran, rounds>>
    PROVE  RotationForgets'
<1> SUFFICES ASSUME NEW m \in Read'  PROVE m.epoch = epoch \/ reran \/ m.late
  BY DEF RotationForgets
<1>1. CASE m \in messages
  BY <1>1 DEF RotationForgets, Read
<1>2. CASE m \notin messages
  <2> PICK b \in bubbles : m = [b EXCEPT !.late = since[t] < rounds]
    BY <1>2 DEF Show, Read
  <2>1. m.kind = b.kind /\ m.epoch = b.epoch /\ m.late = (since[t] < rounds)
    BY DEF Bubbles
  <2>2. b.kind \in {"text", "sent"}
    BY <2>1 DEF Read
  <2> QED  BY <2>1, <2>2 DEF Fresh
<1> QED  BY <1>1, <1>2

\* One coroutine moves.
LEMMA ForgetOne ==
    ASSUME TypeOK, ForgetInv, Onward, NEW t \in Tasks, Rest(Tasks \ {t}), FreshTask(t)', RotationForgets'
    PROVE  ForgetInv'
<1>1. ASSUME NEW u \in Tasks  PROVE FreshTask(u)'
  <2>1. CASE u = t  BY <2>1
  <2>2. CASE u # t
    BY <2>2, FreshKept DEF ForgetInv, Rest
  <2> QED  BY <2>1, <2>2
<1> QED  BY <1>1 DEF ForgetInv

\* None does.
LEMMA ForgetNone ==
    ASSUME TypeOK, ForgetInv, UNCHANGED <<epoch, reran, rounds, messages, pc, at, since, pending>>
    PROVE  ForgetInv'
BY DEF ForgetInv, RotationForgets, Read, FreshTask, Fresh

\* The end of handleIncoming.
LEMMA DecryptBubbles ==
    ASSUME Sound, NEW h \in Handlers, NEW from \in {"idle", "peers"}, NEW i \in 1..Len(archive),
           NEW m, NEW r \in Runs, Decrypt(h, from, i, m, r)
    PROVE  /\ \A u \in Tasks \ {h} :
                 /\ pc'[u] = pc[u] /\ at'[u] = at[u] /\ since'[u] = since[u]
                 /\ frame'[u] = frame[u] /\ via'[u] = via[u] /\ pending'[u] = pending[u]
           /\ \/ pc'[h] = "idle" /\ since'[h] = 0
              \/ /\ pc'[h] = "decrypt" /\ since'[h] = rounds
                 /\ \A b \in pending'[h] :
                       /\ b.frame = i /\ b.by = r /\ b.kind # "sent"
                       /\ b.kind = "text" => b.epoch = epoch
                 /\ \A b, c \in pending'[h] : b = c
<1> USE DEF Sound, TypeOK
<1>1. h \in Tasks  BY DEF Tasks
<1>2. CASE archive[i].from = Me \/ m[archive[i].from] = NoEntry \/ ~archive[i].mine
  <2>1. pc' = [pc EXCEPT ![h] = "idle"] /\ Forget(h)
    BY <1>2 DEF Decrypt, Goto
  <2> QED  BY <1>1, <2>1 DEF Forget, Keep, Carry
<1>3. CASE ~(archive[i].from = Me \/ m[archive[i].from] = NoEntry \/ ~archive[i].mine)
  <2> DEFINE one == {i}
             live == TRUE
  <2> HIDE DEF one, live
  <2> PICK bubbles \in Decrypted(one, m, epoch, r, live) : Carry(h, 0, NoRun, bubbles)
    BY <1>3 DEF Decrypt, one, live
  <2>1. one \in SUBSET (1..Len(archive)) /\ live \in BOOLEAN /\ archive \in Seq(Frames)
    BY DEF one, live
  <2>2. /\ \A b \in bubbles : b.frame \in one /\ b.by = r /\ b.kind # "sent" /\ (b.kind = "text" => b.epoch = epoch)
        /\ \A b, c \in bubbles : b.frame = c.frame => b = c
    BY <2>1, DecryptedFacts
  <2>3. /\ \A b \in bubbles : b.frame = i
        /\ \A b, c \in bubbles : b = c
    BY <2>2 DEF one
  <2>4. pc' = [pc EXCEPT ![h] = "decrypt"] /\ Keep(h, 0, rounds)
    BY <1>3 DEF Decrypt, Goto
  <2> QED  BY <1>1, <2>2, <2>3, <2>4 DEF Keep, Carry
<1> QED  BY <1>2, <1>3

LEMMA ForgetRun ==
    ASSUME Sound, ForgetInv, NEW r \in Runs,
           ReadRoom(r) \/ Stop(r) \/ Settled(r) \/ HistoryRead(r) \/ Joined(r) \/ \E e \in 1..serverEpoch : Rerun(r, e)
    PROVE  ForgetInv'
<1> USE DEF Sound, ForgetInv, work, locals, cargo, histories
<1>0. r \in Tasks /\ r \notin Rotations /\ r \notin Handlers /\ r # Send /\ TypeOK /\ FreshTask(r)
  BY MessagesAssumption DEF Tasks, Setups
<1>1. CASE ReadRoom(r)
  <2>1. Onward /\ messages' = messages /\ rounds' = rounds
    BY <1>1 DEF ReadRoom, Onward
  <2>2. Rest(Tasks \ {r})
    BY <1>1 DEF ReadRoom, Goto, Keep, Rest
  <2>3. FreshTask(r)'
    BY <1>0, <1>1 DEF ReadRoom, Goto, Keep, FreshTask, Fresh, TypeOK
  <2> QED  BY <1>0, <2>1, <2>2, <2>3, ScreenKept, ForgetOne
<1>2. CASE Stop(r)
  <2>1. Onward /\ messages' = messages /\ rounds' = rounds
    BY <1>2 DEF Stop, Onward, room
  <2>2. Rest(Tasks \ {r}) /\ pc'[r] = "done" /\ since'[r] = since[r]
    BY <1>0, <1>2 DEF Stop, Goto, Rest, TypeOK
  <2>3. FreshTask(r)'
    BY <1>0, <2>1, <2>2 DEF FreshTask
  <2> QED  BY <1>0, <2>1, <2>2, <2>3, ScreenKept, ForgetOne
<1>3. CASE Settled(r)
  <2>1. Onward /\ messages' = messages /\ UNCHANGED <<rounds, epoch, reran>>
    BY <1>3 DEF Settled, Onward, room
  <2>2. CASE r \in cancelled
    <3>1. Rest(Tasks \ {r}) /\ pc'[r] = "done" /\ since'[r] = 0
      BY <1>0, <1>3, <2>2 DEF Settled, Goto, Forget, Keep, Carry, Rest, TypeOK
    <3>2. FreshTask(r)'
      BY <1>0, <2>1, <3>1 DEF FreshTask, TypeOK
    <3> QED  BY <1>0, <2>1, <3>1, <3>2, ScreenKept, ForgetOne
  <2>3. CASE r \notin cancelled
    <3>1. Rest(Tasks \ {r}) /\ pc[r] = "peers" /\ pc'[r] = "history" /\ since'[r] = since[r] /\ at'[r] = at[r]
      BY <1>0, <1>3, <2>3 DEF Settled, Goto, Rest, TypeOK
    <3>2. FreshTask(r)'
      BY <1>0, <2>1, <3>1 DEF FreshTask, Fresh
    <3> QED  BY <1>0, <2>1, <3>1, <3>2, ScreenKept, ForgetOne
  <2> QED  BY <2>2, <2>3
<1>4. CASE HistoryRead(r)
  <2> DEFINE all == 1..Len(archive)
             live == FALSE
             e == at[r]
  <2> HIDE DEF all, live, e
  <2> PICK bubbles \in Decrypted(all, map, e, r, live) : Carry(r, 0, NoRun, bubbles)
    BY <1>4 DEF HistoryRead, all, live, e
  <2>1. all \in SUBSET (1..Len(archive)) /\ archive \in Seq(Frames) /\ live \in BOOLEAN
    BY DEF all, live, TypeOK
  <2>2. \A b \in bubbles : b.kind # "sent" /\ (b.kind = "text" => b.epoch = at[r])
    BY <2>1, DecryptedFacts DEF e
  <2>3. Onward /\ messages' = messages /\ UNCHANGED <<rounds, epoch, reran>>
    BY <1>4 DEF HistoryRead, Onward, room
  <2>4. Rest(Tasks \ {r}) /\ pc[r] = "history" /\ pc'[r] = "decrypt" /\ since'[r] = since[r] /\ pending'[r] = bubbles
    BY <1>0, <1>4 DEF HistoryRead, Goto, Keep, Carry, Rest, TypeOK
  <2>5. FreshTask(r)'
    BY <1>0, <2>2, <2>3, <2>4 DEF FreshTask, Fresh
  <2> QED  BY <1>0, <2>3, <2>4, <2>5, ScreenKept, ForgetOne
<1>5. CASE Joined(r)
  <2>1. Onward /\ UNCHANGED <<rounds, epoch, reran>>
    BY <1>5 DEF Joined, Onward, room
  <2>2. pc[r] = "decrypt" /\ Show(r, pending[r]) /\ pending[r] \in SUBSET Bubbles
    BY <1>0, <1>5 DEF Joined, Goto, TypeOK
  <2>3. RotationForgets'
    BY <1>0, <2>1, <2>2, ScreenGrows DEF FreshTask
  <2>4. Rest(Tasks \ {r}) /\ pc'[r] = "done" /\ since'[r] = 0
    BY <1>0, <1>5 DEF Joined, Goto, Forget, Keep, Carry, Rest, TypeOK
  <2>5. FreshTask(r)'
    BY <1>0, <2>1, <2>4 DEF FreshTask, TypeOK
  <2> QED  BY <1>0, <2>1, <2>3, <2>4, <2>5, ForgetOne
<1>6. ASSUME NEW e \in 1..serverEpoch, Rerun(r, e)  PROVE ForgetInv'
  <2>1. Onward /\ messages' = messages /\ rounds' = rounds
    BY <1>6 DEF Rerun, Onward
  <2>2. Rest(Tasks \ {r}) /\ pc'[r] = "room" /\ since'[r] = since[r]
    BY <1>0, <1>6 DEF Rerun, Goto, Rest, TypeOK
  <2>3. FreshTask(r)'
    BY <1>0, <2>1, <2>2 DEF FreshTask
  <2> QED  BY <1>0, <2>1, <2>2, <2>3, ScreenKept, ForgetOne
<1> QED  BY <1>1, <1>2, <1>3, <1>4, <1>5, <1>6

LEMMA ForgetSetup ==
    ASSUME Sound, ForgetInv, NEW t \in Tasks,
           \/ t \in Rotations /\ (Rotated(t) \/ \E e \in 1..serverEpoch : RotateKeys(t, e))
           \/ t \in Setups /\ Keyed(t)
           \/ Fail(t)
    PROVE  ForgetInv'
<1> USE DEF Sound, ForgetInv, locals, work, cargo, histories
<1>0. TypeOK /\ FreshTask(t)  OBVIOUS
<1>1. CASE t \in Rotations /\ Rotated(t)
  <2>1. Onward /\ messages' = {} /\ rounds' = rounds
    BY <1>1 DEF Rotated, Onward, room
  <2>2. Rest(Tasks \ {t}) /\ pc'[t] = "idle" /\ since'[t] = 0 /\ t \notin Runs
    BY <1>0, <1>1, MessagesAssumption DEF Rotated, Goto, Forget, Keep, Carry, Rest, TypeOK
  <2>3. FreshTask(t)'
    BY <1>0, <2>1, <2>2 DEF FreshTask, TypeOK
  <2> QED  BY <1>0, <2>1, <2>2, <2>3, ScreenKept, ForgetOne
<1>2. ASSUME t \in Rotations, NEW e \in 1..serverEpoch, RotateKeys(t, e)  PROVE ForgetInv'
  <2>1. Onward /\ messages' = {} /\ rounds' = rounds + 1
    BY <1>2 DEF RotateKeys, Onward
  <2>2. Rest(Tasks \ {t}) /\ pc'[t] = "keys" /\ since'[t] = 0 /\ t \notin Runs /\ t # Send
    BY <1>0, <1>2, MessagesAssumption DEF RotateKeys, Goto, Keep, Rest, TypeOK, Setups
  <2>3. FreshTask(t)'
    BY <1>0, <2>1, <2>2 DEF FreshTask, TypeOK
  <2>4. RotationForgets'
    BY <2>1 DEF RotationForgets, Read
  <2> QED  BY <1>0, <2>1, <2>2, <2>3, <2>4, ForgetOne
<1>3. CASE t \in Setups /\ Keyed(t)
  <2>1. Onward /\ messages' = messages /\ UNCHANGED <<rounds, epoch, reran>>
    BY <1>3 DEF Keyed, Onward
  <2>2. /\ Rest(Tasks \ {t}) /\ pc[t] = "keys" /\ pc'[t] = "peers" /\ t # Send
        /\ since'[t] = since[t] /\ at'[t] = at[t]
    BY <1>0, <1>3, MessagesAssumption DEF Keyed, Goto, Rest, TypeOK
  <2>3. FreshTask(t)'
    BY <1>0, <2>1, <2>2 DEF FreshTask, Fresh
  <2> QED  BY <1>0, <2>1, <2>2, <2>3, ScreenKept, ForgetOne
<1>4. CASE Fail(t)
  <2>1. Onward /\ messages' = messages /\ rounds' = rounds
    BY <1>4 DEF Fail, Onward, room
  <2>2. Rest(Tasks \ {t}) /\ since'[t] = 0 /\ pc'[t] = IF t \in Runs THEN "done" ELSE "idle"
    BY <1>0, <1>4 DEF Fail, Forget, Keep, Carry, Rest, TypeOK
  <2>3. FreshTask(t)'
    BY <1>0, <2>1, <2>2, MessagesAssumption DEF FreshTask, TypeOK, Setups
  <2> QED  BY <1>0, <2>1, <2>2, <2>3, ScreenKept, ForgetOne
<1> QED  BY <1>1, <1>2, <1>3, <1>4

LEMMA ForgetHandler ==
    ASSUME Sound, ForgetInv, NEW h \in Handlers,
           SenderLoaded(h) \/ Received(h) \/ \E w \in wire : Receive(h, w[1], w[2])
    PROVE  ForgetInv'
<1> USE DEF Sound, ForgetInv, locals, work, cargo, histories
<1>0. h \in Tasks /\ h \notin Runs /\ h # Send /\ TypeOK /\ FreshTask(h)
  BY MessagesAssumption DEF Tasks, Setups
<1>1. ASSUME NEW from \in {"idle", "peers"}, NEW i \in 1..Len(archive), NEW m, NEW r \in Runs,
             Decrypt(h, from, i, m, r), UNCHANGED <<messages, epoch, rounds, reran>>
      PROVE  ForgetInv'
  <2>1. /\ Rest(Tasks \ {h})
        /\ \/ pc'[h] = "idle" /\ since'[h] = 0
           \/ /\ pc'[h] = "decrypt" /\ since'[h] = rounds
              /\ \A b \in pending'[h] : b.kind # "sent" /\ (b.kind = "text" => b.epoch = epoch)
    BY <1>1, DecryptBubbles DEF Rest
  <2>2. FreshTask(h)'
    BY <1>0, <1>1, <2>1 DEF FreshTask, Fresh, TypeOK
  <2>3. Onward
    BY <1>1 DEF Onward
  <2> QED  BY <1>0, <1>1, <2>1, <2>2, <2>3, ScreenKept, ForgetOne
<1>2. CASE SenderLoaded(h)
  <2>1. frame[h] \in 1..Len(archive) /\ via[h] \in Runs
    BY <1>0, <1>2 DEF SenderLoaded, TaskInv, TaskOK
  <2> DEFINE m == map'
             i == frame[h]
             r == via[h]
  <2> HIDE DEF m, i, r
  <2>2. Decrypt(h, "peers", i, m, r)
    BY <1>2 DEF SenderLoaded, m, i, r
  <2> QED  BY <1>1, <1>2, <2>1, <2>2 DEF SenderLoaded, room, i, r
<1>3. ASSUME NEW w \in wire, Receive(h, w[1], w[2])  PROVE ForgetInv'
  <2> DEFINE r == w[1]
             i == w[2]
  <2>1. r \in Runs /\ i \in 1..Len(archive)
    BY DEF TypeOK
  <2>2. UNCHANGED <<messages, epoch, rounds, reran>>
    BY <1>3 DEF Receive, room
  <2>3. CASE archive[i].from # Me /\ map[archive[i].from] # NoEntry
    <3>1. Decrypt(h, "idle", i, map, r)
      BY <1>3, <2>3 DEF Receive
    <3> QED  BY <1>1, <2>1, <2>2, <3>1
  <2>4. CASE ~(archive[i].from # Me /\ map[archive[i].from] # NoEntry)
    <3>1. pc'[h] = "peers" /\ since'[h] = 0 /\ Rest(Tasks \ {h})
      BY <1>0, <1>3, <2>4 DEF Receive, Goto, Keep, Carry, Rest, TypeOK
    <3>2. FreshTask(h)'
      BY <1>0, <2>2, <3>1 DEF FreshTask, TypeOK
    <3>3. Onward
      BY <2>2 DEF Onward
    <3> QED  BY <1>0, <2>2, <3>1, <3>2, <3>3, ScreenKept, ForgetOne
  <2> QED  BY <2>3, <2>4
<1>4. CASE Received(h)
  <2>1. Onward /\ UNCHANGED <<rounds, epoch, reran>>
    BY <1>4 DEF Received, Onward, room
  <2>2. pc[h] = "decrypt" /\ Show(h, pending[h]) /\ pending[h] \in SUBSET Bubbles
    BY <1>0, <1>4 DEF Received, Goto, TypeOK
  <2>3. RotationForgets'
    BY <1>0, <2>1, <2>2, ScreenGrows DEF FreshTask
  <2>4. Rest(Tasks \ {h}) /\ pc'[h] = "idle" /\ since'[h] = 0
    BY <1>0, <1>4 DEF Received, Goto, Forget, Keep, Carry, Rest, TypeOK
  <2>5. FreshTask(h)'
    BY <1>0, <2>1, <2>4 DEF FreshTask, TypeOK
  <2> QED  BY <1>0, <2>1, <2>3, <2>4, <2>5, ForgetOne
<1> QED  BY <1>2, <1>3, <1>4

LEMMA ForgetSender ==
    ASSUME Sound, ForgetInv, SendMessage \/ SendLoaded \/ Encrypted
    PROVE  ForgetInv'
<1> USE DEF Sound, ForgetInv, locals, work, cargo, histories
<1>0. Send \in Tasks /\ Send \notin Runs /\ Send \notin Handlers /\ TypeOK /\ FreshTask(Send)
  BY MessagesAssumption DEF Tasks, Setups
<1>1. UNCHANGED <<epoch, rounds, reran>> /\ Onward
  BY DEF SendMessage, SendLoaded, Encrypted, room, Onward
<1>2. ASSUME NEW e \in Nat, NEW r, NEW s \in Nat, s <= rounds, e = epoch \/ reran \/ s < rounds,
             messages' = messages,
             \/ pc' = [pc EXCEPT ![Send] = "idle"] /\ Forget(Send)
             \/ /\ \E to \in {"peers", "encrypt"} : pc' = [pc EXCEPT ![Send] = to]
                /\ Keep(Send, e, s) /\ Carry(Send, 0, r, {})
      PROVE  ForgetInv'
  <2>1. Rest(Tasks \ {Send})
    BY <1>2 DEF Forget, Keep, Carry, Rest, TypeOK
  <2>2. FreshTask(Send)'
    BY <1>0, <1>1, <1>2 DEF Forget, Keep, Carry, FreshTask, Fresh, TypeOK
  <2> QED  BY <1>0, <1>1, <1>2, <2>1, <2>2, ScreenKept, ForgetOne
<1>3. CASE SendMessage
  <2>1. messages' = messages /\ epoch \in Nat /\ rounds \in Nat /\ rounds <= rounds
    BY <1>3 DEF SendMessage, TypeOK
  <2>2. \/ pc' = [pc EXCEPT ![Send] = "idle"] /\ Forget(Send)
        \/ /\ \E to \in {"peers", "encrypt"} : pc' = [pc EXCEPT ![Send] = to]
           /\ Keep(Send, epoch, rounds) /\ Carry(Send, 0, ref, {})
    BY <1>3 DEF SendMessage, Check, Goto
  <2> QED  BY <1>2, <2>1, <2>2
<1>4. CASE SendLoaded
  <2>1. messages' = messages /\ pc[Send] = "peers"
    BY <1>4 DEF SendLoaded, Check, Goto
  <2>2. \/ pc' = [pc EXCEPT ![Send] = "idle"] /\ Forget(Send)
        \/ /\ \E to \in {"peers", "encrypt"} : pc' = [pc EXCEPT ![Send] = to]
           /\ Keep(Send, at[Send], since[Send]) /\ Carry(Send, 0, via[Send], {})
    BY <1>4 DEF SendLoaded, Check, Goto
  <2>3. at[Send] \in Nat /\ since[Send] \in Nat /\ since[Send] <= rounds /\ Fresh(Send, at[Send])
    BY <1>0, <2>1 DEF FreshTask, TypeOK
  <2>4. at[Send] = epoch \/ reran \/ since[Send] < rounds
    BY <2>3 DEF Fresh
  <2> QED  BY <1>2, <2>1, <2>2, <2>3, <2>4
<1>5. CASE Encrypted
  <2>1. pc[Send] = "encrypt" /\ via[Send] \in Runs
    BY <1>0, <1>5 DEF Encrypted, Goto, TaskInv, TaskOK
  <2> DEFINE b == [frame |-> IF conn[via[Send]] = "open" THEN Len(archive) + 1 ELSE 0, epoch |-> at[Send],
                   kind |-> "sent", by |-> via[Send], live |-> TRUE, late |-> FALSE]
  <2>2. Len(archive) \in Nat /\ at[Send] \in Nat
    BY <1>0 DEF TypeOK
  <2>3. b \in Bubbles
    BY <2>1, <2>2 DEF Bubbles
  <2>4. Show(Send, {b})
    BY <1>5 DEF Encrypted
  <2>5. Fresh(Send, b.epoch)
    BY <1>0, <2>1 DEF FreshTask
  <2> HIDE DEF b
  <2>6. RotationForgets'
    BY <1>0, <1>1, <2>3, <2>4, <2>5, ScreenGrows
  <2>7. Rest(Tasks \ {Send}) /\ pc'[Send] = "idle" /\ since'[Send] = 0
    BY <1>0, <1>5 DEF Encrypted, Goto, Forget, Keep, Carry, Rest, TypeOK
  <2>8. FreshTask(Send)'
    BY <1>0, <1>1, <2>7 DEF FreshTask, TypeOK
  <2> QED  BY <1>0, <1>1, <2>6, <2>7, <2>8, ForgetOne
<1> QED  BY <1>3, <1>4, <1>5

\* The actions in which no coroutine moves and nothing is shown.
Aside ==
    \/ Rotate \/ LoadPeers \/ Render \/ OtherTab
    \/ \E n \in Names, e \in 1..serverEpoch, mine \in BOOLEAN : Post(n, e, mine)
    \/ \E r \in Runs : Opened(r) \/ Lost(r)
    \/ \E w \in wire : Ignore(w)
    \/ \E e \in Entries : Trust(e) \/ Untrust(e)

\* A rotation takes what was readable off the screen, but for what was on its way
\* (ChatRoom.tsx:93).
THEOREM ScreenIsForgotten == Spec => []RotationForgets
<1>1. Init => ForgetInv
  BY MessagesAssumption DEF Init, ForgetInv, RotationForgets, Read, FreshTask, Fresh, Tasks, Setups
<1>2. Sound /\ ForgetInv /\ [Next]_vars => ForgetInv'
  <2> SUFFICES ASSUME Sound, ForgetInv, [Next]_vars  PROVE ForgetInv'
    OBVIOUS
  <2>1. CASE UNCHANGED vars
    BY <2>1, ForgetNone DEF Sound, vars, room, locals, work, cargo, histories
  <2>2. CASE Aside
    <3>1. UNCHANGED <<epoch, reran, rounds, messages, pc, at, since, pending>>
      BY <2>2 DEF Aside, Rotate, LoadPeers, Render, OtherTab, Post, Opened, Lost, Ignore, Trust, Untrust,
           room, locals, work, cargo, histories
    <3> QED  BY <3>1, ForgetNone DEF Sound
  <2>3. ASSUME NEW t \in Tasks, Fail(t)  PROVE ForgetInv'
    BY <2>3, ForgetSetup
  <2>4. ASSUME NEW t \in Setups, Keyed(t)  PROVE ForgetInv'
    BY <2>4, ForgetSetup DEF Tasks
  <2>5. ASSUME NEW t \in Rotations, Rotated(t) \/ \E e \in 1..serverEpoch : RotateKeys(t, e)  PROVE ForgetInv'
    BY <2>5, ForgetSetup DEF Tasks, Setups
  <2> QED  BY <2>1, <2>2, <2>3, <2>4, <2>5, ForgetRun, ForgetHandler, ForgetSender DEF Next, Aside
<1>3. ForgetInv => RotationForgets  BY DEF ForgetInv
<1> QED  BY <1>1, <1>2, <1>3, InitSound, NextSound, PTL DEF Spec

-----------------------------------------------------------------------------
(* Once *)

\* Handler h is about to show message i of the connection of run r.
Holds(h, r, i) ==
    \/ pc[h] = "peers" /\ via[h] = r /\ frame[h] = i
    \/ pc[h] = "decrypt" /\ \E b \in pending[h] : b.by = r /\ b.frame = i

Seen(r, i) == \E m \in messages : m.by = r /\ m.frame = i

\* What a coroutine is about to show is there once, and is its run's own.
PendingOK(t) ==
    pc[t] = "decrypt" =>
        /\ \A b \in pending[t] : b.frame \in 1..Len(archive) /\ (t \in Runs => b.by = t)
        /\ \A b, c \in pending[t] : b.frame = c.frame => b = c

\* A message is on the wire of a connection, or with one handler, or on the screen;
\* and there is nothing of a run on the screen before it is over.
OnceInv ==
    /\ ShownOnce
    /\ \A m \in messages :
          /\ m.frame <= Len(archive) /\ pc[m.by] = "done"
          /\ m.frame # 0 => <<m.by, m.frame>> \notin wire
    /\ \A h \in Handlers, r \in Runs, i \in 1..Len(archive) : Holds(h, r, i) =>
          /\ <<r, i>> \notin wire /\ ~Seen(r, i) /\ pc[r] = "done"
          /\ \A g \in Handlers : Holds(g, r, i) => g = h
    /\ \A t \in Tasks : PendingOK(t)

\* What a handler holds is stored, and of a run that there is.
LEMMA HeldIsStored ==
    ASSUME Sound, NEW h \in Handlers, PendingOK(h), NEW r, NEW i, Holds(h, r, i)
    PROVE  r \in Runs /\ i \in 1..Len(archive)
<1>1. h \in Tasks /\ TaskOK(h)  BY DEF Sound, TaskInv, Tasks
<1>2. CASE pc[h] = "peers"
  BY <1>1, <1>2 DEF TaskOK, Holds
<1>3. CASE pc[h] = "decrypt"
  <2> PICK b \in pending[h] : b.by = r /\ b.frame = i
    BY <1>3 DEF Holds
  <2>1. b \in Bubbles  BY <1>1 DEF Sound, TypeOK
  <2> QED  BY <1>3, <2>1 DEF PendingOK, Bubbles
<1> QED  BY <1>2, <1>3 DEF Holds

\* A connection is one of a run that is over.
LEMMA WireDone ==
    ASSUME Sound, NEW r, NEW i, <<r, i>> \in wire
    PROVE  r \in Runs /\ i \in 1..Len(archive) /\ pc[r] = "done"
<1>1. r \in Runs /\ i \in 1..Len(archive) /\ r \in Tasks  BY DEF Sound, TypeOK, Tasks, Setups
<1>2. <<r, i>>[1] = r  OBVIOUS
<1>3. conn[r] = "open"  BY <1>2 DEF Sound, TaskInv
<1> QED  BY <1>1, <1>3 DEF Sound, TaskInv, TaskOK

\* The coroutines in s stay as they are.
Still(s) == \A u \in s : pc'[u] = pc[u] /\ frame'[u] = frame[u] /\ via'[u] = via[u] /\ pending'[u] = pending[u]

LEMMA PendingKept ==
    ASSUME NEW t, Still({t}), PendingOK(t), Len(archive) \in Nat, Len(archive') \in Nat,
           Len(archive) <= Len(archive')
    PROVE  PendingOK(t)'
<1>1. pc'[t] = pc[t] /\ pending'[t] = pending[t]  BY DEF Still
<1>2. 1..Len(archive) \subseteq 1..Len(archive')  OBVIOUS
<1> QED  BY <1>1, <1>2 DEF PendingOK

\* Nothing new is shown or held; what is new on the wire has just been stored.
LEMMA OnceKept ==
    ASSUME Sound, OnceInv, Len(archive') \in Nat, Len(archive) <= Len(archive'), messages' \subseteq messages,
           \A r, i : <<r, i>> \in wire' => <<r, i>> \in wire \/ i = Len(archive) + 1,
           \A r \in Runs : pc[r] = "done" => pc'[r] = "done",
           \A h \in Handlers : Still({h}) \/ pc'[h] = "idle",
           \A t \in Tasks : Still({t}) \/ PendingOK(t)'
    PROVE  OnceInv'
<1>0. Len(archive) \in Nat  BY DEF Sound, TypeOK
<1>1. \A t \in Tasks : PendingOK(t)'
  BY <1>0, PendingKept DEF OnceInv
<1>2. ShownOnce'
  BY DEF OnceInv, ShownOnce
<1>3. ASSUME NEW m \in messages'
      PROVE  /\ m.frame <= Len(archive') /\ pc'[m.by] = "done"
             /\ m.frame # 0 => <<m.by, m.frame>> \notin wire'
  <2>1. m \in messages /\ m \in Bubbles /\ m.by \in Runs /\ m.frame \in Nat
    BY DEF Sound, TypeOK, Bubbles
  <2> QED  BY <1>0, <2>1 DEF OnceInv
<1>4. ASSUME NEW h \in Handlers, NEW r \in Runs, NEW i \in 1..Len(archive'), Holds(h, r, i)'
      PROVE  /\ <<r, i>> \notin wire' /\ ~Seen(r, i)' /\ pc'[r] = "done"
             /\ \A g \in Handlers : Holds(g, r, i)' => g = h
  <2>1. ASSUME NEW g \in Handlers, Holds(g, r, i)'  PROVE Holds(g, r, i) /\ i \in 1..Len(archive)
    <3>1. Still({g})  BY <2>1 DEF Holds
    <3>2. Holds(g, r, i)  BY <2>1, <3>1 DEF Holds, Still
    <3>3. PendingOK(g)  BY DEF OnceInv, Tasks
    <3> QED  BY <3>2, <3>3, HeldIsStored
  <2>2. Holds(h, r, i) /\ i \in 1..Len(archive)  BY <1>4, <2>1
  <2>3. <<r, i>> \notin wire /\ ~Seen(r, i) /\ pc[r] = "done"
    BY <2>2 DEF OnceInv
  <2>4. <<r, i>> \notin wire'  BY <1>0, <2>2, <2>3
  <2>5. ~Seen(r, i)'  BY <2>3 DEF Seen
  <2>6. \A g \in Handlers : Holds(g, r, i)' => g = h
    BY <2>1, <2>2 DEF OnceInv
  <2> QED  BY <2>3, <2>4, <2>5, <2>6
<1> QED  BY <1>1, <1>2, <1>3, <1>4 DEF OnceInv

\* One handler takes a message from the wire, or goes on with the one it holds.
LEMMA OnceHeld ==
    ASSUME Sound, OnceInv, NEW h \in Handlers, UNCHANGED <<archive, messages>>, wire' \subseteq wire,
           Still(Tasks \ {h}), PendingOK(h)', h \notin Runs,
           \A r, i : Holds(h, r, i)' => Holds(h, r, i) \/ (<<r, i>> \in wire /\ <<r, i>> \notin wire')
    PROVE  OnceInv'
<1>0. Len(archive) \in Nat /\ h \in Tasks  BY DEF Sound, TypeOK, Tasks
<1>1. ASSUME NEW t \in Tasks  PROVE PendingOK(t)'
  <2>1. CASE t = h  BY <2>1
  <2>2. CASE t # h
    <3>1. Still({t})  BY <2>2 DEF Still
    <3>2. Len(archive') = Len(archive)  OBVIOUS
    <3> QED  BY <1>0, <3>1, <3>2, PendingKept DEF OnceInv
  <2> QED  BY <2>1, <2>2
<1>2. ShownOnce'
  BY DEF OnceInv, ShownOnce
<1>3. \A r \in Runs : pc'[r] = pc[r]
  BY DEF Still, Tasks, Setups
<1>4. ASSUME NEW m \in messages'
      PROVE  /\ m.frame <= Len(archive') /\ pc'[m.by] = "done"
             /\ m.frame # 0 => <<m.by, m.frame>> \notin wire'
  <2>1. m \in messages /\ m \in Bubbles /\ m.by \in Runs
    BY DEF Sound, TypeOK, Bubbles
  <2> QED  BY <1>3, <2>1 DEF OnceInv
<1>5. ASSUME NEW g \in Handlers \ {h}, NEW r, NEW i, Holds(g, r, i)'
      PROVE  /\ Holds(g, r, i) /\ r \in Runs /\ i \in 1..Len(archive)
             /\ <<r, i>> \notin wire /\ ~Seen(r, i) /\ pc[r] = "done"
             /\ \A f \in Handlers : Holds(f, r, i) => f = g
  <2>1. g \in Tasks /\ PendingOK(g)  BY DEF Tasks, OnceInv
  <2>2. Holds(g, r, i)  BY <1>5, <2>1 DEF Holds, Still
  <2>3. r \in Runs /\ i \in 1..Len(archive)  BY <2>1, <2>2, HeldIsStored
  <2> QED  BY <2>2, <2>3 DEF OnceInv
<1>6. ASSUME NEW r, NEW i, Holds(h, r, i)'
      PROVE  /\ <<r, i>> \notin wire' /\ ~Seen(r, i) /\ r \in Runs /\ pc[r] = "done"
             /\ \A f \in Handlers \ {h} : ~Holds(f, r, i)
  <2>1. CASE Holds(h, r, i)
    <3>1. PendingOK(h)  BY <1>0 DEF OnceInv
    <3>2. r \in Runs /\ i \in 1..Len(archive)  BY <2>1, <3>1, HeldIsStored
    <3> QED  BY <2>1, <3>2 DEF OnceInv
  <2>2. CASE <<r, i>> \in wire /\ <<r, i>> \notin wire'
    <3>1. r \in Runs /\ i \in 1..Len(archive) /\ pc[r] = "done"  BY <2>2, WireDone
    <3>2. i # 0  BY <3>1
    <3>3. ~Seen(r, i)  BY <2>2, <3>2 DEF OnceInv, Seen
    <3>4. ASSUME NEW f \in Handlers, Holds(f, r, i)  PROVE FALSE
      BY <2>2, <3>1, <3>4 DEF OnceInv
    <3> QED  BY <2>2, <3>1, <3>3, <3>4
  <2> QED  BY <1>6, <2>1, <2>2
<1>7. ASSUME NEW g \in Handlers, NEW r \in Runs, NEW i \in 1..Len(archive'), Holds(g, r, i)'
      PROVE  /\ <<r, i>> \notin wire' /\ ~Seen(r, i)' /\ pc'[r] = "done"
             /\ \A f \in Handlers : Holds(f, r, i)' => f = g
  <2>1. Seen(r, i)' <=> Seen(r, i)  BY DEF Seen
  <2>2. CASE g = h
    BY <1>3, <1>5, <1>6, <1>7, <2>1, <2>2
  <2>3. CASE g # h
    <3>0. Holds(g, r, i) /\ \A f \in Handlers : Holds(f, r, i) => f = g
      BY <1>5, <1>7, <2>3
    <3>1. ASSUME Holds(h, r, i)'  PROVE FALSE
      BY <1>6, <2>3, <3>0, <3>1
    <3>2. ASSUME NEW f \in Handlers, Holds(f, r, i)'  PROVE f = g
      <4>1. f \in Handlers \ {h}  BY <3>1, <3>2
      <4>2. Holds(f, r, i)  BY <1>5, <3>2, <4>1
      <4> QED  BY <3>0, <4>2
    <3> QED  BY <1>3, <1>5, <1>7, <2>1, <2>3, <3>2
  <2> QED  BY <2>2, <2>3
<1> QED  BY <1>1, <1>2, <1>4, <1>7 DEF OnceInv

\* Bubbles that are new to the screen, one for a message, are shown.
LEMMA OnceShown ==
    ASSUME Sound, OnceInv, NEW t \in Tasks, NEW bubbles \in SUBSET Bubbles, Show(t, bubbles),
           Still(Tasks \ {t}), pc'[t] \in {"idle", "done"}, t \in Runs => pc'[t] = "done",
           Len(archive') \in Nat, Len(archive) <= Len(archive'), wire' = wire,
           \A b, c \in bubbles : b.frame = c.frame => b = c,
           \A b \in bubbles :
              /\ b.frame <= Len(archive') /\ pc'[b.by] = "done"
              /\ b.frame # 0 =>
                    /\ ~Seen(b.by, b.frame) /\ <<b.by, b.frame>> \notin wire
                    /\ \A h \in Handlers \ {t} : ~Holds(h, b.by, b.frame)
    PROVE  OnceInv'
<1>0. Len(archive) \in Nat  BY DEF Sound, TypeOK
<1>1. ASSUME NEW u \in Tasks  PROVE PendingOK(u)'
  <2>1. CASE u = t  BY <2>1 DEF PendingOK
  <2>2. CASE u # t
    <3>1. Still({u})  BY <2>2 DEF Still
    <3> QED  BY <1>0, <3>1, PendingKept DEF OnceInv
  <2> QED  BY <2>1, <2>2
<1>2. \A r \in Runs : pc[r] = "done" => pc'[r] = "done"
  BY DEF Still, Tasks, Setups
<1>3. ASSUME NEW m \in messages' \ messages
      PROVE  \E b \in bubbles : /\ m = [b EXCEPT !.late = since[t] < rounds]
                                /\ m.frame = b.frame /\ m.by = b.by
  <2> PICK b \in bubbles : m = [b EXCEPT !.late = since[t] < rounds]
    BY DEF Show
  <2>1. m.frame = b.frame /\ m.by = b.by
    BY DEF Bubbles
  <2> QED  BY <2>1
<1>4. ASSUME NEW m \in messages', NEW n \in messages', m.frame # 0, m.frame = n.frame, m.by = n.by
      PROVE  m = n
  <2>1. CASE m \in messages /\ n \in messages
    BY <1>4, <2>1 DEF OnceInv, ShownOnce
  <2>2. CASE m \in messages /\ n \notin messages
    <3>1. PICK b \in bubbles : n.frame = b.frame /\ n.by = b.by
      BY <1>3, <2>2
    <3>2. Seen(b.by, b.frame)  BY <1>4, <2>2, <3>1 DEF Seen
    <3> QED  BY <1>4, <3>1, <3>2
  <2>3. CASE m \notin messages /\ n \in messages
    <3>1. PICK b \in bubbles : m.frame = b.frame /\ m.by = b.by
      BY <1>3, <2>3
    <3>2. Seen(b.by, b.frame)  BY <1>4, <2>3, <3>1 DEF Seen
    <3> QED  BY <1>4, <3>1, <3>2
  <2>4. CASE m \notin messages /\ n \notin messages
    BY <1>3, <1>4, <2>4
  <2> QED  BY <2>1, <2>2, <2>3, <2>4
<1>5. ASSUME NEW m \in messages'
      PROVE  /\ m.frame <= Len(archive') /\ pc'[m.by] = "done"
             /\ m.frame # 0 => <<m.by, m.frame>> \notin wire'
  <2>1. CASE m \in messages
    <3>1. m.by \in Runs /\ m.frame \in Nat  BY <2>1 DEF Sound, TypeOK, Bubbles
    <3> QED  BY <1>0, <1>2, <2>1, <3>1 DEF OnceInv
  <2>2. CASE m \notin messages
    BY <1>3, <2>2
  <2> QED  BY <2>1, <2>2
<1>6. ASSUME NEW h \in Handlers, NEW r \in Runs, NEW i \in 1..Len(archive'), Holds(h, r, i)'
      PROVE  /\ <<r, i>> \notin wire' /\ ~Seen(r, i)' /\ pc'[r] = "done"
             /\ \A g \in Handlers : Holds(g, r, i)' => g = h
  <2>1. ASSUME NEW g \in Handlers, Holds(g, r, i)'
        PROVE  g # t /\ Holds(g, r, i) /\ i \in 1..Len(archive)
    <3>1. g \in Tasks /\ g # t /\ PendingOK(g)  BY <2>1 DEF Tasks, Holds, OnceInv
    <3>2. Holds(g, r, i)  BY <2>1, <3>1 DEF Holds, Still
    <3> QED  BY <3>1, <3>2, HeldIsStored
  <2>2. h # t /\ Holds(h, r, i) /\ i \in 1..Len(archive)  BY <1>6, <2>1
  <2>3. <<r, i>> \notin wire /\ ~Seen(r, i) /\ pc[r] = "done" /\ i # 0
    BY <2>2 DEF OnceInv
  <2>4. ~Seen(r, i)'
    <3> SUFFICES ASSUME NEW m \in messages', m.by = r, m.frame = i  PROVE FALSE
      BY DEF Seen
    <3>1. m \notin messages  BY <2>3 DEF Seen
    <3> QED  BY <1>3, <2>2, <2>3, <3>1
  <2>5. \A g \in Handlers : Holds(g, r, i)' => g = h
    BY <2>1, <2>2 DEF OnceInv
  <2> QED  BY <1>2, <2>3, <2>4, <2>5
<1> QED  BY <1>1, <1>4, <1>5, <1>6 DEF OnceInv, ShownOnce

\* A step that adds nothing: what its coroutine has left is empty, or not for the screen.
LEMMA OnceQuiet ==
    ASSUME Sound, OnceInv, NEW t \in Tasks, UNCHANGED archive, messages' \subseteq messages, wire' \subseteq wire,
           Still(Tasks \ {t}), t \in Runs => pc[t] # "done", t \in Handlers => pc'[t] = "idle", PendingOK(t)'
    PROVE  OnceInv'
<1>0. Len(archive) \in Nat /\ Len(archive') = Len(archive)  BY DEF Sound, TypeOK
<1>1. \A u \in Tasks : Still({u}) \/ PendingOK(u)'
  BY DEF Still
<1>2. \A r \in Runs : pc[r] = "done" => pc'[r] = "done"
  BY DEF Still, Tasks, Setups
<1>3. \A h \in Handlers : Still({h}) \/ pc'[h] = "idle"
  BY DEF Still, Tasks
<1> QED  BY <1>0, <1>1, <1>2, <1>3, OnceKept

\* No coroutine moves.
LEMMA OnceAside == ASSUME Sound, OnceInv, Aside  PROVE OnceInv'
<1> USE DEF room, listing, trust, sockets, locals, work, cargo, histories
<1>1. /\ UNCHANGED <<messages, pc, frame, via, pending>>
      /\ \/ archive' = archive /\ wire' \subseteq wire
         \/ \E n \in Names, e \in 1..serverEpoch, mine \in BOOLEAN : Post(n, e, mine)
  BY DEF Aside, Rotate, LoadPeers, Render, OtherTab, Post, Opened, Lost, Ignore, Trust, Untrust, server
<1>2. \A s : Still(s)
  BY <1>1 DEF Still
<1>3. Len(archive) \in Nat /\ archive \in Seq(Frames)
  BY DEF Sound, TypeOK
<1>4. CASE archive' = archive /\ wire' \subseteq wire
  <2>1. Len(archive') = Len(archive)  BY <1>4
  <2>2. \A r, i : <<r, i>> \in wire' => <<r, i>> \in wire \/ i = Len(archive) + 1
    BY <1>4
  <2> QED  BY <1>1, <1>2, <1>3, <2>1, <2>2, OnceKept
<1>5. ASSUME NEW n \in Names, NEW e \in 1..serverEpoch, NEW mine \in BOOLEAN, Post(n, e, mine)
      PROVE  OnceInv'
  <2> DEFINE f == [from |-> n, epoch |-> e, mine |-> mine]
  <2>1. f \in Frames  BY DEF Sound, TypeOK, Frames
  <2>2. Len(archive') = Len(archive) + 1
    BY <1>3, <1>5, <2>1, Stored DEF Post
  <2>3. \A r, i : <<r, i>> \in wire' => <<r, i>> \in wire \/ i = Len(archive) + 1
    BY <1>5 DEF Post
  <2>4. Len(archive') \in Nat /\ Len(archive) <= Len(archive')
    BY <1>3, <2>2
  <2> QED  BY <1>1, <1>2, <2>3, <2>4, OnceKept
<1> QED  BY <1>1, <1>4, <1>5

LEMMA OnceRun ==
    ASSUME Sound, OnceInv, NEW r \in Runs,
           ReadRoom(r) \/ Stop(r) \/ Settled(r) \/ HistoryRead(r) \/ Joined(r) \/ \E e \in 1..serverEpoch : Rerun(r, e)
    PROVE  OnceInv'
<1> USE DEF Sound, room, trust, work, locals, cargo, histories
<1>0. r \in Tasks /\ r \notin Handlers /\ Len(archive) \in Nat
  BY MessagesAssumption DEF Tasks, Setups, TypeOK
<1>1. CASE ReadRoom(r) \/ Stop(r) \/ Settled(r) \/ \E e \in 1..serverEpoch : Rerun(r, e)
  <2>1. UNCHANGED archive /\ messages' = messages /\ wire' \subseteq wire
    BY <1>1 DEF ReadRoom, Stop, Settled, Rerun, server
  <2>2. pc[r] # "done" /\ \E to \in {"keys", "done", "history", "room"} : pc' = [pc EXCEPT ![r] = to]
    BY <1>1 DEF ReadRoom, Stop, Settled, Rerun, Goto
  <2>3. UNCHANGED cargo \/ Forget(r)
    BY <1>1 DEF ReadRoom, Stop, Settled, Rerun
  <2>4. Still(Tasks \ {r})
    BY <2>2, <2>3 DEF Still, Forget, Carry, TypeOK
  <2>5. PendingOK(r)'
    BY <1>0, <2>2 DEF PendingOK, TypeOK
  <2> QED  BY <1>0, <2>1, <2>2, <2>4, <2>5, OnceQuiet
<1>2. CASE HistoryRead(r)
  <2> DEFINE all == 1..Len(archive)
             live == FALSE
             e == at[r]
  <2> HIDE DEF all, live, e
  <2> PICK bubbles \in Decrypted(all, map, e, r, live) : Carry(r, 0, NoRun, bubbles)
    BY <1>2 DEF HistoryRead, all, live, e
  <2>1. all \in SUBSET (1..Len(archive)) /\ archive \in Seq(Frames) /\ live \in BOOLEAN
    BY DEF all, live, TypeOK
  <2>2. /\ \A b \in bubbles : b.frame \in all /\ b.by = r
        /\ \A b, c \in bubbles : b.frame = c.frame => b = c
    BY <2>1, DecryptedFacts
  <2>3. UNCHANGED <<archive, messages, wire>>
    BY <1>2 DEF HistoryRead, server
  <2>4. Still(Tasks \ {r}) /\ pc[r] = "history" /\ pc'[r] = "decrypt" /\ pending'[r] = bubbles
    BY <1>0, <1>2 DEF HistoryRead, Goto, Carry, Still, TypeOK
  <2>5. PendingOK(r)'
    BY <2>1, <2>2, <2>3, <2>4 DEF PendingOK
  <2> QED  BY <1>0, <2>3, <2>4, <2>5, OnceQuiet
<1>3. CASE Joined(r)
  <2>1. UNCHANGED <<archive, wire>> /\ Show(r, pending[r]) /\ pc[r] = "decrypt"
    BY <1>3 DEF Joined, Goto, server
  <2>2. Still(Tasks \ {r}) /\ pc'[r] = "done"
    BY <1>0, <1>3 DEF Joined, Goto, Forget, Carry, Still, TypeOK
  <2>3. pending[r] \in SUBSET Bubbles /\ PendingOK(r)
    BY <1>0 DEF TypeOK, OnceInv
  <2>4. /\ \A b, c \in pending[r] : b.frame = c.frame => b = c
        /\ \A b \in pending[r] : b.frame \in 1..Len(archive) /\ b.by = r
    BY <2>1, <2>3 DEF PendingOK
  <2>5. ASSUME NEW b \in pending[r]
        PROVE  /\ b.frame <= Len(archive') /\ pc'[b.by] = "done"
               /\ ~Seen(b.by, b.frame) /\ <<b.by, b.frame>> \notin wire
               /\ \A h \in Handlers \ {r} : ~Holds(h, b.by, b.frame)
    <3>1. b.frame \in 1..Len(archive) /\ b.by = r
      BY <2>4
    <3>2. ~Seen(r, b.frame)
      BY <2>1 DEF Seen, OnceInv
    <3>3. <<r, b.frame>> \notin wire
      BY <2>1, WireDone
    <3>4. \A h \in Handlers : ~Holds(h, r, b.frame)
      BY <2>1, <3>1 DEF OnceInv
    <3> QED  BY <1>0, <2>1, <2>2, <3>1, <3>2, <3>3, <3>4
  <2>6. Len(archive') \in Nat /\ Len(archive) <= Len(archive') /\ wire' = wire
    BY <1>0, <2>1
  <2> DEFINE bubbles == pending[r]
  <2>7. bubbles \in SUBSET Bubbles /\ Show(r, bubbles)
    BY <2>1, <2>3
  <2> HIDE DEF bubbles
  <2>8. /\ \A b, c \in bubbles : b.frame = c.frame => b = c
        /\ \A b \in bubbles :
              /\ b.frame <= Len(archive') /\ pc'[b.by] = "done"
              /\ ~Seen(b.by, b.frame) /\ <<b.by, b.frame>> \notin wire
              /\ \A h \in Handlers \ {r} : ~Holds(h, b.by, b.frame)
    BY <2>4, <2>5 DEF bubbles
  <2> QED  BY <1>0, <2>2, <2>6, <2>7, <2>8, OnceShown
<1> QED  BY <1>1, <1>2, <1>3

LEMMA OnceSetup ==
    ASSUME Sound, OnceInv, NEW t \in Tasks,
           \/ t \in Rotations /\ (Rotated(t) \/ \E e \in 1..serverEpoch : RotateKeys(t, e))
           \/ t \in Setups /\ Keyed(t)
           \/ Fail(t)
    PROVE  OnceInv'
<1> USE MessagesAssumption DEF Sound, room, locals, work, cargo, histories
<1>1. UNCHANGED archive /\ messages' \subseteq messages /\ wire' = wire
  BY DEF Rotated, RotateKeys, Keyed, Fail, server
<1>2. /\ \E to \in {"idle", "keys", "peers", "done"} : pc' = [pc EXCEPT ![t] = to]
      /\ pc[t] # "done"
  BY DEF Rotated, RotateKeys, Keyed, Fail, Goto
<1>3. UNCHANGED cargo \/ Forget(t)
  BY DEF Rotated, RotateKeys, Keyed, Fail
<1>4. Still(Tasks \ {t})
  BY <1>2, <1>3 DEF Still, Forget, Carry, TypeOK
<1>5. PendingOK(t)'
  BY <1>2 DEF PendingOK, TypeOK
<1>6. t \in Handlers => pc'[t] = "idle"
  BY DEF Rotated, RotateKeys, Keyed, Fail, TypeOK, Setups
<1> QED  BY <1>1, <1>2, <1>4, <1>5, <1>6, OnceQuiet

LEMMA OnceHandler ==
    ASSUME Sound, OnceInv, NEW h \in Handlers,
           SenderLoaded(h) \/ Received(h) \/ \E w \in wire : Receive(h, w[1], w[2])
    PROVE  OnceInv'
<1> USE DEF Sound, room, listing, locals, work, cargo, histories
<1>0. h \in Tasks /\ h \notin Runs /\ PendingOK(h) /\ Len(archive) \in Nat
  BY MessagesAssumption DEF Tasks, Setups, OnceInv, TypeOK
<1>1. ASSUME NEW from \in {"idle", "peers"}, NEW i \in 1..Len(archive), NEW m, NEW r \in Runs,
             Decrypt(h, from, i, m, r), UNCHANGED <<archive, messages>>, wire' \subseteq wire,
             Holds(h, r, i) \/ (<<r, i>> \in wire /\ <<r, i>> \notin wire')
      PROVE  OnceInv'
  <2>1. /\ Still(Tasks \ {h})
        /\ \/ pc'[h] = "idle"
           \/ /\ pc'[h] = "decrypt"
              /\ \A b \in pending'[h] : b.frame = i /\ b.by = r
              /\ \A b, c \in pending'[h] : b = c
    BY <1>1, DecryptBubbles DEF Still
  <2>2. PendingOK(h)'
    BY <1>0, <1>1, <2>1 DEF PendingOK
  <2>3. \A q, k : Holds(h, q, k)' => q = r /\ k = i
    BY <2>1 DEF Holds
  <2>4. \A q, k : Holds(h, q, k)' => Holds(h, q, k) \/ (<<q, k>> \in wire /\ <<q, k>> \notin wire')
    BY <1>1, <2>3
  <2> QED  BY <1>0, <1>1, <2>1, <2>2, <2>4, OnceHeld
<1>2. CASE SenderLoaded(h)
  <2>1. frame[h] \in 1..Len(archive) /\ via[h] \in Runs
    BY <1>0, <1>2 DEF SenderLoaded, TaskInv, TaskOK
  <2> DEFINE m == map'
             i == frame[h]
             r == via[h]
  <2>2. Holds(h, r, i)
    BY <1>2 DEF SenderLoaded, Holds
  <2>3. UNCHANGED <<archive, messages>> /\ wire' \subseteq wire
    BY <1>2 DEF SenderLoaded, server
  <2> HIDE DEF m, i, r
  <2>4. Decrypt(h, "peers", i, m, r)
    BY <1>2 DEF SenderLoaded, m, i, r
  <2> QED  BY <1>1, <2>1, <2>2, <2>3, <2>4 DEF i, r
<1>3. ASSUME NEW w \in wire, Receive(h, w[1], w[2])  PROVE OnceInv'
  <2> DEFINE r == w[1]
             i == w[2]
  <2>1. r \in Runs /\ i \in 1..Len(archive) /\ <<r, i>> \in wire
    <3>1. w \in Runs \X (1..Len(archive))  BY DEF TypeOK
    <3>2. w = <<w[1], w[2]>>  BY <3>1
    <3> QED  BY <3>1, <3>2
  <2>2. UNCHANGED <<archive, messages>> /\ wire' \subseteq wire /\ <<r, i>> \notin wire'
    BY <1>3 DEF Receive, server
  <2>3. CASE archive[i].from # Me /\ map[archive[i].from] # NoEntry
    <3>1. Decrypt(h, "idle", i, map, r)
      BY <1>3, <2>3 DEF Receive
    <3> QED  BY <1>1, <2>1, <2>2, <3>1
  <2>4. CASE ~(archive[i].from # Me /\ map[archive[i].from] # NoEntry)
    <3>1. pc'[h] = "peers" /\ frame'[h] = i /\ via'[h] = r /\ Still(Tasks \ {h})
      BY <1>0, <1>3, <2>4 DEF Receive, Goto, Carry, Still, TypeOK
    <3>2. PendingOK(h)'
      BY <3>1 DEF PendingOK
    <3>3. \A q, k : Holds(h, q, k)' => <<q, k>> \in wire /\ <<q, k>> \notin wire'
      BY <2>1, <2>2, <3>1 DEF Holds
    <3> QED  BY <1>0, <2>2, <3>1, <3>2, <3>3, OnceHeld
  <2> QED  BY <2>3, <2>4
<1>4. CASE Received(h)
  <2>1. UNCHANGED <<archive, wire>> /\ Show(h, pending[h]) /\ pc[h] = "decrypt"
    BY <1>4 DEF Received, Goto, server
  <2>2. Still(Tasks \ {h}) /\ pc'[h] = "idle"
    BY <1>0, <1>4 DEF Received, Goto, Forget, Carry, Still, TypeOK
  <2>3. pending[h] \in SUBSET Bubbles
    BY <1>0 DEF TypeOK
  <2>4. /\ \A b, c \in pending[h] : b.frame = c.frame => b = c
        /\ \A b \in pending[h] : b.frame \in 1..Len(archive) /\ b.by \in Runs
    BY <1>0, <2>1, <2>3 DEF PendingOK, Bubbles
  <2>5. ASSUME NEW b \in pending[h]
        PROVE  /\ b.frame <= Len(archive') /\ pc'[b.by] = "done"
               /\ ~Seen(b.by, b.frame) /\ <<b.by, b.frame>> \notin wire
               /\ \A g \in Handlers \ {h} : ~Holds(g, b.by, b.frame)
    <3>1. b.frame \in 1..Len(archive) /\ b.by \in Runs /\ Holds(h, b.by, b.frame)
      BY <2>1, <2>4 DEF Holds
    <3>2. /\ <<b.by, b.frame>> \notin wire /\ ~Seen(b.by, b.frame) /\ pc[b.by] = "done"
          /\ \A g \in Handlers : Holds(g, b.by, b.frame) => g = h
      BY <3>1 DEF OnceInv
    <3>3. pc'[b.by] = pc[b.by]
      BY <1>0, <2>2, <3>1 DEF Still, Tasks, Setups
    <3> QED  BY <1>0, <2>1, <3>1, <3>2, <3>3
  <2>6. Len(archive') \in Nat /\ Len(archive) <= Len(archive') /\ wire' = wire
    BY <1>0, <2>1
  <2> DEFINE bubbles == pending[h]
  <2>7. bubbles \in SUBSET Bubbles /\ Show(h, bubbles)
    BY <2>1, <2>3
  <2> HIDE DEF bubbles
  <2>8. /\ \A b, c \in bubbles : b.frame = c.frame => b = c
        /\ \A b \in bubbles :
              /\ b.frame <= Len(archive') /\ pc'[b.by] = "done"
              /\ ~Seen(b.by, b.frame) /\ <<b.by, b.frame>> \notin wire
              /\ \A g \in Handlers \ {h} : ~Holds(g, b.by, b.frame)
    BY <2>4, <2>5 DEF bubbles
  <2> QED  BY <1>0, <2>2, <2>6, <2>7, <2>8, OnceShown
<1> QED  BY <1>2, <1>3, <1>4

LEMMA OnceSender == ASSUME Sound, OnceInv, SendMessage \/ SendLoaded \/ Encrypted  PROVE OnceInv'
<1> USE DEF Sound, room, locals, work, cargo, histories
<1>0. Send \in Tasks /\ Send \notin Runs /\ Send \notin Handlers
  BY MessagesAssumption DEF Tasks, Setups
<1>1. CASE SendMessage \/ SendLoaded
  <2>1. UNCHANGED <<archive, messages, wire>>
    BY <1>1 DEF SendMessage, SendLoaded, server
  <2>2. \E to \in {"idle", "peers", "encrypt"} : pc' = [pc EXCEPT ![Send] = to]
    BY <1>1 DEF SendMessage, SendLoaded, Check, Goto
  <2>3. Forget(Send) \/ \E r : Carry(Send, 0, r, {})
    BY <1>1 DEF SendMessage, SendLoaded, Check
  <2>4. Still(Tasks \ {Send})
    BY <2>2, <2>3 DEF Still, Forget, Carry, TypeOK
  <2>5. PendingOK(Send)'
    BY <1>0, <2>2 DEF PendingOK, TypeOK
  <2> QED  BY <1>0, <2>1, <2>4, <2>5, OnceQuiet
<1>2. CASE Encrypted
  <2> DEFINE sent == conn[via[Send]] = "open"
             b == [frame |-> IF sent THEN Len(archive) + 1 ELSE 0, epoch |-> at[Send],
                   kind |-> "sent", by |-> via[Send], live |-> TRUE, late |-> FALSE]
             f == [from |-> Me, epoch |-> at[Send], mine |-> FALSE]
             bubbles == {b}
  <2>1. pc[Send] = "encrypt" /\ via[Send] \in Runs /\ pc[via[Send]] = "done"
    BY <1>0, <1>2 DEF Encrypted, Goto, TaskInv, TaskOK
  <2>2. Len(archive) \in Nat /\ at[Send] \in Nat /\ archive \in Seq(Frames) /\ f \in Frames
    BY <1>0 DEF TypeOK, Frames
  <2>3. IF sent THEN Len(archive') = Len(archive) + 1 ELSE archive' = archive
    BY <1>2, <2>2, Stored DEF Encrypted
  <2>4. bubbles \in SUBSET Bubbles /\ Show(Send, bubbles)
    BY <1>2, <2>1, <2>2 DEF Bubbles, Encrypted
  <2>5. Still(Tasks \ {Send}) /\ pc'[Send] = "idle" /\ wire' = wire
    BY <1>0, <1>2 DEF Encrypted, Goto, Forget, Carry, Still, TypeOK
  <2>6. pc'[via[Send]] = "done"
    BY <1>0, <2>1, <2>5 DEF Still, Tasks, Setups
  <2>7. Len(archive') \in Nat /\ Len(archive) <= Len(archive')
    BY <2>2, <2>3
  <2>8. b.frame <= Len(archive') /\ (b.frame # 0 => b.frame = Len(archive) + 1)
    BY <2>2, <2>3, <2>7
  <2>9. ASSUME b.frame # 0
        PROVE  /\ ~Seen(b.by, b.frame) /\ <<b.by, b.frame>> \notin wire
               /\ \A h \in Handlers : ~Holds(h, b.by, b.frame)
    <3> DEFINE i == b.frame
    <3>1. i \notin 1..Len(archive) /\ ~(i <= Len(archive))
      BY <2>2, <2>8, <2>9
    <3> HIDE DEF i
    <3>2. \A r : ~Seen(r, i)
      BY <3>1 DEF Seen, OnceInv
    <3>3. \A r : <<r, i>> \notin wire
      BY <3>1, WireDone
    <3>4. ASSUME NEW h \in Handlers, NEW r  PROVE ~Holds(h, r, i)
      <4>1. PendingOK(h)  BY DEF OnceInv, Tasks
      <4> QED  BY <3>1, <4>1, HeldIsStored
    <3> QED  BY <3>2, <3>3, <3>4 DEF i
  <2>10. \A c \in bubbles :
            /\ c.frame <= Len(archive') /\ pc'[c.by] = "done"
            /\ c.frame # 0 =>
                  /\ ~Seen(c.by, c.frame) /\ <<c.by, c.frame>> \notin wire
                  /\ \A h \in Handlers \ {Send} : ~Holds(h, c.by, c.frame)
    BY <2>6, <2>8, <2>9
  <2>11. \A c, d \in bubbles : c.frame = d.frame => c = d
    OBVIOUS
  <2> HIDE DEF bubbles
  <2> QED  BY <1>0, <2>4, <2>5, <2>7, <2>10, <2>11, OnceShown
<1> QED  BY <1>1, <1>2

\* A run of the effect, with its history and its connection, shows a message once
\* (ChatRoom.tsx:175, 284).
THEOREM MessagesShowOnce == Spec => []ShownOnce
<1>1. Init => OnceInv
  BY MessagesAssumption DEF Init, OnceInv, ShownOnce, Holds, PendingOK, Tasks, Setups
<1>2. Sound /\ OnceInv /\ [Next]_vars => OnceInv'
  <2> SUFFICES ASSUME Sound, OnceInv, [Next]_vars  PROVE OnceInv'
    OBVIOUS
  <2>1. CASE UNCHANGED vars
    BY <2>1 DEF vars, server, locals, cargo, OnceInv, ShownOnce, Holds, Seen, PendingOK
  <2>2. CASE Aside
    BY <2>2, OnceAside
  <2>3. ASSUME NEW t \in Tasks, Fail(t)  PROVE OnceInv'
    BY <2>3, OnceSetup
  <2>4. ASSUME NEW t \in Setups, Keyed(t)  PROVE OnceInv'
    BY <2>4, OnceSetup DEF Tasks
  <2>5. ASSUME NEW t \in Rotations, Rotated(t) \/ \E e \in 1..serverEpoch : RotateKeys(t, e)  PROVE OnceInv'
    BY <2>5, OnceSetup DEF Tasks, Setups
  <2> QED  BY <2>1, <2>2, <2>3, <2>4, <2>5, OnceRun, OnceHandler, OnceSender DEF Next, Aside
<1>3. OnceInv => ShownOnce  BY DEF OnceInv
<1> QED  BY <1>1, <1>2, <1>3, InitSound, NextSound, PTL DEF Spec
=============================================================================
