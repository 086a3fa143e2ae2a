------------------------- MODULE RoomRegistryProofs -------------------------
(* Theorems about RoomRegistry, for any users, requests and faults.  The    *)
(* inductive invariant is the conjunction of the type invariant and of the  *)
(* named parts below; each part has a lemma with one step per action.       *)
EXTENDS RoomRegistry, TLAPS

-----------------------------------------------------------------------------
(* The parts of the inductive invariant *)

\* The histories and the rotations never run ahead of the room.
HistoryInv ==
    /\ \A t \in tenure : t[2] <= epoch
    /\ \A t \in barred : t[2] <= epoch
    /\ \A u \in members : <<u, epoch>> \in tenure
    /\ \A r \in Requests : minted[r] <= epoch

\* A registration that passed is_member had named an epoch that was to come, or
\* its user was a member at some epoch between that one and now; once it passed
\* the epoch check, that is the epoch of the room or a past one.
RegistrarInv ==
    \A r \in Registrations :
        /\ pc[r] \in {"name", "epoch"} =>
              \/ <<caller[r], held[r]>> \in ahead
              \/ \E e \in Epochs : /\ held[r] <= e /\ e <= epoch
                                   /\ <<caller[r], e>> \in tenure
        /\ pc[r] \in {"find", "save"} =>
              Entitled(caller[r], held[r]) /\ held[r] <= epoch

\* No key is of an epoch that the room has not reached.
KeysInv == \A k \in keys : k.epoch <= epoch

\* HistoryStaysClosed for whoever was barred, a member now or not: one who left
\* may come back by a join that shares history and owes nothing.  A join that
\* has failed owes nothing either, but may have left its user behind.
ClosedInv ==
    \A u \in Users :
        <<u, epoch>> \in barred =>
            \E r \in Joins : caller[r] = u /\ pc[r] \in {"increment", "failed"}

-----------------------------------------------------------------------------
(* Type correctness *)

LEMMA TypeInit == Init => TypeOK
<1> SUFFICES ASSUME Init PROVE TypeOK
  OBVIOUS
<1> USE DEF Init, TypeOK, Epochs, Entry, Steps
<1>1. members \subseteq Users /\ tenure \subseteq Users \X Epochs
  BY RegistryAssumption
<1>2. /\ epoch \in Epochs /\ keys \subseteq Entry /\ barred \subseteq Users \X Epochs /\ ahead \subseteq Users \X Epochs
      /\ nameOf \in [Users -> Names] /\ caller \in [Requests -> Users]
      /\ share \in [Joins -> BOOLEAN]
      /\ offer \in [Registrations -> [username : Names, fp : Fingerprints]]
  OBVIOUS
<1>3. /\ pc \in [Requests -> Steps] /\ held \in [Requests -> Epochs]
      /\ minted \in [Requests -> Nat] /\ found \in [Requests -> SUBSET Entry]
  OBVIOUS
<1> QED
  BY <1>1, <1>2, <1>3

\* Every step preserves the types.
LEMMA TypeNext ==
    ASSUME TypeOK, [Next]_vars
    PROVE  TypeOK'
<1> USE DEF TypeOK, Epochs, Steps, Finished, Requests, Goto, Hold, store,
        locals, inputs
<1>0. CASE UNCHANGED vars
  BY <1>0 DEF vars
<1>1. SUFFICES ASSUME Next, UNCHANGED inputs, Record PROVE TypeOK'
  BY <1>0 DEF Next
<1>2. ASSUME NEW r \in Joins, JoinFind(r) PROVE TypeOK'
  BY <1>1, <1>2 DEF JoinFind, Record
<1>3. ASSUME NEW r \in Joins, JoinAdd(r) PROVE TypeOK'
  BY <1>1, <1>3 DEF JoinAdd, Record
<1>4. ASSUME NEW r \in Joins, JoinReread(r) PROVE TypeOK'
  BY <1>1, <1>4 DEF JoinReread, Record
<1>5. ASSUME NEW r \in Leaves, LeaveCheck(r) PROVE TypeOK'
  BY <1>1, <1>5 DEF LeaveCheck, Record
<1>6. ASSUME NEW r \in Leaves, LeavePull(r) PROVE TypeOK'
  BY <1>1, <1>6 DEF LeavePull, Record
<1>7. ASSUME NEW r \in Joins \cup Leaves, Increment(r) PROVE TypeOK'
  BY <1>1, <1>7 DEF Increment, Record
<1>8. ASSUME NEW r \in Joins \cup Leaves, ClearKeys(r) PROVE TypeOK'
  BY <1>1, <1>8 DEF ClearKeys, Record
<1>9. ASSUME NEW r \in Joins \cup Leaves, Announce(r) PROVE TypeOK'
  BY <1>1, <1>9 DEF Announce, Record
<1>10. ASSUME NEW r \in Registrations, NEW e \in Claims, RegisterMember(r, e)
       PROVE TypeOK'
  BY <1>1, <1>10, RegistryAssumption DEF RegisterMember, Record
<1>11. ASSUME NEW r \in Registrations, RegisterName(r) PROVE TypeOK'
  BY <1>1, <1>11 DEF RegisterName, Record
<1>12. ASSUME NEW r \in Registrations, RegisterEpoch(r) PROVE TypeOK'
  BY <1>1, <1>12 DEF RegisterEpoch, Record
<1>13. ASSUME NEW r \in Registrations, RegisterFind(r) PROVE TypeOK'
  BY <1>1, <1>13 DEF RegisterFind, Record
<1>14. ASSUME NEW r \in Registrations, RegisterSave(r) PROVE TypeOK'
  BY <1>1, <1>14 DEF RegisterSave, Record, Offered, Entry
<1>15. ASSUME NEW r \in Listings, ListMember(r) PROVE TypeOK'
  BY <1>1, <1>15 DEF ListMember, Record
<1>16. ASSUME NEW r \in Listings, ListEpoch(r) PROVE TypeOK'
  BY <1>1, <1>16 DEF ListEpoch, Record
<1>17. ASSUME NEW r \in Listings, ListKeys(r) PROVE TypeOK'
  BY <1>1, <1>17 DEF ListKeys, Record
<1>18. ASSUME NEW u \in Users, NEW n \in Names, Rename(u, n) PROVE TypeOK'
  BY <1>1, <1>18 DEF Rename, Record
<1>19. ASSUME NEW r \in Fallible \cap Requests, Fail(r) PROVE TypeOK'
  BY <1>1, <1>19 DEF Fail, Record
<1> QED
  BY <1>1, <1>2, <1>3, <1>4, <1>5, <1>6, <1>7, <1>8, <1>9, <1>10, <1>11,
     <1>12, <1>13, <1>14, <1>15, <1>16, <1>17, <1>18, <1>19
  DEF Next, JoinStep, LeaveStep, RotationStep, RegisterStep, ListStep

-----------------------------------------------------------------------------
(* The epoch and the histories *)

\* Only Increment moves the epoch, and it starts an epoch nobody was in.
LEMMA HistoryNext ==
    ASSUME TypeOK, HistoryInv, [Next]_vars
    PROVE  HistoryInv'
<1> USE DEF HistoryInv, TypeOK, Epochs, Finished, Requests, Goto, Hold, store,
        locals, inputs
<1>0. CASE UNCHANGED vars
  BY <1>0 DEF vars
<1>1. SUFFICES ASSUME Next, UNCHANGED inputs, Record PROVE HistoryInv'
  BY <1>0 DEF Next
<1>2. ASSUME NEW r \in Joins, JoinFind(r) PROVE HistoryInv'
  BY <1>1, <1>2 DEF JoinFind, Record
<1>3. ASSUME NEW r \in Joins, JoinAdd(r) PROVE HistoryInv'
  BY <1>1, <1>3 DEF JoinAdd, Record
<1>4. ASSUME NEW r \in Joins, JoinReread(r) PROVE HistoryInv'
  BY <1>1, <1>4 DEF JoinReread, Record
<1>5. ASSUME NEW r \in Leaves, LeaveCheck(r) PROVE HistoryInv'
  BY <1>1, <1>5 DEF LeaveCheck, Record
<1>6. ASSUME NEW r \in Leaves, LeavePull(r) PROVE HistoryInv'
  BY <1>1, <1>6 DEF LeavePull, Record
<1>7. ASSUME NEW r \in Joins \cup Leaves, Increment(r) PROVE HistoryInv'
  BY <1>1, <1>7 DEF Increment, Record
<1>8. ASSUME NEW r \in Joins \cup Leaves, ClearKeys(r) PROVE HistoryInv'
  BY <1>1, <1>8 DEF ClearKeys, Record
<1>9. ASSUME NEW r \in Joins \cup Leaves, Announce(r) PROVE HistoryInv'
  BY <1>1, <1>9 DEF Announce, Record
<1>10. ASSUME NEW r \in Registrations, NEW e \in Claims, RegisterMember(r, e)
       PROVE HistoryInv'
  BY <1>1, <1>10 DEF RegisterMember, Record
<1>11. ASSUME NEW r \in Registrations, RegisterName(r) PROVE HistoryInv'
  BY <1>1, <1>11 DEF RegisterName, Record
<1>12. ASSUME NEW r \in Registrations, RegisterEpoch(r) PROVE HistoryInv'
  BY <1>1, <1>12 DEF RegisterEpoch, Record
<1>13. ASSUME NEW r \in Registrations, RegisterFind(r) PROVE HistoryInv'
  BY <1>1, <1>13 DEF RegisterFind, Record
<1>14. ASSUME NEW r \in Registrations, RegisterSave(r) PROVE HistoryInv'
  BY <1>1, <1>14 DEF RegisterSave, Record
<1>15. ASSUME NEW r \in Listings, ListMember(r) PROVE HistoryInv'
  BY <1>1, <1>15 DEF ListMember, Record
<1>16. ASSUME NEW r \in Listings, ListEpoch(r) PROVE HistoryInv'
  BY <1>1, <1>16 DEF ListEpoch, Record
<1>17. ASSUME NEW r \in Listings, ListKeys(r) PROVE HistoryInv'
  BY <1>1, <1>17 DEF ListKeys, Record
<1>18. ASSUME NEW u \in Users, NEW n \in Names, Rename(u, n) PROVE HistoryInv'
  BY <1>1, <1>18 DEF Rename, Record
<1>19. ASSUME NEW r \in Fallible \cap Requests, Fail(r) PROVE HistoryInv'
  BY <1>1, <1>19 DEF Fail, Record
<1> QED
  BY <1>1, <1>2, <1>3, <1>4, <1>5, <1>6, <1>7, <1>8, <1>9, <1>10, <1>11,
     <1>12, <1>13, <1>14, <1>15, <1>16, <1>17, <1>18, <1>19
  DEF Next, JoinStep, LeaveStep, RotationStep, RegisterStep, ListStep

\* What a registration checked stays true of the past, whatever overtakes it.
LEMMA RegistrarNext ==
    ASSUME TypeOK, HistoryInv, RegistrarInv, RegistryAssumption, [Next]_vars
    PROVE  RegistrarInv'
<1> USE DEF HistoryInv, RegistrarInv, Entitled, Disjoint, TypeOK, Epochs, Finished,
        Requests, Goto, Hold, store, locals, inputs
<1>0. CASE UNCHANGED vars
  BY <1>0 DEF vars
<1>1. SUFFICES ASSUME Next, UNCHANGED inputs, Record PROVE RegistrarInv'
  BY <1>0 DEF Next
<1>2. ASSUME NEW r \in Joins, JoinFind(r) PROVE RegistrarInv'
  BY <1>1, <1>2 DEF JoinFind, Record
<1>3. ASSUME NEW r \in Joins, JoinAdd(r) PROVE RegistrarInv'
  BY <1>1, <1>3 DEF JoinAdd, Record
<1>4. ASSUME NEW r \in Joins, JoinReread(r) PROVE RegistrarInv'
  BY <1>1, <1>4 DEF JoinReread, Record
<1>5. ASSUME NEW r \in Leaves, LeaveCheck(r) PROVE RegistrarInv'
  BY <1>1, <1>5 DEF LeaveCheck, Record
<1>6. ASSUME NEW r \in Leaves, LeavePull(r) PROVE RegistrarInv'
  BY <1>1, <1>6 DEF LeavePull, Record
<1>7. ASSUME NEW r \in Joins \cup Leaves, Increment(r) PROVE RegistrarInv'
  BY <1>1, <1>7 DEF Increment, Record
<1>8. ASSUME NEW r \in Joins \cup Leaves, ClearKeys(r) PROVE RegistrarInv'
  BY <1>1, <1>8 DEF ClearKeys, Record
<1>9. ASSUME NEW r \in Joins \cup Leaves, Announce(r) PROVE RegistrarInv'
  BY <1>1, <1>9 DEF Announce, Record
<1>10. ASSUME NEW r \in Registrations, NEW e \in Claims, RegisterMember(r, e)
       PROVE RegistrarInv'
  BY <1>1, <1>10 DEF RegisterMember, Record
<1>11. ASSUME NEW r \in Registrations, RegisterName(r) PROVE RegistrarInv'
  BY <1>1, <1>11 DEF RegisterName, Record
<1>12. ASSUME NEW r \in Registrations, RegisterEpoch(r) PROVE RegistrarInv'
  <2>1. held[r] = epoch => Entitled(caller[r], held[r])
    <3> SUFFICES ASSUME held[r] = epoch PROVE Entitled(caller[r], epoch)
      OBVIOUS
    <3>1. CASE <<caller[r], epoch>> \in ahead
      BY <3>1 DEF Entitled
    <3>2. CASE <<caller[r], epoch>> \notin ahead
      <4>1. PICK e \in Epochs : /\ held[r] <= e /\ e <= epoch
                                /\ <<caller[r], e>> \in tenure
        BY <1>12, <3>2 DEF RegisterEpoch
      <4>2. e = epoch
        BY <4>1
      <4> QED
        BY <4>1, <4>2 DEF Entitled
    <3> QED
      BY <3>1, <3>2
  <2>2. /\ pc'[r] \in {"find", "rejected"}
        /\ pc'[r] = "find" => held[r] = epoch
    BY <1>12 DEF RegisterEpoch
  <2>3. \A q \in Registrations \ {r} : pc'[q] = pc[q]
    BY <1>12 DEF RegisterEpoch
  <2>4. /\ held' = held /\ caller' = caller /\ epoch' = epoch /\ ahead' = ahead
        /\ tenure \subseteq tenure'
    BY <1>1, <1>12 DEF RegisterEpoch, Record
  <2> QED
    BY <2>1, <2>2, <2>3, <2>4 DEF Entitled
<1>13. ASSUME NEW r \in Registrations, RegisterFind(r) PROVE RegistrarInv'
  BY <1>1, <1>13 DEF RegisterFind, Record
<1>14. ASSUME NEW r \in Registrations, RegisterSave(r) PROVE RegistrarInv'
  BY <1>1, <1>14 DEF RegisterSave, Record
<1>15. ASSUME NEW r \in Listings, ListMember(r) PROVE RegistrarInv'
  BY <1>1, <1>15 DEF ListMember, Record
<1>16. ASSUME NEW r \in Listings, ListEpoch(r) PROVE RegistrarInv'
  BY <1>1, <1>16 DEF ListEpoch, Record
<1>17. ASSUME NEW r \in Listings, ListKeys(r) PROVE RegistrarInv'
  BY <1>1, <1>17 DEF ListKeys, Record
<1>18. ASSUME NEW u \in Users, NEW n \in Names, Rename(u, n)
       PROVE RegistrarInv'
  BY <1>1, <1>18 DEF Rename, Record
<1>19. ASSUME NEW r \in Fallible \cap Requests, Fail(r) PROVE RegistrarInv'
  BY <1>1, <1>19 DEF Fail, Record
<1> QED
  BY <1>1, <1>2, <1>3, <1>4, <1>5, <1>6, <1>7, <1>8, <1>9, <1>10, <1>11,
     <1>12, <1>13, <1>14, <1>15, <1>16, <1>17, <1>18, <1>19
  DEF Next, JoinStep, LeaveStep, RotationStep, RegisterStep, ListStep

\* Only RegisterSave adds a key.
LEMMA HolderNext ==
    ASSUME TypeOK, RegistrarInv, KeyHolderWasMember, KeysInv, [Next]_vars
    PROVE  KeyHolderWasMember' /\ KeysInv'
<1> DEFINE Goal == KeyHolderWasMember' /\ KeysInv'
<1> USE DEF KeyHolderWasMember, KeysInv, Entitled, RegistrarInv, TypeOK, Epochs, Finished,
        Requests, Goto, Hold, store, locals, inputs
<1>0. CASE UNCHANGED vars
  BY <1>0 DEF vars
<1>1. SUFFICES ASSUME Next, UNCHANGED inputs, Record PROVE Goal
  BY <1>0 DEF Next
<1>2. ASSUME NEW r \in Joins, JoinFind(r) PROVE Goal
  BY <1>1, <1>2 DEF JoinFind, Record
<1>3. ASSUME NEW r \in Joins, JoinAdd(r) PROVE Goal
  BY <1>1, <1>3 DEF JoinAdd, Record
<1>4. ASSUME NEW r \in Joins, JoinReread(r) PROVE Goal
  BY <1>1, <1>4 DEF JoinReread, Record
<1>5. ASSUME NEW r \in Leaves, LeaveCheck(r) PROVE Goal
  BY <1>1, <1>5 DEF LeaveCheck, Record
<1>6. ASSUME NEW r \in Leaves, LeavePull(r) PROVE Goal
  BY <1>1, <1>6 DEF LeavePull, Record
<1>7. ASSUME NEW r \in Joins \cup Leaves, Increment(r)
       PROVE Goal
  BY <1>1, <1>7 DEF Increment, Record, Entry
<1>8. ASSUME NEW r \in Joins \cup Leaves, ClearKeys(r)
       PROVE Goal
  BY <1>1, <1>8 DEF ClearKeys, Record
<1>9. ASSUME NEW r \in Joins \cup Leaves, Announce(r)
       PROVE Goal
  BY <1>1, <1>9 DEF Announce, Record
<1>10. ASSUME NEW r \in Registrations, NEW e \in Claims, RegisterMember(r, e)
       PROVE Goal
  BY <1>1, <1>10 DEF RegisterMember, Record
<1>11. ASSUME NEW r \in Registrations, RegisterName(r)
       PROVE Goal
  BY <1>1, <1>11 DEF RegisterName, Record
<1>12. ASSUME NEW r \in Registrations, RegisterEpoch(r)
       PROVE Goal
  BY <1>1, <1>12 DEF RegisterEpoch, Record
<1>13. ASSUME NEW r \in Registrations, RegisterFind(r)
       PROVE Goal
  BY <1>1, <1>13 DEF RegisterFind, Record
<1>14. ASSUME NEW r \in Registrations, RegisterSave(r)
       PROVE Goal
  <2>1. Entitled(caller[r], held[r]) /\ held[r] <= epoch
    BY <1>14 DEF RegisterSave
  <2>2. \A k \in keys' : k \in keys \/ (k.user = caller[r] /\ k.epoch = held[r])
    BY <1>14 DEF RegisterSave, Offered
  <2>3. tenure \subseteq tenure' /\ ahead' = ahead /\ epoch' = epoch
    BY <1>1, <1>14 DEF Record, RegisterSave
  <2> QED
    BY <2>1, <2>2, <2>3
<1>15. ASSUME NEW r \in Listings, ListMember(r) PROVE Goal
  BY <1>1, <1>15 DEF ListMember, Record
<1>16. ASSUME NEW r \in Listings, ListEpoch(r) PROVE Goal
  BY <1>1, <1>16 DEF ListEpoch, Record
<1>17. ASSUME NEW r \in Listings, ListKeys(r) PROVE Goal
  BY <1>1, <1>17 DEF ListKeys, Record
<1>18. ASSUME NEW u \in Users, NEW n \in Names, Rename(u, n)
       PROVE Goal
  BY <1>1, <1>18 DEF Rename, Record
<1>19. ASSUME NEW r \in Fallible \cap Requests, Fail(r)
       PROVE Goal
  BY <1>1, <1>19 DEF Fail, Record
<1> QED
  BY <1>1, <1>2, <1>3, <1>4, <1>5, <1>6, <1>7, <1>8, <1>9, <1>10, <1>11,
     <1>12, <1>13, <1>14, <1>15, <1>16, <1>17, <1>18, <1>19
  DEF Next, JoinStep, LeaveStep, RotationStep, RegisterStep, ListStep

\* A listing is filtered by the epoch it read.
LEMMA ListingNext ==
    ASSUME TypeOK, KeyHolderWasMember, ListingWitnessed, RegistryAssumption, [Next]_vars
    PROVE  ListingWitnessed'
<1> USE DEF KeyHolderWasMember, ListingWitnessed, Entitled, Disjoint, TypeOK, Epochs,
        Finished, Requests, Goto, Hold, store, locals, inputs
<1>0. CASE UNCHANGED vars
  BY <1>0 DEF vars
<1>1. SUFFICES ASSUME Next, UNCHANGED inputs, Record PROVE ListingWitnessed'
  BY <1>0 DEF Next
<1>2. ASSUME NEW r \in Joins, JoinFind(r) PROVE ListingWitnessed'
  BY <1>1, <1>2 DEF JoinFind, Record
<1>3. ASSUME NEW r \in Joins, JoinAdd(r) PROVE ListingWitnessed'
  BY <1>1, <1>3 DEF JoinAdd, Record
<1>4. ASSUME NEW r \in Joins, JoinReread(r) PROVE ListingWitnessed'
  BY <1>1, <1>4 DEF JoinReread, Record
<1>5. ASSUME NEW r \in Leaves, LeaveCheck(r) PROVE ListingWitnessed'
  BY <1>1, <1>5 DEF LeaveCheck, Record
<1>6. ASSUME NEW r \in Leaves, LeavePull(r) PROVE ListingWitnessed'
  BY <1>1, <1>6 DEF LeavePull, Record
<1>7. ASSUME NEW r \in Joins \cup Leaves, Increment(r) PROVE ListingWitnessed'
  BY <1>1, <1>7 DEF Increment, Record
<1>8. ASSUME NEW r \in Joins \cup Leaves, ClearKeys(r) PROVE ListingWitnessed'
  BY <1>1, <1>8 DEF ClearKeys, Record
<1>9. ASSUME NEW r \in Joins \cup Leaves, Announce(r) PROVE ListingWitnessed'
  BY <1>1, <1>9 DEF Announce, Record
<1>10. ASSUME NEW r \in Registrations, NEW e \in Claims, RegisterMember(r, e)
       PROVE ListingWitnessed'
  BY <1>1, <1>10 DEF RegisterMember, Record
<1>11. ASSUME NEW r \in Registrations, RegisterName(r) PROVE ListingWitnessed'
  BY <1>1, <1>11 DEF RegisterName, Record
<1>12. ASSUME NEW r \in Registrations, RegisterEpoch(r)
       PROVE ListingWitnessed'
  BY <1>1, <1>12 DEF RegisterEpoch, Record
<1>13. ASSUME NEW r \in Registrations, RegisterFind(r) PROVE ListingWitnessed'
  BY <1>1, <1>13 DEF RegisterFind, Record
<1>14. ASSUME NEW r \in Registrations, RegisterSave(r) PROVE ListingWitnessed'
  BY <1>1, <1>14 DEF RegisterSave, Record
<1>15. ASSUME NEW r \in Listings, ListMember(r) PROVE ListingWitnessed'
  BY <1>1, <1>15 DEF ListMember, Record
<1>16. ASSUME NEW r \in Listings, ListEpoch(r) PROVE ListingWitnessed'
  BY <1>1, <1>16 DEF ListEpoch, Record
<1>17. ASSUME NEW r \in Listings, ListKeys(r) PROVE ListingWitnessed'
  BY <1>1, <1>17 DEF ListKeys, Record
<1>18. ASSUME NEW u \in Users, NEW n \in Names, Rename(u, n)
       PROVE ListingWitnessed'
  BY <1>1, <1>18 DEF Rename, Record
<1>19. ASSUME NEW r \in Fallible \cap Requests, Fail(r)
       PROVE ListingWitnessed'
  BY <1>1, <1>19 DEF Fail, Record
<1> QED
  BY <1>1, <1>2, <1>3, <1>4, <1>5, <1>6, <1>7, <1>8, <1>9, <1>10, <1>11,
     <1>12, <1>13, <1>14, <1>15, <1>16, <1>17, <1>18, <1>19
  DEF Next, JoinStep, LeaveStep, RotationStep, RegisterStep, ListStep

\* Only LeavePull makes a member of the current epoch depart.
LEMMA DepartedNext ==
    ASSUME TypeOK, HistoryInv, DepartedAreShutOut, RegistryAssumption, [Next]_vars
    PROVE  DepartedAreShutOut'
<1> USE DEF HistoryInv, DepartedAreShutOut, Disjoint, TypeOK, Epochs,
        Finished, Requests, Goto, Hold, store, locals, inputs
<1>0. CASE UNCHANGED vars
  BY <1>0 DEF vars
<1>1. SUFFICES ASSUME Next, UNCHANGED inputs, Record PROVE DepartedAreShutOut'
  BY <1>0 DEF Next
<1>2. ASSUME NEW r \in Joins, JoinFind(r) PROVE DepartedAreShutOut'
  BY <1>1, <1>2 DEF JoinFind, Record
<1>3. ASSUME NEW r \in Joins, JoinAdd(r) PROVE DepartedAreShutOut'
  BY <1>1, <1>3 DEF JoinAdd, Record
<1>4. ASSUME NEW r \in Joins, JoinReread(r) PROVE DepartedAreShutOut'
  BY <1>1, <1>4 DEF JoinReread, Record
<1>5. ASSUME NEW r \in Leaves, LeaveCheck(r) PROVE DepartedAreShutOut'
  BY <1>1, <1>5 DEF LeaveCheck, Record
<1>6. ASSUME NEW r \in Leaves, LeavePull(r) PROVE DepartedAreShutOut'
  BY <1>1, <1>6 DEF LeavePull, Record
<1>7. ASSUME NEW r \in Joins \cup Leaves, Increment(r)
       PROVE DepartedAreShutOut'
  BY <1>1, <1>7 DEF Increment, Record
<1>8. ASSUME NEW r \in Joins \cup Leaves, ClearKeys(r)
       PROVE DepartedAreShutOut'
  BY <1>1, <1>8 DEF ClearKeys, Record
<1>9. ASSUME NEW r \in Joins \cup Leaves, Announce(r)
       PROVE DepartedAreShutOut'
  BY <1>1, <1>9 DEF Announce, Record
<1>10. ASSUME NEW r \in Registrations, NEW e \in Claims, RegisterMember(r, e)
       PROVE DepartedAreShutOut'
  BY <1>1, <1>10 DEF RegisterMember, Record
<1>11. ASSUME NEW r \in Registrations, RegisterName(r)
       PROVE DepartedAreShutOut'
  BY <1>1, <1>11 DEF RegisterName, Record
<1>12. ASSUME NEW r \in Registrations, RegisterEpoch(r)
       PROVE DepartedAreShutOut'
  BY <1>1, <1>12 DEF RegisterEpoch, Record
<1>13. ASSUME NEW r \in Registrations, RegisterFind(r)
       PROVE DepartedAreShutOut'
  BY <1>1, <1>13 DEF RegisterFind, Record
<1>14. ASSUME NEW r \in Registrations, RegisterSave(r)
       PROVE DepartedAreShutOut'
  BY <1>1, <1>14 DEF RegisterSave, Record
<1>15. ASSUME NEW r \in Listings, ListMember(r) PROVE DepartedAreShutOut'
  BY <1>1, <1>15 DEF ListMember, Record
<1>16. ASSUME NEW r \in Listings, ListEpoch(r) PROVE DepartedAreShutOut'
  BY <1>1, <1>16 DEF ListEpoch, Record
<1>17. ASSUME NEW r \in Listings, ListKeys(r) PROVE DepartedAreShutOut'
  BY <1>1, <1>17 DEF ListKeys, Record
<1>18. ASSUME NEW u \in Users, NEW n \in Names, Rename(u, n)
       PROVE DepartedAreShutOut'
  BY <1>1, <1>18 DEF Rename, Record
<1>19. ASSUME NEW r \in Fallible \cap Requests, Fail(r)
       PROVE DepartedAreShutOut'
  BY <1>1, <1>19 DEF Fail, Record
<1> QED
  BY <1>1, <1>2, <1>3, <1>4, <1>5, <1>6, <1>7, <1>8, <1>9, <1>10, <1>11,
     <1>12, <1>13, <1>14, <1>15, <1>16, <1>17, <1>18, <1>19
  DEF Next, JoinStep, LeaveStep, RotationStep, RegisterStep, ListStep

\* Only JoinAdd bars a user, and then owes the increment.
LEMMA ClosedNext ==
    ASSUME TypeOK, HistoryInv, ClosedInv, RegistryAssumption, [Next]_vars
    PROVE  ClosedInv'
<1> USE DEF HistoryInv, ClosedInv, Disjoint, TypeOK, Epochs, Finished,
        Requests, Goto, Hold, store, locals, inputs
<1>0. CASE UNCHANGED vars
  BY <1>0 DEF vars
<1>1. SUFFICES ASSUME Next, UNCHANGED inputs, Record PROVE ClosedInv'
  BY <1>0 DEF Next
<1>2. ASSUME NEW r \in Joins, JoinFind(r) PROVE ClosedInv'
  BY <1>1, <1>2 DEF JoinFind, Record
<1>3. ASSUME NEW r \in Joins, JoinAdd(r) PROVE ClosedInv'
  BY <1>1, <1>3 DEF JoinAdd, Record
<1>4. ASSUME NEW r \in Joins, JoinReread(r) PROVE ClosedInv'
  BY <1>1, <1>4 DEF JoinReread, Record
<1>5. ASSUME NEW r \in Leaves, LeaveCheck(r) PROVE ClosedInv'
  BY <1>1, <1>5 DEF LeaveCheck, Record
<1>6. ASSUME NEW r \in Leaves, LeavePull(r) PROVE ClosedInv'
  BY <1>1, <1>6 DEF LeavePull, Record
<1>7. ASSUME NEW r \in Joins \cup Leaves, Increment(r) PROVE ClosedInv'
  BY <1>1, <1>7 DEF Increment, Record
<1>8. ASSUME NEW r \in Joins \cup Leaves, ClearKeys(r) PROVE ClosedInv'
  BY <1>1, <1>8 DEF ClearKeys, Record
<1>9. ASSUME NEW r \in Joins \cup Leaves, Announce(r) PROVE ClosedInv'
  BY <1>1, <1>9 DEF Announce, Record
<1>10. ASSUME NEW r \in Registrations, NEW e \in Claims, RegisterMember(r, e)
       PROVE ClosedInv'
  BY <1>1, <1>10 DEF RegisterMember, Record
<1>11. ASSUME NEW r \in Registrations, RegisterName(r) PROVE ClosedInv'
  BY <1>1, <1>11 DEF RegisterName, Record
<1>12. ASSUME NEW r \in Registrations, RegisterEpoch(r) PROVE ClosedInv'
  BY <1>1, <1>12 DEF RegisterEpoch, Record
<1>13. ASSUME NEW r \in Registrations, RegisterFind(r) PROVE ClosedInv'
  BY <1>1, <1>13 DEF RegisterFind, Record
<1>14. ASSUME NEW r \in Registrations, RegisterSave(r) PROVE ClosedInv'
  BY <1>1, <1>14 DEF RegisterSave, Record
<1>15. ASSUME NEW r \in Listings, ListMember(r) PROVE ClosedInv'
  BY <1>1, <1>15 DEF ListMember, Record
<1>16. ASSUME NEW r \in Listings, ListEpoch(r) PROVE ClosedInv'
  BY <1>1, <1>16 DEF ListEpoch, Record
<1>17. ASSUME NEW r \in Listings, ListKeys(r) PROVE ClosedInv'
  BY <1>1, <1>17 DEF ListKeys, Record
<1>18. ASSUME NEW u \in Users, NEW n \in Names, Rename(u, n) PROVE ClosedInv'
  BY <1>1, <1>18 DEF Rename, Record
<1>19. ASSUME NEW r \in Fallible \cap Requests, Fail(r) PROVE ClosedInv'
  BY <1>1, <1>19 DEF Fail, Record
<1> QED
  BY <1>1, <1>2, <1>3, <1>4, <1>5, <1>6, <1>7, <1>8, <1>9, <1>10, <1>11,
     <1>12, <1>13, <1>14, <1>15, <1>16, <1>17, <1>18, <1>19
  DEF Next, JoinStep, LeaveStep, RotationStep, RegisterStep, ListStep

\* A join reads the room again after its rotation.
LEMMA AnnounceNext ==
    ASSUME TypeOK, HistoryInv, JoinAnnouncesNewEpoch, RegistryAssumption, [Next]_vars
    PROVE  JoinAnnouncesNewEpoch'
<1> USE DEF HistoryInv, JoinAnnouncesNewEpoch, Disjoint, TypeOK, Epochs,
        Finished, Requests, Goto, Hold, store, locals, inputs
<1>0. CASE UNCHANGED vars
  BY <1>0 DEF vars
<1>1. SUFFICES ASSUME Next, UNCHANGED inputs, Record PROVE JoinAnnouncesNewEpoch'
  BY <1>0 DEF Next
<1>2. ASSUME NEW r \in Joins, JoinFind(r) PROVE JoinAnnouncesNewEpoch'
  BY <1>1, <1>2 DEF JoinFind, Record
<1>3. ASSUME NEW r \in Joins, JoinAdd(r) PROVE JoinAnnouncesNewEpoch'
  BY <1>1, <1>3 DEF JoinAdd, Record
<1>4. ASSUME NEW r \in Joins, JoinReread(r) PROVE JoinAnnouncesNewEpoch'
  BY <1>1, <1>4 DEF JoinReread, Record
<1>5. ASSUME NEW r \in Leaves, LeaveCheck(r) PROVE JoinAnnouncesNewEpoch'
  BY <1>1, <1>5 DEF LeaveCheck, Record
<1>6. ASSUME NEW r \in Leaves, LeavePull(r) PROVE JoinAnnouncesNewEpoch'
  BY <1>1, <1>6 DEF LeavePull, Record
<1>7. ASSUME NEW r \in Joins \cup Leaves, Increment(r)
       PROVE JoinAnnouncesNewEpoch'
  BY <1>1, <1>7 DEF Increment, Record
<1>8. ASSUME NEW r \in Joins \cup Leaves, ClearKeys(r)
       PROVE JoinAnnouncesNewEpoch'
  BY <1>1, <1>8 DEF ClearKeys, Record
<1>9. ASSUME NEW r \in Joins \cup Leaves, Announce(r)
       PROVE JoinAnnouncesNewEpoch'
  BY <1>1, <1>9 DEF Announce, Record
<1>10. ASSUME NEW r \in Registrations, NEW e \in Claims, RegisterMember(r, e)
       PROVE JoinAnnouncesNewEpoch'
  BY <1>1, <1>10 DEF RegisterMember, Record
<1>11. ASSUME NEW r \in Registrations, RegisterName(r)
       PROVE JoinAnnouncesNewEpoch'
  BY <1>1, <1>11 DEF RegisterName, Record
<1>12. ASSUME NEW r \in Registrations, RegisterEpoch(r)
       PROVE JoinAnnouncesNewEpoch'
  BY <1>1, <1>12 DEF RegisterEpoch, Record
<1>13. ASSUME NEW r \in Registrations, RegisterFind(r)
       PROVE JoinAnnouncesNewEpoch'
  BY <1>1, <1>13 DEF RegisterFind, Record
<1>14. ASSUME NEW r \in Registrations, RegisterSave(r)
       PROVE JoinAnnouncesNewEpoch'
  BY <1>1, <1>14 DEF RegisterSave, Record
<1>15. ASSUME NEW r \in Listings, ListMember(r) PROVE JoinAnnouncesNewEpoch'
  BY <1>1, <1>15 DEF ListMember, Record
<1>16. ASSUME NEW r \in Listings, ListEpoch(r) PROVE JoinAnnouncesNewEpoch'
  BY <1>1, <1>16 DEF ListEpoch, Record
<1>17. ASSUME NEW r \in Listings, ListKeys(r) PROVE JoinAnnouncesNewEpoch'
  BY <1>1, <1>17 DEF ListKeys, Record
<1>18. ASSUME NEW u \in Users, NEW n \in Names, Rename(u, n)
       PROVE JoinAnnouncesNewEpoch'
  BY <1>1, <1>18 DEF Rename, Record
<1>19. ASSUME NEW r \in Fallible \cap Requests, Fail(r)
       PROVE JoinAnnouncesNewEpoch'
  BY <1>1, <1>19 DEF Fail, Record
<1> QED
  BY <1>1, <1>2, <1>3, <1>4, <1>5, <1>6, <1>7, <1>8, <1>9, <1>10, <1>11,
     <1>12, <1>13, <1>14, <1>15, <1>16, <1>17, <1>18, <1>19
  DEF Next, JoinStep, LeaveStep, RotationStep, RegisterStep, ListStep

-----------------------------------------------------------------------------
(* The theorems *)

IInv ==
    /\ TypeOK
    /\ HistoryInv
    /\ RegistrarInv
    /\ KeyHolderWasMember
    /\ KeysInv
    /\ ListingWitnessed
    /\ DepartedAreShutOut
    /\ ClosedInv
    /\ JoinAnnouncesNewEpoch

LEMMA InvariantInit == Init => IInv
<1> SUFFICES ASSUME Init PROVE IInv
  OBVIOUS
<1>1. TypeOK
  BY TypeInit
<1>2. HistoryInv
  BY DEF Init, HistoryInv
<1>3. RegistrarInv /\ ListingWitnessed /\ JoinAnnouncesNewEpoch
  BY DEF Init, RegistrarInv, ListingWitnessed, JoinAnnouncesNewEpoch, Requests
<1>4. KeyHolderWasMember /\ KeysInv /\ DepartedAreShutOut /\ ClosedInv
  BY DEF Init, KeyHolderWasMember, KeysInv, DepartedAreShutOut, ClosedInv
<1> QED
  BY <1>1, <1>2, <1>3, <1>4 DEF IInv

LEMMA InvariantNext == IInv /\ [Next]_vars => IInv'
  BY RegistryAssumption, TypeNext, HistoryNext, RegistrarNext, HolderNext,
     ListingNext, DepartedNext, ClosedNext, AnnounceNext DEF IInv

THEOREM Invariance == Spec => []IInv
<1> QED
  BY InvariantInit, InvariantNext, PTL DEF Spec

\* The types of every variable of the registry.
THEOREM TypeCorrect == Spec => []TypeOK
<1>1. IInv => TypeOK
  BY DEF IInv
<1> QED
  BY <1>1, Invariance, PTL

\* Every stored key belongs to a member of the epoch it is for or to one who had
\* named that epoch in advance, whatever overtook its registration
\* (room_service.py, register_public_key).
THEOREM KeyHoldersWereMembers == Spec => []KeyHolderWasMember
<1>1. IInv => KeyHolderWasMember
  BY DEF IInv
<1> QED
  BY <1>1, Invariance, PTL

\* A departed user holds no membership of the current epoch once the user's
\* leaves have incremented it (room_service.py, leave_room).
THEOREM DepartedStayShutOut == Spec => []DepartedAreShutOut
<1>1. IInv => DepartedAreShutOut
  BY DEF IInv
<1> QED
  BY <1>1, Invariance, PTL

\* The keys that the directory serves as current belong to members, with the
\* exception of a leave that has not incremented yet and of keys whose epoch
\* had been named in advance.
THEOREM DirectoryIsOfMembers == Spec => []ForeseenAreListed
<1>1. IInv => ForeseenAreListed
  BY DEF IInv, TypeOK, Entry, KeyHolderWasMember, Entitled, DepartedAreShutOut,
         ForeseenAreListed, OfMember
<1> QED
  BY <1>1, Invariance, PTL

\* A listing is of one epoch, and of members of that epoch or of those who had
\* named it in advance (list_public_keys).
THEOREM ListingsAreWitnessed == Spec => []ListingWitnessed
<1>1. IInv => ListingWitnessed
  BY DEF IInv
<1> QED
  BY <1>1, Invariance, PTL

\* A user who joined without history is never left in the epoch the room had
\* before, unless a join of the user died half way (join_room).
THEOREM HistoryIsClosed == Spec => []HistoryStaysClosed
<1>1. IInv => HistoryStaysClosed
  BY DEF IInv, TypeOK, ClosedInv, HistoryStaysClosed, Owes
<1> QED
  BY <1>1, Invariance, PTL

\* The broadcast of a join names an epoch at least as new as its rotation's.
THEOREM JoinsAnnounceNewEpoch == Spec => []JoinAnnouncesNewEpoch
<1>1. IInv => JoinAnnouncesNewEpoch
  BY DEF IInv
<1> QED
  BY <1>1, Invariance, PTL

-----------------------------------------------------------------------------
(* Refinement: the registry implements KeyDirectory *)

LEMMA DirectoryInit == Init => Directory!Init
  BY DEF Init, Directory!Init, Listed

\* The history grows only by an admission or by a rotation.
LEMMA TenureStable ==
    ASSUME HistoryInv, Record, members' \subseteq members, epoch' = epoch
    PROVE  tenure' = tenure
  BY DEF HistoryInv, Record

LEMMA NoKeyOfTheFuture ==
    ASSUME IInv
    PROVE  \A k \in keys : k.epoch \in Nat /\ k.epoch <= epoch
<1> SUFFICES ASSUME NEW k \in keys PROVE k.epoch \in Nat /\ k.epoch <= epoch
  OBVIOUS
<1>1. k \in Entry /\ k.epoch <= epoch
  BY DEF IInv, TypeOK, KeysInv
<1> QED
  BY <1>1 DEF Entry, Epochs

\* Every step of a handler is an event of the directory, or is not seen in it.
LEMMA DirectoryNext ==
    ASSUME IInv, [Next]_vars
    PROVE  [Directory!Next]_(Directory!vars)
<1> USE DEF Goto, Hold, store, locals, inputs
<1> DEFINE Goal == [Directory!Next]_(Directory!vars)
<1>0. CASE UNCHANGED vars
  BY <1>0 DEF vars, Directory!vars, Listed
<1>1. SUFFICES ASSUME Next, UNCHANGED inputs, Record PROVE Goal
  BY <1>0 DEF Next
<1>2. TypeOK /\ HistoryInv /\ RegistrarInv
  BY DEF IInv
<1>3. ASSUME UNCHANGED <<members, epoch, keys, ahead>> PROVE Goal
  BY <1>1, <1>2, <1>3, TenureStable DEF Directory!vars, Listed
<1>4. ASSUME NEW r \in Joins, JoinAdd(r) PROVE Goal
  <2>1. caller[r] \in Users
    BY <1>2 DEF TypeOK, Requests
  <2>2. tenure' = tenure \cup {<<caller[r], epoch>>}
    BY <1>1, <1>2, <1>4 DEF JoinAdd, Record, HistoryInv
  <2>3. Directory!Admit(caller[r])
    BY <1>4, <2>2 DEF JoinAdd, Directory!Admit, Listed
  <2> QED
    BY <2>1, <2>3 DEF Directory!Next
<1>5. ASSUME NEW r \in Leaves, LeavePull(r) PROVE Goal
  <2>1. caller[r] \in Users
    BY <1>2 DEF TypeOK, Requests
  <2>2. tenure' = tenure
    BY <1>1, <1>2, <1>5, TenureStable DEF LeavePull
  <2>3. Directory!Remove(caller[r])
    BY <1>5, <2>2 DEF LeavePull, Directory!Remove, Listed
  <2> QED
    BY <2>1, <2>3 DEF Directory!Next
<1>6. ASSUME NEW r \in Joins \cup Leaves, Increment(r) PROVE Goal
  <2>1. Listed' = {}
    <3>1. \A k \in keys : k.epoch # epoch + 1
      BY NoKeyOfTheFuture, <1>2 DEF TypeOK, Epochs
    <3> QED
      BY <3>1, <1>6 DEF Increment, Listed
  <2>2. Directory!Rotate
    BY <1>1, <1>6, <2>1 DEF Increment, Record, Directory!Rotate
  <2> QED
    BY <2>2 DEF Directory!Next
<1>7. ASSUME NEW r \in Joins \cup Leaves, ClearKeys(r) PROVE Goal
  <2>1. tenure' = tenure
    BY <1>1, <1>2, <1>7, TenureStable DEF ClearKeys
  <2>2. Directory!Withdraw
    BY <1>7, <2>1 DEF ClearKeys, Directory!Withdraw, Listed
  <2> QED
    BY <2>2 DEF Directory!Next
<1>8. ASSUME NEW r \in Registrations, RegisterSave(r) PROVE Goal
  <2>1. /\ caller[r] \in Users /\ offer[r].username \in Names
        /\ offer[r].fp \in Fingerprints
    BY <1>2 DEF TypeOK, Requests
  <2>2. /\ tenure' = tenure /\ UNCHANGED <<members, epoch>>
        /\ ahead' = ahead /\ <<caller[r], held[r]>> \in tenure \cup ahead
    BY <1>1, <1>2, <1>8, TenureStable DEF RegisterSave, RegistrarInv, Entitled
  <2>3. CASE held[r] = epoch
    <3>1. Listed' = {k \in Listed : k.user # caller[r]} \cup
                    {[user |-> caller[r], username |-> offer[r].username,
                      fp |-> offer[r].fp, epoch |-> epoch]}
      BY <1>8, <2>3 DEF RegisterSave, Offered, Listed
    <3>2. Directory!Publish(caller[r], offer[r].username, offer[r].fp)
      BY <2>2, <2>3, <3>1 DEF Directory!Publish
    <3> QED
      BY <2>1, <3>2 DEF Directory!Next
  <2>4. CASE held[r] # epoch
    <3>1. Listed' \subseteq Listed
      BY <1>8, <2>4 DEF RegisterSave, Offered, Listed
    <3>2. Directory!Withdraw
      BY <2>2, <3>1 DEF Directory!Withdraw
    <3> QED
      BY <3>2 DEF Directory!Next
  <2> QED
    BY <2>3, <2>4
<1>9. ASSUME NEW r \in Joins, JoinFind(r) \/ JoinReread(r) PROVE Goal
  BY <1>3, <1>9 DEF JoinFind, JoinReread
<1>10. ASSUME NEW r \in Leaves, LeaveCheck(r) PROVE Goal
  BY <1>3, <1>10 DEF LeaveCheck
<1>11. ASSUME NEW r \in Joins \cup Leaves, Announce(r) PROVE Goal
  BY <1>3, <1>11 DEF Announce
<1>12. ASSUME NEW r \in Registrations, NEW e \in Claims, RegisterMember(r, e)
       PROVE Goal
  <2>1. CASE caller[r] \in members /\ e > epoch
    <3>1. caller[r] \in Users /\ UNCHANGED <<members, epoch, keys>>
      BY <1>2, <1>12 DEF RegisterMember, TypeOK, Requests
    <3>2. tenure' = tenure
      BY <1>1, <1>2, <3>1, TenureStable
    <3>3. Directory!Foresee(caller[r], e)
      BY <1>12, <2>1, <3>1, <3>2 DEF RegisterMember, Directory!Foresee, Listed
    <3> QED
      BY <3>1, <3>3 DEF Directory!Next
  <2>2. CASE ~(caller[r] \in members /\ e > epoch)
    BY <1>3, <1>12, <2>2 DEF RegisterMember
  <2> QED
    BY <2>1, <2>2
<1>13. ASSUME NEW r \in Registrations,
              RegisterName(r) \/ RegisterEpoch(r) \/ RegisterFind(r)
       PROVE Goal
  BY <1>3, <1>13 DEF RegisterName, RegisterEpoch, RegisterFind
<1>14. ASSUME NEW r \in Listings, ListStep(r) PROVE Goal
  BY <1>3, <1>14 DEF ListStep, ListMember, ListEpoch, ListKeys
<1>15. ASSUME NEW u \in Users, NEW n \in Names, Rename(u, n) PROVE Goal
  BY <1>3, <1>15 DEF Rename
<1>16. ASSUME NEW r \in Fallible \cap Requests, Fail(r) PROVE Goal
  BY <1>3, <1>16 DEF Fail
<1> QED
  BY <1>1, <1>4, <1>5, <1>6, <1>7, <1>8, <1>9, <1>10, <1>11, <1>12, <1>13,
     <1>14, <1>15, <1>16
  DEF Next, JoinStep, LeaveStep, RotationStep, RegisterStep

\* What the keys endpoint shows changes as KeyDirectory allows: a rotation is
\* one event, and a key appears only for a member of the epoch it is of or for
\* one who had named it.
THEOREM RegistryImplementsDirectory == Spec => DirectorySpec
<1> QED
  BY Invariance, DirectoryInit, DirectoryNext, PTL
  DEF Spec, DirectorySpec, Directory!Spec
=============================================================================
