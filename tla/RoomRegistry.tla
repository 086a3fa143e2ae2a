---------------------------- MODULE RoomRegistry ----------------------------
(***************************************************************************)
(* Membership, crypto epoch and public-key directory of one room, as the   *)
(* REST handlers of backend/app/services/room_service.py change them       *)
(* through backend/app/db/repositories/rooms.py.                           *)
(*                                                                         *)
(* A request is a coroutine: it may be preempted at every await of a       *)
(* database call, so each database call is one action and pc[r] names the  *)
(* call that request r makes next.  Documents are changed one at a time    *)
(* (single-document operations of MongoDB are atomic); no transaction      *)
(* spans two of them.  Rooms are never deleted, so the room_not_found      *)
(* branches, which need a room to vanish, are not actions.                 *)
(***************************************************************************)
EXTENDS Naturals, FiniteSets

CONSTANTS
    Users,          \* accounts
    Creator,        \* the account that created the room
    Names,          \* display names; two accounts may have the same one
    Fingerprints,   \* public keys, identified by their fingerprint
    Joins,          \* POST /api/rooms/join requests
    Leaves,         \* POST /api/rooms/{id}/leave requests
    Registrations,  \* POST /api/rooms/{id}/keys requests
    Claims,         \* the epochs that their bodies may name: any, from 1 on
    Listings,       \* GET  /api/rooms/{id}/keys requests
    Fallible        \* the requests whose handler may die half way

Requests == Joins \cup Leaves \cup Registrations \cup Listings

Disjoint(S, T) == S \cap T = {}
Epochs == Nat \ {0}

ASSUME RegistryAssumption ==
    /\ Creator \in Users
    /\ Claims \subseteq Epochs
    /\ Disjoint(Joins, Leaves)
    /\ Disjoint(Joins \cup Leaves, Registrations)
    /\ Disjoint(Joins \cup Leaves \cup Registrations, Listings)

\* A room_keys document.  The public key itself is identified by fp.
Entry == [user : Users, username : Names, fp : Fingerprints, epoch : Epochs]

VARIABLES
    members,   \* rooms.member_ids
    epoch,     \* rooms.crypto_epoch
    keys,      \* the room_keys documents of this room
    nameOf,    \* users.display_name
    caller,    \* the authenticated user of a request
    share,     \* the share_history flag of a join
    offer,     \* the username and fingerprint in a registration's body
    pc,        \* what a request does next
    held,      \* the crypto_epoch of the last room document a request was
               \* handed; of a registration, the epoch in its body
    minted,    \* new_epoch, the value increment_crypto_epoch returned
    found,     \* the room_keys documents a request read
    tenure,    \* history: <<user, epoch>> when user was a member at epoch
    barred,    \* history: <<user, epoch>> when a join without history added
               \* user while the room was still at epoch
    ahead      \* history: <<user, epoch>> when a registration that names epoch
               \* found user to be a member before the room was at it

inputs == <<caller, share, offer>>
store == <<members, epoch, keys, nameOf>>
locals == <<held, minted, found>>
vars == <<members, epoch, keys, nameOf, caller, share, offer, pc,
          held, minted, found, tenure, barred, ahead>>

Finished == {"done", "rejected", "failed"}
Steps == {"idle", "add", "pull", "increment", "clear", "reread", "announce",
          "name", "epoch", "find", "save", "list"} \cup Finished

TypeOK ==
    /\ members \subseteq Users
    /\ epoch \in Epochs
    /\ keys \subseteq Entry
    /\ nameOf \in [Users -> Names]
    /\ caller \in [Requests -> Users]
    /\ share \in [Joins -> BOOLEAN]
    /\ offer \in [Registrations -> [username : Names, fp : Fingerprints]]
    /\ pc \in [Requests -> Steps]
    /\ held \in [Requests -> Epochs]
    /\ minted \in [Requests -> Nat]
    /\ found \in [Requests -> SUBSET Entry]
    /\ tenure \subseteq Users \X Epochs
    /\ barred \subseteq Users \X Epochs
    /\ ahead \subseteq Users \X Epochs

\* The room has just been created; the inputs of the requests are any (and
\* held means nothing before a request's first read).
Init ==
    /\ members = {Creator}
    /\ epoch = 1
    /\ keys = {}
    /\ nameOf \in [Users -> Names]
    /\ caller \in [Requests -> Users]
    /\ share \in [Joins -> BOOLEAN]
    /\ offer \in [Registrations -> [username : Names, fp : Fingerprints]]
    /\ pc = [r \in Requests |-> "idle"]
    /\ held = [r \in Requests |-> 1]
    /\ minted = [r \in Requests |-> 0]
    /\ found = [r \in Requests |-> {}]
    /\ tenure = {<<Creator, 1>>}
    /\ barred = {} /\ ahead = {}

Goto(r, from, to) == pc[r] = from /\ pc' = [pc EXCEPT ![r] = to]
Hold(r, e) == held' = [held EXCEPT ![r] = e]

\* Every step leaves the requests' inputs alone and extends the history.
Record == tenure' = tenure \cup (members' \X {epoch'})

-----------------------------------------------------------------------------
(* POST /join *)

\* find_by_invite_code, then add_member's find_by_id: was_new_member is
\* decided here, from a document that may be stale when $addToSet runs.
JoinFind(r) ==
    /\ IF caller[r] \in members
       THEN Goto(r, "idle", "done") /\ Hold(r, epoch)
       ELSE Goto(r, "idle", "add") /\ UNCHANGED held
    /\ UNCHANGED <<store, minted, found, barred, ahead>>

\* Mutant of JoinAdd: the share_history test is inverted.
JoinAddInverted(r) ==
    /\ Goto(r, "add", IF share[r] THEN "increment" ELSE "done")
    /\ members' = members \cup {caller[r]}
    /\ Hold(r, epoch)
    /\ barred' = IF share[r] \/ caller[r] \in members
                 THEN barred ELSE barred \cup {<<caller[r], epoch>>}
    /\ UNCHANGED <<epoch, keys, nameOf, minted, found, ahead>>

\* $addToSet; the handler rotates unless history is shared.
JoinAdd(r) ==
    /\ Goto(r, "add", IF share[r] THEN "done" ELSE "increment")
    /\ members' = members \cup {caller[r]}
    /\ Hold(r, epoch)
    /\ barred' = IF share[r] \/ caller[r] \in members
                 THEN barred ELSE barred \cup {<<caller[r], epoch>>}
    /\ UNCHANGED <<epoch, keys, nameOf, minted, found, ahead>>

\* find_by_id once more, for the response and the announcement.
JoinReread(r) ==
    /\ Goto(r, "reread", "announce")
    /\ Hold(r, epoch)
    /\ UNCHANGED <<store, minted, found, barred, ahead>>

-----------------------------------------------------------------------------
(* POST /{id}/leave *)

LeaveCheck(r) ==
    /\ Goto(r, "idle", IF caller[r] \in members THEN "pull" ELSE "rejected")
    /\ UNCHANGED <<store, locals, barred, ahead>>

\* Mutant of LeavePull: a leave that does not rotate.
LeavePullOnly(r) ==
    /\ Goto(r, "pull", "announce")
    /\ members' = members \ {caller[r]}
    /\ Hold(r, epoch)
    /\ UNCHANGED <<epoch, keys, nameOf, minted, found, barred, ahead>>

\* $pull returns the room as it is before the epoch moves.
LeavePull(r) ==
    /\ Goto(r, "pull", "increment")
    /\ members' = members \ {caller[r]}
    /\ Hold(r, epoch)
    /\ UNCHANGED <<epoch, keys, nameOf, minted, found, barred, ahead>>

-----------------------------------------------------------------------------
(* The rotation, the same two calls for a join and for a leave *)

Increment(r) ==
    /\ Goto(r, "increment", "clear")
    /\ epoch' = epoch + 1
    /\ minted' = [minted EXCEPT ![r] = epoch + 1]
    /\ UNCHANGED <<members, keys, nameOf, held, found, barred, ahead>>

\* Mutant of ClearKeys: the join announces the document it already holds.
ClearKeysNoReread(r) ==
    /\ Goto(r, "clear", "announce")
    /\ keys' = {}
    /\ UNCHANGED <<members, epoch, nameOf, locals, barred, ahead>>

\* delete_all_keys: of every epoch, the new one included.  Only a join reads
\* the room again.
ClearKeys(r) ==
    /\ Goto(r, "clear", IF r \in Joins THEN "reread" ELSE "announce")
    /\ keys' = {}
    /\ UNCHANGED <<members, epoch, nameOf, locals, barred, ahead>>

\* The router broadcasts keys_rotated with the epoch of the document it holds.
Announce(r) ==
    /\ Goto(r, "announce", "done")
    /\ UNCHANGED <<store, locals, barred, ahead>>

-----------------------------------------------------------------------------
(* POST /{id}/keys *)

\* e is the body's epoch.  The schema asks for a positive one; what the room's
\* is comes two reads later.
RegisterMember(r, e) ==
    /\ Goto(r, "idle", IF caller[r] \in members THEN "name" ELSE "rejected")
    /\ Hold(r, e)
    /\ ahead' = IF caller[r] \in members /\ e > epoch
                THEN ahead \cup {<<caller[r], e>>} ELSE ahead
    /\ UNCHANGED <<store, minted, found, barred>>

RegisterName(r) ==
    /\ Goto(r, "name", IF offer[r].username = nameOf[caller[r]]
                       THEN "epoch" ELSE "rejected")
    /\ UNCHANGED <<store, locals, barred, ahead>>

\* Mutant of RegisterEpoch: any epoch is accepted.
RegisterAnyEpoch(r) ==
    /\ Goto(r, "epoch", "find")
    /\ UNCHANGED <<store, locals, barred, ahead>>

RegisterEpoch(r) ==
    /\ Goto(r, "epoch", IF held[r] = epoch THEN "find" ELSE "rejected")
    /\ UNCHANGED <<store, locals, barred, ahead>>

\* find_one of the user's document, whatever its epoch.
RegisterFind(r) ==
    /\ Goto(r, "find", "save")
    /\ found' = [found EXCEPT ![r] = {k \in keys : k.user = caller[r]}]
    /\ UNCHANGED <<store, held, minted, barred, ahead>>

\* Mutants of Offered: the user's id stored as the username; the key stamped
\* with the epoch of the moment instead of the one in the request.
OfferedMixedUp(r) == [user |-> caller[r], username |-> caller[r],
                      fp |-> offer[r].fp, epoch |-> held[r]]
OfferedAsOfNow(r) == [user |-> caller[r], username |-> offer[r].username,
                      fp |-> offer[r].fp, epoch |-> epoch]

Offered(r) == [user |-> caller[r], username |-> offer[r].username,
               fp |-> offer[r].fp, epoch |-> held[r]]

\* The upsert replaces the one document of the user, without looking again.
RegisterSave(r) ==
    /\ Goto(r, "save", "done")
    /\ keys' = {k \in keys : k.user # caller[r]} \cup {Offered(r)}
    /\ UNCHANGED <<members, epoch, nameOf, locals, barred, ahead>>

\* The key_changed flag that the response carries and the log reports.
KeyChanged(r) ==
    \E k \in found[r] : k.fp # offer[r].fp /\ k.epoch = held[r]

-----------------------------------------------------------------------------
(* GET /{id}/keys *)

ListMember(r) ==
    /\ Goto(r, "idle", IF caller[r] \in members THEN "epoch" ELSE "rejected")
    /\ UNCHANGED <<store, locals, barred, ahead>>

ListEpoch(r) ==
    /\ Goto(r, "epoch", "list")
    /\ Hold(r, epoch)
    /\ UNCHANGED <<store, minted, found, barred, ahead>>

\* Mutant of ListKeys: the query is not filtered by epoch.
ListAllKeys(r) ==
    /\ Goto(r, "list", "done")
    /\ found' = [found EXCEPT ![r] = keys]
    /\ UNCHANGED <<store, held, minted, barred, ahead>>

ListKeys(r) ==
    /\ Goto(r, "list", "done")
    /\ found' = [found EXCEPT ![r] = {k \in keys : k.epoch = held[r]}]
    /\ UNCHANGED <<store, held, minted, barred, ahead>>

-----------------------------------------------------------------------------
(* Elsewhere *)

\* update_display_name, at a later login of the same account.
Rename(u, n) ==
    /\ nameOf[u] # n
    /\ nameOf' = [nameOf EXCEPT ![u] = n]
    /\ UNCHANGED <<members, epoch, keys, pc, locals, barred, ahead>>

\* The database call of a handler fails, or the process stops, between two
\* awaits: what the handler already wrote stays, nothing resumes it.
Fail(r) ==
    /\ pc[r] \notin Finished \cup {"idle"}
    /\ pc' = [pc EXCEPT ![r] = "failed"]
    /\ UNCHANGED <<store, locals, barred, ahead>>

JoinStep(r) == JoinFind(r) \/ JoinAdd(r) \/ JoinReread(r)
LeaveStep(r) == LeaveCheck(r) \/ LeavePull(r)
RotationStep(r) == Increment(r) \/ ClearKeys(r) \/ Announce(r)
RegisterStep(r) ==
    \/ \E e \in Claims : RegisterMember(r, e)
    \/ RegisterName(r) \/ RegisterEpoch(r)
    \/ RegisterFind(r) \/ RegisterSave(r)
ListStep(r) == ListMember(r) \/ ListEpoch(r) \/ ListKeys(r)

Next ==
    /\ \/ \E r \in Joins : JoinStep(r)
       \/ \E r \in Leaves : LeaveStep(r)
       \/ \E r \in Joins \cup Leaves : RotationStep(r)
       \/ \E r \in Registrations : RegisterStep(r)
       \/ \E r \in Listings : ListStep(r)
       \/ \E u \in Users, n \in Names : Rename(u, n)
       \/ \E r \in Fallible \cap Requests : Fail(r)
    /\ UNCHANGED inputs
    /\ Record

Spec == Init /\ [][Next]_vars

-----------------------------------------------------------------------------
(* Properties *)

\* A request of user u that still owes the room an epoch: it changed the
\* membership and has not reached increment_crypto_epoch.
Owes(r) == pc[r] = "increment"

\* Every key in the directory belongs to somebody who was a member of the
\* room while it was at the key's epoch, or who, as a member, had named that
\* epoch before the room came to it.  register_public_key checks the
\* membership, then the epoch, then writes, with a leave, a re-join or a
\* rotation possible before each of them; our client names epochs it was told.
Entitled(u, e) == <<u, e>> \in tenure \cup ahead
KeyHolderWasMember == \A k \in keys : Entitled(k.user, k.epoch)

\* A user who left is not a member of any epoch that is still current, unless
\* one of the user's own leaves has not come to its increment yet (or died
\* before it).  leave_room pulls the member and bumps the epoch in two calls,
\* between which the user may join and leave again.
DepartedAreShutOut ==
    \A u \in Users \ members :
        <<u, epoch>> \in tenure =>
            \E r \in Leaves : caller[r] = u /\ pc[r] \in {"increment", "failed"}

\* What list_public_keys would return now names members only, with the same
\* exception (SECURITY-PLAN: stale keys after a member leaves; epoch and wipe).
OfMember(k) ==
    \/ k.user \in members
    \/ \E r \in Leaves : caller[r] = k.user /\ pc[r] \in {"increment", "failed"}
DirectoryListsMembers == \A k \in keys : k.epoch = epoch => OfMember(k)

\* And what is true of it: a key of a departed user is served as a current one
\* only if its registration had named the epoch before there was one, even if
\* it was overtaken by the leave.  A consequence of the two above.
ForeseenAreListed ==
    \A k \in keys : k.epoch = epoch /\ <<k.user, k.epoch>> \notin ahead => OfMember(k)

\* A user whom a join without history added is never left as a member of the
\* epoch the room had before: as long as the room is at that epoch, a join of
\* the user is about to increment it, or died before it came to that.
HistoryStaysClosed ==
    \A u \in members :
        <<u, epoch>> \in barred =>
            \E r \in Joins : caller[r] = u /\ (Owes(r) \/ pc[r] = "failed")

\* The registry implements KeyDirectory: although the handlers write the
\* members, the epoch and the keys in separate calls, what the keys endpoint
\* shows changes as if each rotation were a single event.
Listed == {k \in keys : k.epoch = epoch}
Directory == INSTANCE KeyDirectory WITH listed <- Listed
DirectorySpec == Directory!Spec

\* Once a join without history has been answered with success, and no join of
\* its user is about to increment, the room has left the epoch it had when the
\* user was added (README: joining without history increments the epoch).
NoHistoryJoinRotates ==
    \A r \in Joins :
        /\ pc[r] = "done" /\ ~share[r]
        /\ \A q \in Joins : caller[q] = caller[r] => ~Owes(q)
        => <<caller[r], epoch>> \notin barred

\* A finished listing is of one epoch, and each key in it belongs to somebody
\* who was a member at that epoch or had named it in advance, whatever rotated
\* between its three reads.
ListingWitnessed ==
    \A r \in Listings :
        pc[r] = "done" =>
            \A k \in found[r] : k.epoch = held[r] /\ Entitled(k.user, held[r])

\* The keys_rotated broadcast of a join carries an epoch at least as new as
\* the one its rotation created, whatever was rotated meanwhile.
JoinAnnouncesNewEpoch ==
    \A r \in Joins : pc[r] = "announce" => held[r] >= minted[r]

\* The keys_rotated broadcast of a join or of a leave carries an epoch at
\* least as new as the one its rotation created (README: leaving a room
\* increments the epoch and broadcasts keys_rotated).
RotationAnnouncesNewEpoch ==
    \A r \in Joins \cup Leaves : pc[r] = "announce" => held[r] >= minted[r]

\* A different key that replaces a user's key of the same epoch is reported
\* as a key change (README: the server logs KEY_CHANGE when a user
\* re-registers a different public key at the same epoch).
KeyChangeReported ==
    [][\A r \in Registrations :
          /\ pc[r] = "save" /\ pc'[r] = "done"
          /\ \E k \in keys : /\ k.user = caller[r]
                             /\ k.epoch = held[r]
                             /\ k.fp # offer[r].fp
          => KeyChanged(r)]_vars
=============================================================================
