---------------------------- MODULE KeyDirectory ----------------------------
(***************************************************************************)
(* What the room registry promises its clients, without its steps: a room  *)
(* whose rotation is one event.  The directory shows keys of the current   *)
(* epoch only, a rotation empties it, and a key appears in it only as the  *)
(* single key of somebody who was a member during that epoch, or who named *)
(* it in advance while a member.  A key may disappear before the next      *)
(* rotation: its owner then has to register it again.                      *)
(***************************************************************************)
EXTENDS Naturals

CONSTANTS Users, Creator, Names, Fingerprints, Claims

VARIABLES members, epoch, tenure, ahead, listed

vars == <<members, epoch, tenure, ahead, listed>>

Init ==
    /\ members = {Creator}
    /\ epoch = 1
    /\ tenure = {<<Creator, 1>>}
    /\ ahead = {} /\ listed = {}

Admit(u) ==
    /\ members' = members \cup {u}
    /\ tenure' = tenure \cup {<<u, epoch>>}
    /\ UNCHANGED <<epoch, ahead, listed>>

Remove(u) ==
    /\ members' = members \ {u}
    /\ UNCHANGED <<epoch, tenure, ahead, listed>>

\* Nobody but the members of this moment carries over into the new epoch.
Rotate ==
    /\ epoch' = epoch + 1
    /\ tenure' = tenure \cup (members \X {epoch + 1})
    /\ listed' = {}
    /\ UNCHANGED <<members, ahead>>

\* A member names an epoch that is to come, and is held to be entitled to it.
Foresee(u, e) ==
    /\ u \in members /\ e > epoch
    /\ ahead' = ahead \cup {<<u, e>>}
    /\ UNCHANGED <<members, epoch, tenure, listed>>

Publish(u, n, f) ==
    /\ <<u, epoch>> \in tenure \cup ahead
    /\ listed' = {k \in listed : k.user # u} \cup
                 {[user |-> u, username |-> n, fp |-> f, epoch |-> epoch]}
    /\ UNCHANGED <<members, epoch, tenure, ahead>>

Withdraw ==
    /\ listed' \in SUBSET listed
    /\ UNCHANGED <<members, epoch, tenure, ahead>>

Next ==
    \/ \E u \in Users : Admit(u) \/ Remove(u)
    \/ \E u \in Users, e \in Claims : Foresee(u, e)
    \/ Rotate
    \/ \E u \in Users, n \in Names, f \in Fingerprints : Publish(u, n, f)
    \/ Withdraw

Spec == Init /\ [][Next]_vars
=============================================================================
