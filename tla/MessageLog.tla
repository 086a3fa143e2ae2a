------------------------------ MODULE MessageLog ------------------------------
(***************************************************************************)
(* What the relay promises the sockets of a room, without its steps: one   *)
(* history that grows by a document at a time, and copies of it.           *)
(*                                                                         *)
(* The documents of a socket come in the order it sent them, with times    *)
(* that do not decrease, no id twice before it is forgotten, and at most   *)
(* one after its user left.  A socket is delivered the last document of    *)
(* another user's socket, once: each sender's in order and none repeated,  *)
(* though some may be missing.                                             *)
(***************************************************************************)
EXTENDS Naturals, Sequences

CONSTANTS Users, Sockets, owner, MsgIds, NoId

VARIABLES
    members,
    messages,   \* the history
    inbox,      \* what a socket was delivered, in order
    forgotten,  \* the ids that may be used again
    spent       \* the sockets that stored a document after their user left

vars == <<members, messages, inbox, forgotten, spent>>

Init ==
    /\ members = Users
    /\ messages = {}
    /\ inbox = [s \in Sockets |-> <<>>]
    /\ forgotten = {} /\ spent = {}

From(s) == {d \in messages : d.socket = s}
FrameOf(d) == [socket |-> d.socket, n |-> d.n, id |-> d.id]

\* A member's document, or the one that was on its way when its user left.
Store(d) ==
    /\ \A c \in From(d.socket) : c.n < d.n /\ c.at <= d.at
    /\ d.id \in forgotten \cup {NoId} \/ \A c \in From(d.socket) : c.id # d.id
    /\ \/ owner[d.socket] \in members /\ UNCHANGED spent
       \/ /\ owner[d.socket] \notin members /\ d.socket \notin spent
          /\ spent' = spent \cup {d.socket}
    /\ messages' = messages \cup {d}
    /\ UNCHANGED <<members, inbox, forgotten>>

Deliver(t, d) ==
    /\ owner[t] # owner[d.socket]
    /\ \A c \in From(d.socket) : c.n <= d.n
    /\ \A i \in DOMAIN inbox[t] : inbox[t][i].socket = d.socket => inbox[t][i].n < d.n
    /\ inbox' = [inbox EXCEPT ![t] = Append(@, FrameOf(d))]
    /\ UNCHANGED <<members, messages, forgotten, spent>>

Leave(u) ==
    /\ members' = members \ {u}
    /\ UNCHANGED <<messages, inbox, forgotten, spent>>

Forget(id) ==
    /\ forgotten' = forgotten \cup {id}
    /\ UNCHANGED <<members, messages, inbox, spent>>

Next ==
    \/ \E d \in messages' : Store(d)
    \/ \E t \in Sockets : \E d \in messages : Deliver(t, d)
    \/ \E u \in Users : Leave(u)
    \/ \E id \in MsgIds : Forget(id)

Spec == Init /\ [][Next]_vars
=============================================================================
