------------------------------- MODULE OtpAuth -------------------------------
(***************************************************************************)
(* Login by e-mail code, for one address: request_otp and verify_otp       *)
(* (backend/app/services/auth_service.py) over the code document of        *)
(* db/repositories/otp.py and the account of db/repositories/users.py.     *)
(*                                                                         *)
(* Handlers interleave at every database call.  The codes of an address    *)
(* are numbered in the order they are stored; guess 0 is of none of them.  *)
(* The rate limits of the routes are per client address and are left out:  *)
(* Width bounds the verifications in flight instead.                       *)
(***************************************************************************)
EXTENDS Naturals, FiniteSets

CONSTANTS
    Verifiers,  \* the calls of verify_otp
    Requesters, \* the calls of request_otp
    Limit,      \* failed attempts that lock a code: 5 in the source
    Width,      \* the most verifications that are in flight at once
    Fallible,   \* the verifications whose handler may die
    Blank,      \* an empty display name
    None        \* no document

ASSUME OtpAssumption ==
    /\ IsFiniteSet(Verifiers)
    /\ Limit \in Nat \ {0}
    /\ Width \in Nat \ {0}
    /\ Blank \notin Verifiers
    /\ None \notin [code : Nat \ {0}, attempts : Nat, expired : BOOLEAN]
    /\ None \notin [id : Verifiers, name : Verifiers \cup {Blank}]

VARIABLES
    doc,        \* the document of the address in otp_codes
    codes,      \* how many codes have been stored
    account,    \* the document of the address in users
    request,    \* what a requester does next
    pc,         \* what a verifier does next
    guess,      \* the code a verifier was sent
    name,       \* the display name a verifier was sent: its own, or Blank
    judged,     \* history: the code a wrong guess was compared with, or 0
    passed,     \* history: the code a right guess was compared with, or 0
    token,      \* the account a verifier's token is for
    lost        \* history: the verifiers that died after a wrong guess

vars == <<doc, codes, account, request, pc, guess, name, judged, passed, token, lost>>

Codes == [code : Nat \ {0}, attempts : Nat, expired : BOOLEAN]
Accounts == [id : Verifiers, name : Verifiers \cup {Blank}]
Working == {"find", "inc", "delete", "lookup", "create", "rename"}
Answers == {"token", "invalid", "locked", "error"}

TypeOK ==
    /\ doc \in Codes \cup {None}
    /\ codes \in Nat
    /\ account \in Accounts \cup {None}
    /\ request \in [Requesters -> {"store", "send", "sent", "unsent"}]
    /\ pc \in [Verifiers -> {"idle"} \cup Working \cup Answers]
    /\ guess \in [Verifiers -> Nat]
    /\ name \in [Verifiers -> Verifiers \cup {Blank}]
    /\ judged \in [Verifiers -> Nat]
    /\ passed \in [Verifiers -> Nat]
    /\ token \in [Verifiers -> Verifiers \cup {None}]
    /\ lost \subseteq Verifiers

Init ==
    /\ doc = None /\ codes = 0
    /\ account = None
    /\ request = [r \in Requesters |-> "store"]
    /\ pc = [v \in Verifiers |-> "idle"]
    /\ guess = [v \in Verifiers |-> 0]
    /\ name = [v \in Verifiers |-> Blank]
    /\ judged = [v \in Verifiers |-> 0]
    /\ passed = [v \in Verifiers |-> 0]
    /\ token = [v \in Verifiers |-> None]
    /\ lost = {}

Goto(v, from, to) == pc[v] = from /\ pc' = [pc EXCEPT ![v] = to]
InFlight == {v \in Verifiers : pc[v] \in Working}

-----------------------------------------------------------------------------
(* request_otp *)

\* Mutant: the upsert does not set attempts.
StoreNoAttempts(r) ==
    /\ request[r] = "store"
    /\ request' = [request EXCEPT ![r] = "send"]
    /\ codes' = codes + 1
    /\ doc' = [code |-> codes + 1, expired |-> FALSE]
    /\ UNCHANGED <<account, pc, guess, name, judged, passed, token, lost>>

\* update_one with upsert: one document per address, whatever became of the last.
Store(r) ==
    /\ request[r] = "store"
    /\ request' = [request EXCEPT ![r] = "send"]
    /\ codes' = codes + 1
    /\ doc' = [code |-> codes + 1, attempts |-> 0, expired |-> FALSE]
    /\ UNCHANGED <<account, pc, guess, name, judged, passed, token, lost>>

\* The e-mail may fail; the code stays stored.
Send(r) ==
    /\ request[r] = "send"
    /\ \E result \in {"sent", "unsent"} : request' = [request EXCEPT ![r] = result]
    /\ UNCHANGED <<doc, codes, account, pc, guess, name, judged, passed, token, lost>>

\* expires_at goes by, and later the TTL index removes the document.
Expire ==
    /\ doc # None /\ ~doc.expired
    /\ doc' = [doc EXCEPT !.expired = TRUE]
    /\ UNCHANGED <<codes, account, request, pc, guess, name, judged, passed, token, lost>>

Reap ==
    /\ doc # None /\ doc.expired
    /\ doc' = None
    /\ UNCHANGED <<codes, account, request, pc, guess, name, judged, passed, token, lost>>

-----------------------------------------------------------------------------
(* verify_otp *)

Arrive(v) ==
    /\ Goto(v, "idle", "find")
    /\ Cardinality(InFlight) < Width
    /\ \E g \in 0..codes : guess' = [guess EXCEPT ![v] = g]
    /\ \E n \in {v, Blank} : name' = [name EXCEPT ![v] = n]
    /\ UNCHANGED <<doc, codes, account, request, judged, passed, token, lost>>

\* find_one and what is decided from the document it returned.
Refuse(v) ==
    /\ \/ doc = None /\ Goto(v, "find", "invalid")
       \/ doc # None /\ doc.attempts >= Limit /\ Goto(v, "find", "locked")
       \/ doc # None /\ doc.attempts < Limit /\ doc.expired /\ Goto(v, "find", "invalid")
    /\ UNCHANGED <<doc, codes, account, request, guess, name, judged, passed, token, lost>>

\* Mutant: one attempt too many before the lock.
OpenOffByOne == doc # None /\ doc.attempts <= Limit /\ ~doc.expired

\* The document can be logged in with.
Open == doc # None /\ doc.attempts < Limit /\ ~doc.expired

Mismatch(v) ==
    /\ Goto(v, "find", "inc")
    /\ Open /\ guess[v] # doc.code
    /\ judged' = [judged EXCEPT ![v] = doc.code]
    /\ UNCHANGED <<doc, codes, account, request, guess, name, passed, token, lost>>

Match(v) ==
    /\ Goto(v, "find", "delete")
    /\ Open /\ guess[v] = doc.code
    /\ passed' = [passed EXCEPT ![v] = doc.code]
    /\ UNCHANGED <<doc, codes, account, request, guess, name, judged, token, lost>>

\* Mutant: the update goes to no document.
IncNothing(v) ==
    /\ Goto(v, "inc", "invalid")
    /\ UNCHANGED <<doc, codes, account, request, guess, name, judged, passed, token, lost>>

\* $inc on whatever document the address has by now.
Inc(v) ==
    /\ Goto(v, "inc", "invalid")
    /\ doc' = IF doc = None THEN doc ELSE [doc EXCEPT !.attempts = @ + 1]
    /\ UNCHANGED <<codes, account, request, guess, name, judged, passed, token, lost>>

\* Mutant: a code that was right is not deleted.
DeleteNothing(v) ==
    /\ Goto(v, "delete", "lookup")
    /\ UNCHANGED <<doc, codes, account, request, guess, name, judged, passed, token, lost>>

\* delete_one, likewise.
Delete(v) ==
    /\ Goto(v, "delete", "lookup")
    /\ doc' = None
    /\ UNCHANGED <<codes, account, request, guess, name, judged, passed, token, lost>>

\* A user with no new name is answered at once.
Lookup(v) ==
    /\ Goto(v, "lookup", IF account = None THEN "create"
                         ELSE IF name[v] = Blank THEN "token" ELSE "rename")
    /\ token' = [token EXCEPT ![v] = IF account = None THEN None ELSE account.id]
    /\ UNCHANGED <<doc, codes, account, request, guess, name, judged, passed, lost>>

\* Mutant: users without the unique index on email.
CreateAnother(v) ==
    /\ Goto(v, "create", "token")
    /\ account' = [id |-> v, name |-> name[v]]
    /\ token' = [token EXCEPT ![v] = v]
    /\ UNCHANGED <<doc, codes, request, guess, name, judged, passed, lost>>

\* insert_one; the unique index fails it if the account exists by now, and the
\* DuplicateKeyError is answered as an internal error.
Create(v) ==
    /\ \/ /\ account = None
          /\ Goto(v, "create", "token")
          /\ account' = [id |-> v, name |-> name[v]]
          /\ token' = [token EXCEPT ![v] = v]
       \/ /\ account # None
          /\ Goto(v, "create", "error")
          /\ UNCHANGED <<account, token>>
    /\ UNCHANGED <<doc, codes, request, guess, name, judged, passed, lost>>

Rename(v) ==
    /\ Goto(v, "rename", "token")
    /\ account' = [account EXCEPT !.name = name[v]]
    /\ UNCHANGED <<doc, codes, request, guess, name, judged, passed, token, lost>>

\* The handler dies at a database call.
Fail(v) ==
    /\ pc[v] \in Working
    /\ pc' = [pc EXCEPT ![v] = "error"]
    /\ lost' = IF pc[v] = "inc" THEN lost \cup {v} ELSE lost
    /\ UNCHANGED <<doc, codes, account, request, guess, name, judged, passed, token>>

Verify(v) ==
    \/ Arrive(v) \/ Refuse(v) \/ Mismatch(v) \/ Match(v) \/ Inc(v) \/ Delete(v)
    \/ Lookup(v) \/ Create(v) \/ Rename(v)

Next ==
    \/ \E v \in Verifiers : Verify(v)
    \/ \E v \in Fallible \cap Verifiers : Fail(v)
    \/ \E r \in Requesters : Store(r) \/ Send(r)
    \/ Expire \/ Reap

Spec == Init /\ [][Next]_vars

-----------------------------------------------------------------------------
(* Properties *)

\* The wrong guesses that a code was compared with.
Wrong(n) == {v \in Verifiers : judged[v] = n}
\* The logins that a code let through, save for those that died.
Logins(n) == {v \in Verifiers : passed[v] = n /\ pc[v] # "error"}

\* Every wrong guess at the code that is stored has been counted in attempts,
\* is about to be, or died on the way: verify compares in one call, counts in
\* another, and a request resets the count in between.
GuessesAreCounted ==
    doc # None =>
        Cardinality({v \in Wrong(doc.code) : pc[v] = "invalid"}) <= doc.attempts

\* A code is compared with Limit wrong guesses, and with as many more as can
\* have read attempts before an earlier one was counted.  Left out are the guesses
\* whose handler died between the comparison and the $inc: they are in no count, and
\* as many more as there are such deaths are compared.
LockoutWithinWidth ==
    \A n \in 1..codes : Cardinality(Wrong(n) \ lost) <= Limit + Width - 1

\* A code logs in once, or as often as verifications can have read the document
\* before the first of them deleted it.
LoginsWithinWidth ==
    \A n \in 1..codes : Cardinality(Logins(n)) <= Width

\* All tokens of an address are for one account, although two first logins can
\* both find none.
TokensAreOfOneAccount ==
    \A v \in Verifiers : pc[v] = "token" => account # None /\ token[v] = account.id

\* A code locks after Limit wrong guesses (README: OTP lockout after 5 failed
\* attempts).
LockoutAfterLimit == \A n \in 1..codes : Cardinality(Wrong(n)) <= Limit

\* A new code is not locked until it was guessed at Limit times (verify_otp: Too
\* many failed attempts. Request a new verification code.).
NewCodeIsOpen ==
    doc # None /\ doc.attempts >= Limit => Cardinality(Wrong(doc.code)) >= Limit
=============================================================================
