---------------------------- MODULE OtpAuthProofs ----------------------------
(* Theorems about OtpAuth, for any requests, verifications, limit and width. *)
EXTENDS OtpAuth, FiniteSetTheorems, TLAPS

-----------------------------------------------------------------------------
(* Type correctness *)

\* No document, no account, nothing guessed.
LEMMA TypeInit ==
    ASSUME Init
    PROVE  TypeOK
  BY DEF Init, TypeOK

\* The account of an address is never replaced.
AccountInv ==
    \A v \in Verifiers :
        pc[v] \in {"rename", "token"} => account # None /\ token[v] = account.id

\* Every step keeps the types.
LEMMA TypeNext ==
    ASSUME TypeOK, AccountInv, [Next]_vars
    PROVE  TypeOK'
<1> USE OtpAssumption DEF TypeOK, AccountInv, Codes, Accounts, Working,
        Answers
<1>0. CASE UNCHANGED vars
  BY <1>0 DEF vars
<1>1. ASSUME NEW v \in Verifiers, Arrive(v) PROVE TypeOK'
  BY <1>1 DEF Arrive, Goto
<1>2. ASSUME NEW v \in Verifiers, Refuse(v) PROVE TypeOK'
  BY <1>2 DEF Refuse, Goto
<1>3. ASSUME NEW v \in Verifiers, Mismatch(v) PROVE TypeOK'
  BY <1>3 DEF Mismatch, Goto, Open
<1>4. ASSUME NEW v \in Verifiers, Match(v) PROVE TypeOK'
  BY <1>4 DEF Match, Goto, Open
<1>5. ASSUME NEW v \in Verifiers, Inc(v) PROVE TypeOK'
  BY <1>5 DEF Inc, Goto
<1>6. ASSUME NEW v \in Verifiers, Delete(v) PROVE TypeOK'
  BY <1>6 DEF Delete, Goto
<1>7. ASSUME NEW v \in Verifiers, Lookup(v) PROVE TypeOK'
  BY <1>7 DEF Lookup, Goto
<1>8. ASSUME NEW v \in Verifiers, Create(v) PROVE TypeOK'
  BY <1>8 DEF Create, Goto
<1>9. ASSUME NEW v \in Verifiers, Rename(v) PROVE TypeOK'
  BY <1>9 DEF Rename, Goto
<1>10. ASSUME NEW v \in Verifiers, Fail(v) PROVE TypeOK'
  BY <1>10 DEF Fail
<1>11. ASSUME NEW r \in Requesters, Store(r) PROVE TypeOK'
  BY <1>11 DEF Store
<1>12. ASSUME NEW r \in Requesters, Send(r) PROVE TypeOK'
  BY <1>12 DEF Send
<1>13. ASSUME Expire PROVE TypeOK'
  BY <1>13 DEF Expire
<1>14. ASSUME Reap PROVE TypeOK'
  BY <1>14 DEF Reap
<1> QED
  BY <1>0, <1>1, <1>2, <1>3, <1>4, <1>5, <1>6, <1>7, <1>8, <1>9, <1>10,
     <1>11, <1>12, <1>13, <1>14 DEF Next, Verify

-----------------------------------------------------------------------------
(* What a verification was told, and where that leaves it *)

\* A code that was deleted never comes back, so a login by the stored code has
\* not deleted it yet.
ProgressInv ==
    /\ doc # None => doc.code <= codes
    /\ \A v \in Verifiers :
          /\ judged[v] <= codes /\ passed[v] <= codes
          /\ pc[v] \in {"idle", "find"} => judged[v] = 0 /\ passed[v] = 0
          /\ judged[v] # 0 => \/ pc[v] \in {"inc", "invalid"}
                              \/ pc[v] = "error" /\ v \in lost
          /\ pc[v] \in {"inc", "invalid", "locked"} => passed[v] = 0
          /\ pc[v] \in {"delete", "lookup", "create", "rename", "token"} => judged[v] = 0
          /\ doc # None /\ passed[v] = doc.code => pc[v] \in {"delete", "error"}

\* Codes are numbered upwards, and Delete removes whatever is stored.
LEMMA ProgressNext ==
    ASSUME TypeOK, ProgressInv, [Next]_vars
    PROVE  ProgressInv'
<1> USE OtpAssumption DEF TypeOK, ProgressInv, Codes, Working, Answers
<1>0. CASE UNCHANGED vars
  BY <1>0 DEF vars
<1>1. ASSUME NEW v \in Verifiers, Arrive(v) PROVE ProgressInv'
  BY <1>1 DEF Arrive, Goto
<1>2. ASSUME NEW v \in Verifiers, Refuse(v) PROVE ProgressInv'
  BY <1>2 DEF Refuse, Goto
<1>3. ASSUME NEW v \in Verifiers, Mismatch(v) PROVE ProgressInv'
  BY <1>3 DEF Mismatch, Goto, Open
<1>4. ASSUME NEW v \in Verifiers, Match(v) PROVE ProgressInv'
  BY <1>4 DEF Match, Goto, Open
<1>5. ASSUME NEW v \in Verifiers, Inc(v) PROVE ProgressInv'
  BY <1>5 DEF Inc, Goto
<1>6. ASSUME NEW v \in Verifiers, Delete(v) PROVE ProgressInv'
  BY <1>6 DEF Delete, Goto
<1>7. ASSUME NEW v \in Verifiers, Lookup(v) PROVE ProgressInv'
  BY <1>7 DEF Lookup, Goto
<1>8. ASSUME NEW v \in Verifiers, Create(v) PROVE ProgressInv'
  BY <1>8 DEF Create, Goto
<1>9. ASSUME NEW v \in Verifiers, Rename(v) PROVE ProgressInv'
  BY <1>9 DEF Rename, Goto
<1>10. ASSUME NEW v \in Verifiers, Fail(v) PROVE ProgressInv'
  BY <1>10 DEF Fail
<1>11. ASSUME NEW r \in Requesters, Store(r) PROVE ProgressInv'
  BY <1>11 DEF Store
<1>12. ASSUME NEW r \in Requesters, Send(r) PROVE ProgressInv'
  BY <1>12 DEF Send
<1>13. ASSUME Expire PROVE ProgressInv'
  BY <1>13 DEF Expire
<1>14. ASSUME Reap PROVE ProgressInv'
  BY <1>14 DEF Reap
<1> QED
  BY <1>0, <1>1, <1>2, <1>3, <1>4, <1>5, <1>6, <1>7, <1>8, <1>9, <1>10,
     <1>11, <1>12, <1>13, <1>14 DEF Next, Verify

\* Lookup reads the account, and Create adds it where there is none.
LEMMA AccountNext ==
    ASSUME TypeOK, AccountInv, [Next]_vars
    PROVE  AccountInv'
<1> USE OtpAssumption DEF TypeOK, AccountInv, Accounts, Working, Answers
<1>0. CASE UNCHANGED vars
  BY <1>0 DEF vars
<1>1. ASSUME NEW v \in Verifiers, Arrive(v) PROVE AccountInv'
  BY <1>1 DEF Arrive, Goto
<1>2. ASSUME NEW v \in Verifiers, Refuse(v) PROVE AccountInv'
  BY <1>2 DEF Refuse, Goto
<1>3. ASSUME NEW v \in Verifiers, Mismatch(v) PROVE AccountInv'
  BY <1>3 DEF Mismatch, Goto, Open
<1>4. ASSUME NEW v \in Verifiers, Match(v) PROVE AccountInv'
  BY <1>4 DEF Match, Goto, Open
<1>5. ASSUME NEW v \in Verifiers, Inc(v) PROVE AccountInv'
  BY <1>5 DEF Inc, Goto
<1>6. ASSUME NEW v \in Verifiers, Delete(v) PROVE AccountInv'
  BY <1>6 DEF Delete, Goto
<1>7. ASSUME NEW v \in Verifiers, Lookup(v) PROVE AccountInv'
  BY <1>7 DEF Lookup, Goto
<1>8. ASSUME NEW v \in Verifiers, Create(v) PROVE AccountInv'
  BY <1>8 DEF Create, Goto
<1>9. ASSUME NEW v \in Verifiers, Rename(v) PROVE AccountInv'
  BY <1>9 DEF Rename, Goto
<1>10. ASSUME NEW v \in Verifiers, Fail(v) PROVE AccountInv'
  BY <1>10 DEF Fail
<1>11. ASSUME NEW r \in Requesters, Store(r) PROVE AccountInv'
  BY <1>11 DEF Store
<1>12. ASSUME NEW r \in Requesters, Send(r) PROVE AccountInv'
  BY <1>12 DEF Send
<1>13. ASSUME Expire PROVE AccountInv'
  BY <1>13 DEF Expire
<1>14. ASSUME Reap PROVE AccountInv'
  BY <1>14 DEF Reap
<1> QED
  BY <1>0, <1>1, <1>2, <1>3, <1>4, <1>5, <1>6, <1>7, <1>8, <1>9, <1>10,
     <1>11, <1>12, <1>13, <1>14 DEF Next, Verify

\* The login code's document, its counts and the account have their types.
THEOREM TypeCorrect == Spec => []TypeOK
<1>1. Init => TypeOK /\ AccountInv
  BY TypeInit DEF Init, AccountInv
<1>2. TypeOK /\ AccountInv /\ [Next]_vars => (TypeOK /\ AccountInv)'
  BY TypeNext, AccountNext
<1> QED
  BY <1>1, <1>2, PTL DEF Spec

\* verify_otp looks the user up and creates one in two calls; the unique index
\* on email keeps two first logins from getting tokens for two accounts.
THEOREM OneAccountPerAddress == Spec => []TokensAreOfOneAccount
<1>1. Init => TypeOK /\ AccountInv
  BY TypeInit DEF Init, AccountInv
<1>2. TypeOK /\ AccountInv /\ [Next]_vars => (TypeOK /\ AccountInv)'
  BY TypeNext, AccountNext
<1>3. AccountInv => TokensAreOfOneAccount
  BY DEF AccountInv, TokensAreOfOneAccount
<1> QED
  BY <1>1, <1>2, <1>3, PTL DEF Spec

-----------------------------------------------------------------------------
(* Counting *)

\* Sets of verifications can be counted, and a larger set counts more.
LEMMA Countable ==
    ASSUME NEW S \in SUBSET Verifiers
    PROVE  /\ IsFiniteSet(S)
           /\ Cardinality(S) \in Nat
           /\ \A T \in SUBSET S : Cardinality(T) \in Nat /\ Cardinality(T) <= Cardinality(S)
<1>1. IsFiniteSet(S)
  BY OtpAssumption, FS_Subset
<1>2. \A T \in SUBSET S : IsFiniteSet(T) /\ Cardinality(T) <= Cardinality(S)
  BY <1>1, FS_Subset
<1> QED
  BY <1>1, <1>2, FS_CardinalityType

\* One more verification counts at most one more.
LEMMA OneMore ==
    ASSUME NEW S \in SUBSET Verifiers, NEW v \in Verifiers
    PROVE  Cardinality(S \cup {v}) \in Nat /\ Cardinality(S \cup {v}) <= Cardinality(S) + 1
<1>1. IsFiniteSet(S) /\ Cardinality(S) \in Nat
  BY Countable
<1>2. CASE v \in S
  <2>1. S \cup {v} = S
    BY <1>2
  <2>2. Cardinality(S \cup {v}) = Cardinality(S)
    BY <2>1
  <2> QED
    BY <1>1, <2>2
<1>3. CASE v \notin S
  <2>1. Cardinality(S \cup {v}) = Cardinality(S) + 1
    BY <1>1, <1>3, FS_AddElement
  <2> QED
    BY <1>1, <2>1
<1> QED
  BY <1>2, <1>3

\* A union counts at most what its parts count together.
LEMMA UnionCounts ==
    ASSUME NEW S \in SUBSET Verifiers, NEW T \in SUBSET Verifiers
    PROVE  Cardinality(S \cup T) <= Cardinality(S) + Cardinality(T)
<1>1. IsFiniteSet(S) /\ IsFiniteSet(T) /\ Cardinality(S) \in Nat /\ Cardinality(T) \in Nat
  BY Countable
<1>2. Cardinality(S \cap T) \in Nat
  BY Countable
<1>3. Cardinality(S \cup T) = Cardinality(S) + Cardinality(T) - Cardinality(S \cap T)
  BY <1>1, FS_Union
<1> QED
  BY <1>1, <1>2, <1>3

\* Nobody counts for nothing.
LEMMA NobodyCounts == Cardinality({}) = 0
  BY FS_EmptySet

\* No more verifications are in flight than Width.
WidthInv == Cardinality(InFlight) <= Width

Counted(n) == {v \in Wrong(n) : pc[v] = "invalid"}

\* Only Arrive adds a verification, and it looks at Width first.
LEMMA WidthNext ==
    ASSUME TypeOK, WidthInv, [Next]_vars
    PROVE  WidthInv'
<1> USE OtpAssumption DEF TypeOK, WidthInv, Working, Answers
<1>a. InFlight \in SUBSET Verifiers /\ InFlight' \in SUBSET Verifiers
  BY DEF InFlight
<1>0. CASE UNCHANGED vars
  BY <1>0 DEF vars, InFlight
<1>1. ASSUME NEW v \in Verifiers, Arrive(v) PROVE WidthInv'
  <2>1. InFlight' \subseteq InFlight \cup {v}
    BY <1>1 DEF InFlight, Arrive, Goto
  <2>2. Cardinality(InFlight) < Width /\ Cardinality(InFlight) \in Nat
    BY <1>1, <1>a, Countable DEF Arrive
  <2>3. Cardinality(InFlight \cup {v}) <= Cardinality(InFlight) + 1
    BY <1>a, OneMore
  <2>4. /\ InFlight \cup {v} \in SUBSET Verifiers
        /\ Cardinality(InFlight \cup {v}) \in Nat
        /\ Cardinality(InFlight') \in Nat
        /\ Cardinality(InFlight') <= Cardinality(InFlight \cup {v})
    BY <1>a, <2>1, Countable
  <2>5. Cardinality(InFlight') <= Width
    <3> HIDE DEF WidthInv
    <3> QED
      BY <2>2, <2>3, <2>4, OtpAssumption
  <2> QED
    BY <2>5
<1>2. ASSUME NEW v \in Verifiers, Refuse(v) PROVE WidthInv'
  <2>1. InFlight' \subseteq InFlight
    BY <1>2 DEF InFlight, Refuse, Goto
  <2>2. Cardinality(InFlight) \in Nat /\ Cardinality(InFlight)' = Cardinality(InFlight')
    BY <1>a, Countable
  <2>3. Cardinality(InFlight') \in Nat /\ Cardinality(InFlight') <= Cardinality(InFlight)
    BY <1>a, <2>1, Countable
  <2> QED
    BY <2>2, <2>3, OtpAssumption
<1>3. ASSUME NEW v \in Verifiers, Mismatch(v) PROVE WidthInv'
  <2>1. InFlight' \subseteq InFlight
    BY <1>3 DEF InFlight, Mismatch, Goto, Open
  <2>2. Cardinality(InFlight) \in Nat /\ Cardinality(InFlight)' = Cardinality(InFlight')
    BY <1>a, Countable
  <2>3. Cardinality(InFlight') \in Nat /\ Cardinality(InFlight') <= Cardinality(InFlight)
    BY <1>a, <2>1, Countable
  <2> QED
    BY <2>2, <2>3, OtpAssumption
<1>4. ASSUME NEW v \in Verifiers, Match(v) PROVE WidthInv'
  <2>1. InFlight' \subseteq InFlight
    BY <1>4 DEF InFlight, Match, Goto, Open
  <2>2. Cardinality(InFlight) \in Nat /\ Cardinality(InFlight)' = Cardinality(InFlight')
    BY <1>a, Countable
  <2>3. Cardinality(InFlight') \in Nat /\ Cardinality(InFlight') <= Cardinality(InFlight)
    BY <1>a, <2>1, Countable
  <2> QED
    BY <2>2, <2>3, OtpAssumption
<1>5. ASSUME NEW v \in Verifiers, Inc(v) PROVE WidthInv'
  <2>1. InFlight' \subseteq InFlight
    BY <1>5 DEF InFlight, Inc, Goto
  <2>2. Cardinality(InFlight) \in Nat /\ Cardinality(InFlight)' = Cardinality(InFlight')
    BY <1>a, Countable
  <2>3. Cardinality(InFlight') \in Nat /\ Cardinality(InFlight') <= Cardinality(InFlight)
    BY <1>a, <2>1, Countable
  <2> QED
    BY <2>2, <2>3, OtpAssumption
<1>6. ASSUME NEW v \in Verifiers, Delete(v) PROVE WidthInv'
  <2>1. InFlight' \subseteq InFlight
    BY <1>6 DEF InFlight, Delete, Goto
  <2>2. Cardinality(InFlight) \in Nat /\ Cardinality(InFlight)' = Cardinality(InFlight')
    BY <1>a, Countable
  <2>3. Cardinality(InFlight') \in Nat /\ Cardinality(InFlight') <= Cardinality(InFlight)
    BY <1>a, <2>1, Countable
  <2> QED
    BY <2>2, <2>3, OtpAssumption
<1>7. ASSUME NEW v \in Verifiers, Lookup(v) PROVE WidthInv'
  <2>1. InFlight' \subseteq InFlight
    BY <1>7 DEF InFlight, Lookup, Goto
  <2>2. Cardinality(InFlight) \in Nat /\ Cardinality(InFlight)' = Cardinality(InFlight')
    BY <1>a, Countable
  <2>3. Cardinality(InFlight') \in Nat /\ Cardinality(InFlight') <= Cardinality(InFlight)
    BY <1>a, <2>1, Countable
  <2> QED
    BY <2>2, <2>3, OtpAssumption
<1>8. ASSUME NEW v \in Verifiers, Create(v) PROVE WidthInv'
  <2>1. InFlight' \subseteq InFlight
    BY <1>8 DEF InFlight, Create, Goto
  <2>2. Cardinality(InFlight) \in Nat /\ Cardinality(InFlight)' = Cardinality(InFlight')
    BY <1>a, Countable
  <2>3. Cardinality(InFlight') \in Nat /\ Cardinality(InFlight') <= Cardinality(InFlight)
    BY <1>a, <2>1, Countable
  <2> QED
    BY <2>2, <2>3, OtpAssumption
<1>9. ASSUME NEW v \in Verifiers, Rename(v) PROVE WidthInv'
  <2>1. InFlight' \subseteq InFlight
    BY <1>9 DEF InFlight, Rename, Goto
  <2>2. Cardinality(InFlight) \in Nat /\ Cardinality(InFlight)' = Cardinality(InFlight')
    BY <1>a, Countable
  <2>3. Cardinality(InFlight') \in Nat /\ Cardinality(InFlight') <= Cardinality(InFlight)
    BY <1>a, <2>1, Countable
  <2> QED
    BY <2>2, <2>3, OtpAssumption
<1>10. ASSUME NEW v \in Verifiers, Fail(v) PROVE WidthInv'
  <2>1. InFlight' \subseteq InFlight
    BY <1>10 DEF InFlight, Fail
  <2>2. Cardinality(InFlight) \in Nat /\ Cardinality(InFlight)' = Cardinality(InFlight')
    BY <1>a, Countable
  <2>3. Cardinality(InFlight') \in Nat /\ Cardinality(InFlight') <= Cardinality(InFlight)
    BY <1>a, <2>1, Countable
  <2> QED
    BY <2>2, <2>3, OtpAssumption
<1>11. ASSUME NEW r \in Requesters, Store(r) PROVE WidthInv'
  <2>1. InFlight' \subseteq InFlight
    BY <1>11 DEF InFlight, Store
  <2>2. Cardinality(InFlight) \in Nat /\ Cardinality(InFlight)' = Cardinality(InFlight')
    BY <1>a, Countable
  <2>3. Cardinality(InFlight') \in Nat /\ Cardinality(InFlight') <= Cardinality(InFlight)
    BY <1>a, <2>1, Countable
  <2> QED
    BY <2>2, <2>3, OtpAssumption
<1>12. ASSUME NEW r \in Requesters, Send(r) PROVE WidthInv'
  <2>1. InFlight' \subseteq InFlight
    BY <1>12 DEF InFlight, Send
  <2>2. Cardinality(InFlight) \in Nat /\ Cardinality(InFlight)' = Cardinality(InFlight')
    BY <1>a, Countable
  <2>3. Cardinality(InFlight') \in Nat /\ Cardinality(InFlight') <= Cardinality(InFlight)
    BY <1>a, <2>1, Countable
  <2> QED
    BY <2>2, <2>3, OtpAssumption
<1>13. ASSUME Expire PROVE WidthInv'
  <2>1. InFlight' \subseteq InFlight
    BY <1>13 DEF InFlight, Expire
  <2>2. Cardinality(InFlight) \in Nat /\ Cardinality(InFlight)' = Cardinality(InFlight')
    BY <1>a, Countable
  <2>3. Cardinality(InFlight') \in Nat /\ Cardinality(InFlight') <= Cardinality(InFlight)
    BY <1>a, <2>1, Countable
  <2> QED
    BY <2>2, <2>3, OtpAssumption
<1>14. ASSUME Reap PROVE WidthInv'
  <2>1. InFlight' \subseteq InFlight
    BY <1>14 DEF InFlight, Reap
  <2>2. Cardinality(InFlight) \in Nat /\ Cardinality(InFlight)' = Cardinality(InFlight')
    BY <1>a, Countable
  <2>3. Cardinality(InFlight') \in Nat /\ Cardinality(InFlight') <= Cardinality(InFlight)
    BY <1>a, <2>1, Countable
  <2> QED
    BY <2>2, <2>3, OtpAssumption
<1> QED
  BY <1>0, <1>1, <1>2, <1>3, <1>4, <1>5, <1>6, <1>7, <1>8, <1>9, <1>10,
     <1>11, <1>12, <1>13, <1>14 DEF Next, Verify

\* Inc counts the guess that it answers; no other step answers a wrong guess.
LEMMA CountedNext ==
    ASSUME TypeOK, ProgressInv, GuessesAreCounted, [Next]_vars
    PROVE  GuessesAreCounted'
<1> USE OtpAssumption DEF TypeOK, ProgressInv, GuessesAreCounted, Codes,
        Working, Answers
<1>0. CASE UNCHANGED vars
  BY <1>0 DEF vars, Wrong
<1>1. ASSUME NEW v \in Verifiers, Arrive(v) PROVE GuessesAreCounted'
  <2>1. doc' = doc /\ (doc # None => Counted(doc.code)' = Counted(doc.code))
    BY <1>1 DEF Counted, Wrong, Arrive, Goto
  <2> QED
    BY <2>1 DEF Counted
<1>2. ASSUME NEW v \in Verifiers, Refuse(v) PROVE GuessesAreCounted'
  <2>1. doc' = doc /\ (doc # None => Counted(doc.code)' = Counted(doc.code))
    BY <1>2 DEF Counted, Wrong, Refuse, Goto
  <2> QED
    BY <2>1 DEF Counted
<1>3. ASSUME NEW v \in Verifiers, Mismatch(v) PROVE GuessesAreCounted'
  <2>1. doc' = doc /\ Counted(doc.code)' \subseteq Counted(doc.code)
    BY <1>3 DEF Counted, Wrong, Mismatch, Goto
  <2>2. Counted(doc.code) \subseteq Counted(doc.code)'
    BY <1>3 DEF Counted, Wrong, Mismatch, Goto
  <2> QED
    BY <2>1, <2>2 DEF Counted
<1>4. ASSUME NEW v \in Verifiers, Match(v) PROVE GuessesAreCounted'
  <2>1. doc' = doc /\ (doc # None => Counted(doc.code)' = Counted(doc.code))
    BY <1>4 DEF Counted, Wrong, Match, Goto, Open
  <2> QED
    BY <2>1 DEF Counted
<1>5. ASSUME NEW v \in Verifiers, Inc(v) PROVE GuessesAreCounted'
  <2>1. CASE doc = None
    BY <1>5, <2>1 DEF Inc
  <2>2. CASE doc # None
    <3>1. doc'.code = doc.code /\ doc'.attempts = doc.attempts + 1 /\ doc.attempts \in Nat
      BY <1>5, <2>2 DEF Inc
    <3>2. Counted(doc.code)' \subseteq Counted(doc.code) \cup {v}
      BY <1>5 DEF Counted, Wrong, Inc, Goto
    <3>3. Counted(doc.code) \in SUBSET Verifiers /\ Cardinality(Counted(doc.code)) \in Nat
      BY Countable DEF Counted, Wrong
    <3>4. Cardinality(Counted(doc.code)) <= doc.attempts
      BY <2>2 DEF Counted
    <3>5. Cardinality(Counted(doc.code) \cup {v}) <= Cardinality(Counted(doc.code)) + 1
      BY <3>3, OneMore
    <3>6. ASSUME NEW T, T \subseteq Counted(doc.code) \cup {v}
          PROVE  Cardinality(T) <= doc.attempts + 1
      <4>1. /\ Counted(doc.code) \cup {v} \in SUBSET Verifiers
            /\ Cardinality(Counted(doc.code) \cup {v}) \in Nat
            /\ Cardinality(T) \in Nat
            /\ Cardinality(T) <= Cardinality(Counted(doc.code) \cup {v})
        BY <3>3, <3>6, Countable
      <4> HIDE DEF TypeOK, ProgressInv, GuessesAreCounted
      <4> QED
        BY <3>1, <3>3, <3>4, <3>5, <4>1
    <3>7. Cardinality(Counted(doc.code)') <= doc.attempts + 1
      BY <3>2, <3>6
    <3> QED
      BY <3>1, <3>7 DEF Counted
  <2> QED
    BY <2>1, <2>2
<1>6. ASSUME NEW v \in Verifiers, Delete(v) PROVE GuessesAreCounted'
  BY <1>6 DEF Delete
<1>7. ASSUME NEW v \in Verifiers, Lookup(v) PROVE GuessesAreCounted'
  <2>1. doc' = doc /\ (doc # None => Counted(doc.code)' = Counted(doc.code))
    BY <1>7 DEF Counted, Wrong, Lookup, Goto
  <2> QED
    BY <2>1 DEF Counted
<1>8. ASSUME NEW v \in Verifiers, Create(v) PROVE GuessesAreCounted'
  <2>1. doc' = doc /\ (doc # None => Counted(doc.code)' = Counted(doc.code))
    BY <1>8 DEF Counted, Wrong, Create, Goto
  <2> QED
    BY <2>1 DEF Counted
<1>9. ASSUME NEW v \in Verifiers, Rename(v) PROVE GuessesAreCounted'
  <2>1. doc' = doc /\ (doc # None => Counted(doc.code)' = Counted(doc.code))
    BY <1>9 DEF Counted, Wrong, Rename, Goto
  <2> QED
    BY <2>1 DEF Counted
<1>10. ASSUME NEW v \in Verifiers, Fail(v) PROVE GuessesAreCounted'
  <2>1. doc' = doc /\ (doc # None => Counted(doc.code)' = Counted(doc.code))
    BY <1>10 DEF Counted, Wrong, Fail
  <2> QED
    BY <2>1 DEF Counted
<1>11. ASSUME NEW r \in Requesters, Store(r) PROVE GuessesAreCounted'
  <2>1. doc'.code = codes + 1 /\ doc'.attempts = 0 /\ pc' = pc /\ judged' = judged
    BY <1>11 DEF Store
  <2>2. {v \in Wrong(codes + 1) : pc[v] = "invalid"} = {}
    BY DEF Wrong
  <2>3. {v \in Wrong(doc.code) : pc[v] = "invalid"}' = {}
    BY <2>1, <2>2 DEF Wrong
  <2> QED
    BY <2>1, <2>3, NobodyCounts
<1>12. ASSUME NEW r \in Requesters, Send(r) PROVE GuessesAreCounted'
  <2>1. doc' = doc /\ (doc # None => Counted(doc.code)' = Counted(doc.code))
    BY <1>12 DEF Counted, Wrong, Send
  <2> QED
    BY <2>1 DEF Counted
<1>13. ASSUME Expire PROVE GuessesAreCounted'
  <2>1. doc'.code = doc.code /\ doc'.attempts = doc.attempts /\ pc' = pc /\ judged' = judged
    BY <1>13 DEF Expire
  <2> QED
    BY <1>13, <2>1 DEF Expire, Wrong
<1>14. ASSUME Reap PROVE GuessesAreCounted'
  BY <1>14 DEF Reap
<1> QED
  BY <1>0, <1>1, <1>2, <1>3, <1>4, <1>5, <1>6, <1>7, <1>8, <1>9, <1>10,
     <1>11, <1>12, <1>13, <1>14 DEF Next, Verify

\* verify reads attempts in one call and counts the guess in another, while new
\* codes reset the count: no wrong guess at the stored code goes uncounted.
THEOREM WrongGuessesAreCounted == Spec => []GuessesAreCounted
<1>1. Init => TypeOK /\ AccountInv /\ ProgressInv /\ GuessesAreCounted
  BY TypeInit DEF Init, AccountInv, ProgressInv, GuessesAreCounted
<1>2. TypeOK /\ AccountInv /\ ProgressInv /\ GuessesAreCounted /\ [Next]_vars
      => (TypeOK /\ AccountInv /\ ProgressInv /\ GuessesAreCounted)'
  BY TypeNext, AccountNext, ProgressNext, CountedNext
<1> QED
  BY <1>1, <1>2, PTL DEF Spec

-----------------------------------------------------------------------------
(* The lock and the logins *)

\* The right guesses that have not deleted the document yet are in flight.
LEMMA FewLogins ==
    ASSUME TypeOK, ProgressInv, WidthInv, NEW v \in Verifiers, Match(v)
    PROVE  Cardinality(Logins(doc.code)') <= Width
<1>1. Logins(doc.code)' \subseteq InFlight
  BY DEF Match, Goto, Open, Logins, InFlight, Working, ProgressInv, TypeOK, Codes
<1>2. InFlight \in SUBSET Verifiers
  BY DEF InFlight
<1>3. /\ Cardinality(InFlight) \in Nat
      /\ Cardinality(Logins(doc.code)') \in Nat
      /\ Cardinality(Logins(doc.code)') <= Cardinality(InFlight)
  BY <1>1, <1>2, Countable
<1> QED
  BY <1>3, OtpAssumption DEF WidthInv

\* A wrong guess was counted, or its verification is in flight, or it died.
LEMMA FewWrongGuesses ==
    ASSUME TypeOK, ProgressInv, WidthInv, GuessesAreCounted,
           NEW v \in Verifiers, Mismatch(v)
    PROVE  Cardinality((Wrong(doc.code) \ lost)') <= Limit + Width - 1
<1> DEFINE C == Counted(doc.code)
<1>1. (Wrong(doc.code) \ lost)' \subseteq C \cup InFlight
  BY DEF Mismatch, Goto, Open, Wrong, Counted, InFlight, Working, ProgressInv, TypeOK, Codes
<1>2. C \in SUBSET Verifiers /\ InFlight \in SUBSET Verifiers
  BY DEF Counted, Wrong, InFlight
<1>3. Cardinality(C) <= doc.attempts /\ doc.attempts \in Nat /\ doc.attempts < Limit
  BY DEF GuessesAreCounted, Counted, Mismatch, Open, TypeOK, Codes
<1>4. Cardinality(InFlight) <= Width
  BY DEF WidthInv
<1>5. /\ Cardinality(C) \in Nat /\ Cardinality(InFlight) \in Nat
      /\ Cardinality(C \cup InFlight) \in Nat
      /\ Cardinality((Wrong(doc.code) \ lost)') \in Nat
      /\ Cardinality((Wrong(doc.code) \ lost)') <= Cardinality(C \cup InFlight)
  <2>1. C \cup InFlight \in SUBSET Verifiers
    BY <1>2
  <2> QED
    BY <1>1, <1>2, <2>1, Countable
<1>6. Cardinality(C \cup InFlight) <= Cardinality(C) + Cardinality(InFlight)
  BY <1>2, UnionCounts
<1> HIDE DEF C
<1> QED
  BY <1>3, <1>4, <1>5, <1>6, OtpAssumption

\* Match adds a login to those in flight; a login is never added later.
LEMMA LoginsNext ==
    ASSUME TypeOK, ProgressInv, WidthInv, LoginsWithinWidth, [Next]_vars
    PROVE  LoginsWithinWidth'
<1>a. ASSUME codes' = codes,
             \A n \in 1..codes : (Logins(n))' \subseteq Logins(n)
      PROVE  LoginsWithinWidth'
  <2>1. ASSUME NEW n \in 1..codes PROVE Cardinality((Logins(n))') <= Width
    <3>1. Logins(n) \in SUBSET Verifiers
      BY DEF Logins
    <3>2. /\ Cardinality(Logins(n)) \in Nat
          /\ Cardinality((Logins(n))') \in Nat
          /\ Cardinality((Logins(n))') <= Cardinality(Logins(n))
      BY <1>a, <2>1, <3>1, Countable
    <3>3. Cardinality(Logins(n)) <= Width
      BY <2>1 DEF LoginsWithinWidth
    <3> QED
      BY <3>2, <3>3, OtpAssumption
  <2> QED
    BY <1>a, <2>1 DEF LoginsWithinWidth
<1>0. CASE UNCHANGED vars
  <2>1. codes' = codes /\ \A n \in 1..codes : (Logins(n))' = Logins(n)
    BY <1>0 DEF vars, Logins
  <2> QED
    BY <2>1, <1>a
<1>1. ASSUME NEW v \in Verifiers, Arrive(v) PROVE LoginsWithinWidth'
  <2>1. codes' = codes
    BY <1>1 DEF Arrive, Goto
  <2>2. ASSUME NEW n \in 1..codes PROVE Logins(n)' \subseteq Logins(n)
    BY <1>1 DEF Logins, Arrive, Goto
  <2> QED
    BY <2>1, <2>2, <1>a
<1>2. ASSUME NEW v \in Verifiers, Refuse(v) PROVE LoginsWithinWidth'
  <2>1. codes' = codes /\ passed' = passed
    BY <1>2 DEF Refuse, Goto
  <2>2. \A w \in Verifiers : pc'[w] # "error" => pc[w] # "error"
    BY <1>2 DEF Refuse, Goto, TypeOK
  <2>3. ASSUME NEW n \in 1..codes PROVE Logins(n)' \subseteq Logins(n)
    BY <2>1, <2>2 DEF Logins
  <2> QED
    BY <2>1, <2>3, <1>a
<1>3. ASSUME NEW v \in Verifiers, Mismatch(v) PROVE LoginsWithinWidth'
  <2>1. codes' = codes
    BY <1>3 DEF Mismatch, Goto, Open
  <2>2. ASSUME NEW n \in 1..codes PROVE Logins(n)' \subseteq Logins(n)
    BY <1>3 DEF Logins, Mismatch, Goto, Open
  <2> QED
    BY <2>1, <2>2, <1>a
<1>4. ASSUME NEW v \in Verifiers, Match(v) PROVE LoginsWithinWidth'
  <2>1. codes' = codes /\ doc # None
    BY <1>4 DEF Match, Goto, Open
  <2>2. ASSUME NEW n \in 1..codes, n # doc.code PROVE (Logins(n))' \subseteq Logins(n)
    BY <1>4, <2>2 DEF Logins, Match, Goto, Open, ProgressInv, TypeOK
  <2>3. ASSUME NEW n \in 1..codes, n # doc.code PROVE Cardinality((Logins(n))') <= Width
    <3>1. Logins(n) \in SUBSET Verifiers
      BY DEF Logins
    <3>2. /\ Cardinality(Logins(n)) \in Nat
          /\ Cardinality((Logins(n))') \in Nat
          /\ Cardinality((Logins(n))') <= Cardinality(Logins(n))
      BY <2>2, <2>3, <3>1, Countable
    <3>3. Cardinality(Logins(n)) <= Width
      BY <2>3 DEF LoginsWithinWidth
    <3> QED
      BY <3>2, <3>3, OtpAssumption
  <2>4. Cardinality((Logins(doc.code))') <= Width
    BY <1>4, FewLogins
  <2>5. ASSUME NEW n \in 1..codes, n = doc.code PROVE Cardinality((Logins(n))') <= Width
    <3>1. (Logins(n))' = (Logins(doc.code))'
      BY <1>4, <2>5 DEF Logins, Match
    <3> QED
      BY <2>4, <3>1
  <2> QED
    BY <2>1, <2>3, <2>5 DEF LoginsWithinWidth
<1>5. ASSUME NEW v \in Verifiers, Inc(v) PROVE LoginsWithinWidth'
  <2>1. codes' = codes
    BY <1>5 DEF Inc, Goto
  <2>2. ASSUME NEW n \in 1..codes PROVE Logins(n)' \subseteq Logins(n)
    BY <1>5 DEF Logins, Inc, Goto
  <2> QED
    BY <2>1, <2>2, <1>a
<1>6. ASSUME NEW v \in Verifiers, Delete(v) PROVE LoginsWithinWidth'
  <2>1. codes' = codes
    BY <1>6 DEF Delete, Goto
  <2>2. ASSUME NEW n \in 1..codes PROVE Logins(n)' \subseteq Logins(n)
    BY <1>6 DEF Logins, Delete, Goto
  <2> QED
    BY <2>1, <2>2, <1>a
<1>7. ASSUME NEW v \in Verifiers, Lookup(v) PROVE LoginsWithinWidth'
  <2>1. codes' = codes
    BY <1>7 DEF Lookup, Goto
  <2>2. ASSUME NEW n \in 1..codes PROVE Logins(n)' \subseteq Logins(n)
    BY <1>7 DEF Logins, Lookup, Goto
  <2> QED
    BY <2>1, <2>2, <1>a
<1>8. ASSUME NEW v \in Verifiers, Create(v) PROVE LoginsWithinWidth'
  <2>1. codes' = codes /\ passed' = passed
    BY <1>8 DEF Create, Goto
  <2>2. \A w \in Verifiers : pc'[w] # "error" => pc[w] # "error"
    BY <1>8 DEF Create, Goto, TypeOK
  <2>3. ASSUME NEW n \in 1..codes PROVE Logins(n)' \subseteq Logins(n)
    BY <2>1, <2>2 DEF Logins
  <2> QED
    BY <2>1, <2>3, <1>a
<1>9. ASSUME NEW v \in Verifiers, Rename(v) PROVE LoginsWithinWidth'
  <2>1. codes' = codes
    BY <1>9 DEF Rename, Goto
  <2>2. ASSUME NEW n \in 1..codes PROVE Logins(n)' \subseteq Logins(n)
    BY <1>9 DEF Logins, Rename, Goto
  <2> QED
    BY <2>1, <2>2, <1>a
<1>10. ASSUME NEW v \in Verifiers, Fail(v) PROVE LoginsWithinWidth'
  <2>1. codes' = codes
    BY <1>10 DEF Fail
  <2>2. ASSUME NEW n \in 1..codes PROVE Logins(n)' \subseteq Logins(n)
    BY <1>10 DEF Logins, Fail
  <2> QED
    BY <2>1, <2>2, <1>a
<1>11. ASSUME NEW r \in Requesters, Store(r) PROVE LoginsWithinWidth'
  <2>1. codes' = codes + 1 /\ UNCHANGED <<judged, passed, lost, pc>>
    BY <1>11 DEF Store
  <2>2. \A n \in 1..codes : (Logins(n))' = Logins(n)
    BY <2>1 DEF Logins
  <2>3. ASSUME NEW n, n = codes + 1 PROVE (Logins(n))' = {}
    <3>1. \A v \in Verifiers : judged[v] # n /\ passed[v] # n
      BY <2>3 DEF ProgressInv, TypeOK
    <3> QED
      BY <2>1, <3>1 DEF Logins
  <2>4. ASSUME NEW n \in 1..codes' PROVE Cardinality((Logins(n))') <= Width
    <3>1. CASE n \in 1..codes
      BY <2>2, <3>1 DEF LoginsWithinWidth
    <3>2. CASE n = codes + 1
      <4>1. Cardinality((Logins(n))') = 0
        BY <2>3, <3>2, NobodyCounts
      <4> QED
        BY <4>1, OtpAssumption
    <3>3. codes \in Nat
      BY DEF TypeOK
    <3> QED
      BY <2>1, <2>4, <3>1, <3>2, <3>3
  <2> QED
    BY <2>4 DEF LoginsWithinWidth
<1>12. ASSUME NEW r \in Requesters, Send(r) PROVE LoginsWithinWidth'
  <2>1. codes' = codes
    BY <1>12 DEF Send
  <2>2. ASSUME NEW n \in 1..codes PROVE Logins(n)' \subseteq Logins(n)
    BY <1>12 DEF Logins, Send
  <2> QED
    BY <2>1, <2>2, <1>a
<1>13. ASSUME Expire PROVE LoginsWithinWidth'
  <2>1. codes' = codes
    BY <1>13 DEF Expire
  <2>2. ASSUME NEW n \in 1..codes PROVE Logins(n)' \subseteq Logins(n)
    BY <1>13 DEF Logins, Expire
  <2> QED
    BY <2>1, <2>2, <1>a
<1>14. ASSUME Reap PROVE LoginsWithinWidth'
  <2>1. codes' = codes
    BY <1>14 DEF Reap
  <2>2. ASSUME NEW n \in 1..codes PROVE Logins(n)' \subseteq Logins(n)
    BY <1>14 DEF Logins, Reap
  <2> QED
    BY <2>1, <2>2, <1>a
<1> QED
  BY <1>0, <1>1, <1>2, <1>3, <1>4, <1>5, <1>6, <1>7, <1>8, <1>9, <1>10,
     <1>11, <1>12, <1>13, <1>14 DEF Next, Verify

\* Mismatch adds a wrong guess while attempts is below Limit.
LEMMA LockoutNext ==
    ASSUME TypeOK, ProgressInv, WidthInv, GuessesAreCounted,
           LockoutWithinWidth, [Next]_vars
    PROVE  LockoutWithinWidth'
<1>a. ASSUME codes' = codes,
             \A n \in 1..codes : (Wrong(n) \ lost)' \subseteq Wrong(n) \ lost
      PROVE  LockoutWithinWidth'
  <2>1. ASSUME NEW n \in 1..codes PROVE Cardinality((Wrong(n) \ lost)') <= Limit + Width - 1
    <3>1. Wrong(n) \ lost \in SUBSET Verifiers
      BY DEF Wrong
    <3>2. /\ Cardinality(Wrong(n) \ lost) \in Nat
          /\ Cardinality((Wrong(n) \ lost)') \in Nat
          /\ Cardinality((Wrong(n) \ lost)') <= Cardinality(Wrong(n) \ lost)
      BY <1>a, <2>1, <3>1, Countable
    <3>3. Cardinality(Wrong(n) \ lost) <= Limit + Width - 1
      BY <2>1 DEF LockoutWithinWidth
    <3> QED
      BY <3>2, <3>3, OtpAssumption
  <2> QED
    BY <1>a, <2>1 DEF LockoutWithinWidth
<1>0. CASE UNCHANGED vars
  <2>1. codes' = codes /\ \A n \in 1..codes : (Wrong(n) \ lost)' = Wrong(n) \ lost
    BY <1>0 DEF vars, Wrong
  <2> QED
    BY <2>1, <1>a
<1>1. ASSUME NEW v \in Verifiers, Arrive(v) PROVE LockoutWithinWidth'
  <2>1. codes' = codes
    BY <1>1 DEF Arrive, Goto
  <2>2. ASSUME NEW n \in 1..codes PROVE (Wrong(n) \ lost)' \subseteq Wrong(n) \ lost
    BY <1>1 DEF Wrong, Arrive, Goto
  <2> QED
    BY <2>1, <2>2, <1>a
<1>2. ASSUME NEW v \in Verifiers, Refuse(v) PROVE LockoutWithinWidth'
  <2>1. codes' = codes
    BY <1>2 DEF Refuse, Goto
  <2>2. ASSUME NEW n \in 1..codes PROVE (Wrong(n) \ lost)' \subseteq Wrong(n) \ lost
    BY <1>2 DEF Wrong, Refuse, Goto
  <2> QED
    BY <2>1, <2>2, <1>a
<1>3. ASSUME NEW v \in Verifiers, Mismatch(v) PROVE LockoutWithinWidth'
  <2>1. codes' = codes /\ doc # None
    BY <1>3 DEF Mismatch, Goto, Open
  <2>2. ASSUME NEW n \in 1..codes, n # doc.code PROVE (Wrong(n) \ lost)' \subseteq Wrong(n) \ lost
    BY <1>3, <2>2 DEF Wrong, Mismatch, Goto, Open, ProgressInv, TypeOK
  <2>3. ASSUME NEW n \in 1..codes, n # doc.code PROVE Cardinality((Wrong(n) \ lost)') <= Limit + Width - 1
    <3>1. Wrong(n) \ lost \in SUBSET Verifiers
      BY DEF Wrong
    <3>2. /\ Cardinality(Wrong(n) \ lost) \in Nat
          /\ Cardinality((Wrong(n) \ lost)') \in Nat
          /\ Cardinality((Wrong(n) \ lost)') <= Cardinality(Wrong(n) \ lost)
      BY <2>2, <2>3, <3>1, Countable
    <3>3. Cardinality(Wrong(n) \ lost) <= Limit + Width - 1
      BY <2>3 DEF LockoutWithinWidth
    <3> QED
      BY <3>2, <3>3, OtpAssumption
  <2>4. Cardinality((Wrong(doc.code) \ lost)') <= Limit + Width - 1
    BY <1>3, FewWrongGuesses
  <2>5. ASSUME NEW n \in 1..codes, n = doc.code PROVE Cardinality((Wrong(n) \ lost)') <= Limit + Width - 1
    <3>1. (Wrong(n) \ lost)' = (Wrong(doc.code) \ lost)'
      BY <1>3, <2>5 DEF Wrong, Mismatch
    <3> QED
      BY <2>4, <3>1
  <2> QED
    BY <2>1, <2>3, <2>5 DEF LockoutWithinWidth
<1>4. ASSUME NEW v \in Verifiers, Match(v) PROVE LockoutWithinWidth'
  <2>1. codes' = codes
    BY <1>4 DEF Match, Goto, Open
  <2>2. ASSUME NEW n \in 1..codes PROVE (Wrong(n) \ lost)' \subseteq Wrong(n) \ lost
    BY <1>4 DEF Wrong, Match, Goto, Open
  <2> QED
    BY <2>1, <2>2, <1>a
<1>5. ASSUME NEW v \in Verifiers, Inc(v) PROVE LockoutWithinWidth'
  <2>1. codes' = codes
    BY <1>5 DEF Inc, Goto
  <2>2. ASSUME NEW n \in 1..codes PROVE (Wrong(n) \ lost)' \subseteq Wrong(n) \ lost
    BY <1>5 DEF Wrong, Inc, Goto
  <2> QED
    BY <2>1, <2>2, <1>a
<1>6. ASSUME NEW v \in Verifiers, Delete(v) PROVE LockoutWithinWidth'
  <2>1. codes' = codes
    BY <1>6 DEF Delete, Goto
  <2>2. ASSUME NEW n \in 1..codes PROVE (Wrong(n) \ lost)' \subseteq Wrong(n) \ lost
    BY <1>6 DEF Wrong, Delete, Goto
  <2> QED
    BY <2>1, <2>2, <1>a
<1>7. ASSUME NEW v \in Verifiers, Lookup(v) PROVE LockoutWithinWidth'
  <2>1. codes' = codes
    BY <1>7 DEF Lookup, Goto
  <2>2. ASSUME NEW n \in 1..codes PROVE (Wrong(n) \ lost)' \subseteq Wrong(n) \ lost
    BY <1>7 DEF Wrong, Lookup, Goto
  <2> QED
    BY <2>1, <2>2, <1>a
<1>8. ASSUME NEW v \in Verifiers, Create(v) PROVE LockoutWithinWidth'
  <2>1. codes' = codes
    BY <1>8 DEF Create, Goto
  <2>2. ASSUME NEW n \in 1..codes PROVE (Wrong(n) \ lost)' \subseteq Wrong(n) \ lost
    BY <1>8 DEF Wrong, Create, Goto
  <2> QED
    BY <2>1, <2>2, <1>a
<1>9. ASSUME NEW v \in Verifiers, Rename(v) PROVE LockoutWithinWidth'
  <2>1. codes' = codes
    BY <1>9 DEF Rename, Goto
  <2>2. ASSUME NEW n \in 1..codes PROVE (Wrong(n) \ lost)' \subseteq Wrong(n) \ lost
    BY <1>9 DEF Wrong, Rename, Goto
  <2> QED
    BY <2>1, <2>2, <1>a
<1>10. ASSUME NEW v \in Verifiers, Fail(v) PROVE LockoutWithinWidth'
  <2>1. codes' = codes
    BY <1>10 DEF Fail
  <2>2. ASSUME NEW n \in 1..codes PROVE (Wrong(n) \ lost)' \subseteq Wrong(n) \ lost
    BY <1>10 DEF Wrong, Fail
  <2> QED
    BY <2>1, <2>2, <1>a
<1>11. ASSUME NEW r \in Requesters, Store(r) PROVE LockoutWithinWidth'
  <2>1. codes' = codes + 1 /\ UNCHANGED <<judged, passed, lost, pc>>
    BY <1>11 DEF Store
  <2>2. \A n \in 1..codes : (Wrong(n) \ lost)' = Wrong(n) \ lost
    BY <2>1 DEF Wrong
  <2>3. ASSUME NEW n, n = codes + 1 PROVE (Wrong(n) \ lost)' = {}
    <3>1. \A v \in Verifiers : judged[v] # n /\ passed[v] # n
      BY <2>3 DEF ProgressInv, TypeOK
    <3> QED
      BY <2>1, <3>1 DEF Wrong
  <2>4. ASSUME NEW n \in 1..codes' PROVE Cardinality((Wrong(n) \ lost)') <= Limit + Width - 1
    <3>1. CASE n \in 1..codes
      BY <2>2, <3>1 DEF LockoutWithinWidth
    <3>2. CASE n = codes + 1
      <4>1. Cardinality((Wrong(n) \ lost)') = 0
        BY <2>3, <3>2, NobodyCounts
      <4> QED
        BY <4>1, OtpAssumption
    <3>3. codes \in Nat
      BY DEF TypeOK
    <3> QED
      BY <2>1, <2>4, <3>1, <3>2, <3>3
  <2> QED
    BY <2>4 DEF LockoutWithinWidth
<1>12. ASSUME NEW r \in Requesters, Send(r) PROVE LockoutWithinWidth'
  <2>1. codes' = codes
    BY <1>12 DEF Send
  <2>2. ASSUME NEW n \in 1..codes PROVE (Wrong(n) \ lost)' \subseteq Wrong(n) \ lost
    BY <1>12 DEF Wrong, Send
  <2> QED
    BY <2>1, <2>2, <1>a
<1>13. ASSUME Expire PROVE LockoutWithinWidth'
  <2>1. codes' = codes
    BY <1>13 DEF Expire
  <2>2. ASSUME NEW n \in 1..codes PROVE (Wrong(n) \ lost)' \subseteq Wrong(n) \ lost
    BY <1>13 DEF Wrong, Expire
  <2> QED
    BY <2>1, <2>2, <1>a
<1>14. ASSUME Reap PROVE LockoutWithinWidth'
  <2>1. codes' = codes
    BY <1>14 DEF Reap
  <2>2. ASSUME NEW n \in 1..codes PROVE (Wrong(n) \ lost)' \subseteq Wrong(n) \ lost
    BY <1>14 DEF Wrong, Reap
  <2> QED
    BY <2>1, <2>2, <1>a
<1> QED
  BY <1>0, <1>1, <1>2, <1>3, <1>4, <1>5, <1>6, <1>7, <1>8, <1>9, <1>10,
     <1>11, <1>12, <1>13, <1>14 DEF Next, Verify

\* Nobody is in flight, and there are no codes.
LEMMA CountInit ==
    ASSUME Init
    PROVE  WidthInv /\ LoginsWithinWidth /\ LockoutWithinWidth
<1>1. InFlight = {}
  BY DEF Init, InFlight, Working
<1>2. 1..codes = {}
  BY DEF Init
<1> QED
  BY <1>1, <1>2, NobodyCounts, OtpAssumption DEF WidthInv, LoginsWithinWidth, LockoutWithinWidth

\* verify finds the document in one call and deletes it in another: a code logs
\* in at most as often as verifications are in flight at once, once if they are
\* sequential.
THEOREM LoginsAreBounded == Spec => []LoginsWithinWidth
<1>1. Init => TypeOK /\ AccountInv /\ ProgressInv /\ WidthInv /\ LoginsWithinWidth
  BY TypeInit, CountInit DEF Init, AccountInv, ProgressInv
<1>2. TypeOK /\ AccountInv /\ ProgressInv /\ WidthInv /\ LoginsWithinWidth /\ [Next]_vars
      => (TypeOK /\ AccountInv /\ ProgressInv /\ WidthInv /\ LoginsWithinWidth)'
  BY TypeNext, AccountNext, ProgressNext, WidthNext, LoginsNext
<1> QED
  BY <1>1, <1>2, PTL DEF Spec

\* However verifications overlap, a code is compared with fewer than Limit + Width
\* wrong guesses, so with exactly the documented limit if they are sequential.
THEOREM LockoutIsBounded == Spec => []LockoutWithinWidth
<1>1. Init => /\ TypeOK /\ AccountInv /\ ProgressInv /\ WidthInv
              /\ GuessesAreCounted /\ LockoutWithinWidth
  BY TypeInit, CountInit DEF Init, AccountInv, ProgressInv, GuessesAreCounted
<1>2. TypeOK /\ AccountInv /\ ProgressInv /\ WidthInv /\ GuessesAreCounted
         /\ LockoutWithinWidth /\ [Next]_vars
      => (TypeOK /\ AccountInv /\ ProgressInv /\ WidthInv /\ GuessesAreCounted
             /\ LockoutWithinWidth)'
  BY TypeNext, AccountNext, ProgressNext, WidthNext, CountedNext, LockoutNext
<1> QED
  BY <1>1, <1>2, PTL DEF Spec

==============================================================================
