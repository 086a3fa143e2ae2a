--------------------------- MODULE WorkspaceProofs ---------------------------
(***************************************************************************)
(* The account that a tab shows is the one it acts for, and the shell      *)
(* lists that account's rooms, for any accounts and any number of handlers *)
(* that wait.                                                              *)
(***************************************************************************)
EXTENDS Workspace, TLAPS

-----------------------------------------------------------------------------
(* The inductive invariant *)

\* The token is the one of the account that is shown, or that refresh asked for;
\* while refresh waits nothing else does.
WhoInv ==
    /\ user # NoOne => token = user /\ ~loading
    /\ loading <=> asked # NoOne
    /\ loading => token = asked /\ \A t \in Tasks : doing[t] = "idle"
    /\ \A t \in Tasks : doing[t] = "verify" => of[t] # NoOne

\* What is listed, and what a run of the mounted shell will list.
ShellInv ==
    /\ (rooms # NoOne \/ current # {}) => ShellShown
    /\ rooms # NoOne => rooms = user \/ replaced
    /\ \A j \in current : job[j] \in {"list", "relist"} => bearer[j] = user \/ replaced

WorkspaceInv == TypeOK /\ WhoInv /\ ShellInv

LEMMA InitInv == Init => WorkspaceInv
<1> SUFFICES ASSUME Init  PROVE WorkspaceInv
  OBVIOUS
<1>1. AuthTypeOK
  <2>1. cookie \in Someone /\ token \in Someone /\ legacy \in Someone /\ asked \in Someone
    BY DEF Init, AuthInit, Someone
  <2>2. 0 \in 0..MaxLoads
    BY AuthAssumption
  <2>3. loading \in BOOLEAN /\ busy \in BOOLEAN
    BY DEF Init, AuthInit
  <2> QED  BY <2>1, <2>2, <2>3 DEF Init, AuthInit, AuthTypeOK, Someone
<1>2. TypeOK
  BY <1>1, AuthAssumption DEF Init, TypeOK, Someone
<1>3. WhoInv
  BY DEF Init, AuthInit, WhoInv
<1>4. ShellInv
  BY DEF Init, ShellInv
<1> QED  BY <1>2, <1>3, <1>4 DEF WorkspaceInv

-----------------------------------------------------------------------------
(* Steps of the session *)

LEMMA LoadStep ==
    ASSUME WorkspaceInv, NEW p \in Paths, Load(p)
    PROVE  AuthTypeOK' /\ WhoInv'
<1> USE DEF WorkspaceInv, TypeOK, AuthTypeOK, Load, Migrate, Stored, Someone
<1>1. loads' \in 0..MaxLoads
  BY AuthAssumption
<1>2. AuthTypeOK'
  BY <1>1
<1>3. WhoInv'
  BY DEF WhoInv
<1> QED  BY <1>2, <1>3

LEMMA ShownStep ==
    ASSUME WorkspaceInv,
           \/ Refreshed \/ RefreshFailed \/ Redirect
           \/ \E t \in Tasks : Logout(t) \/ Verified(t)
           \/ \E p \in Paths : Visit(p)
    PROVE  AuthTypeOK' /\ WhoInv'
<1> USE AuthAssumption DEF WorkspaceInv, TypeOK, AuthTypeOK, WhoInv, RenderLogin, form, tasks, Someone
<1>1. CASE Refreshed  BY <1>1 DEF Refreshed
<1>2. CASE RefreshFailed  BY <1>2 DEF RefreshFailed, ClearToken
<1>3. CASE Redirect  BY <1>3 DEF Redirect, Target, Paths
<1>4. ASSUME NEW t \in Tasks, Logout(t)  PROVE AuthTypeOK' /\ WhoInv'
  BY <1>4 DEF Logout, ClearToken, ShellShown
<1>5. ASSUME NEW t \in Tasks, Verified(t)  PROVE AuthTypeOK' /\ WhoInv'
  BY <1>5 DEF Verified, SetToken, Paths
<1>6. ASSUME NEW p \in Paths, Visit(p)  PROVE AuthTypeOK' /\ WhoInv'
  BY <1>6 DEF Visit
<1> QED  BY <1>1, <1>2, <1>3, <1>4, <1>5, <1>6

LEMMA QuietStep ==
    ASSUME WorkspaceInv, Quiet
    PROVE  AuthTypeOK' /\ WhoInv' /\ user' = user /\ ShellShown' = ShellShown
<1> USE AuthAssumption DEF WorkspaceInv, TypeOK, AuthTypeOK, WhoInv, Typing, LoginShown, ShellShown,
        form, tasks, session, Someone
<1> DEFINE Goal == AuthTypeOK' /\ WhoInv' /\ user' = user /\ ShellShown' = ShellShown
<1>1. ASSUME NEW a \in Someone, EditEmail(a)  PROVE Goal
  BY <1>1 DEF EditEmail
<1>2. CASE UseOtherEmail  BY <1>2 DEF UseOtherEmail
<1>3. ASSUME NEW t \in Tasks, RequestOtp(t) \/ VerifyOtp(t)  PROVE Goal
  <2>1. email # NoOne /\ UNCHANGED <<session, step, email>> /\ busy' = TRUE /\ ~loading
    BY <1>3 DEF RequestOtp, VerifyOtp, Submit
  <2>2. \E what \in {"request", "verify"} : doing' = [doing EXCEPT ![t] = what]
    BY <1>3 DEF RequestOtp, VerifyOtp, Submit
  <2>3. of' = [of EXCEPT ![t] = email] /\ attached' = attached \cup {t}
    BY <1>3 DEF RequestOtp, VerifyOtp, Submit
  <2>4. AuthTypeOK'
    BY <2>1, <2>2, <2>3
  <2>5. WhoInv'
    BY <2>1, <2>2, <2>3
  <2> QED  BY <2>1, <2>4, <2>5
<1>4. ASSUME NEW t \in Tasks, Requested(t) \/ FormFailed(t)  PROVE Goal
  <2>1. UNCHANGED <<session, email>> /\ attached' = attached \ {t}
    BY <1>4 DEF Requested, FormFailed, Finish
  <2>2. doing' = [doing EXCEPT ![t] = "idle"] /\ of' = [of EXCEPT ![t] = NoOne]
    BY <1>4 DEF Requested, FormFailed, Finish
  <2>3. step' \in {"email", "otp"} /\ busy' \in BOOLEAN
    BY <1>4 DEF Requested, FormFailed, Finish
  <2>4. AuthTypeOK'
    BY <2>1, <2>2, <2>3
  <2>5. WhoInv'
    BY <2>1, <2>2, <2>3
  <2> QED  BY <2>1, <2>4, <2>5
<1>5. ASSUME NEW t \in Tasks, LoggedOut(t)  PROVE Goal
  BY <1>5 DEF LoggedOut
<1>6. CASE OtherTab  BY <1>6 DEF OtherTab
<1> QED  BY <1>1, <1>2, <1>3, <1>4, <1>5, <1>6 DEF Quiet

-----------------------------------------------------------------------------
(* Steps of the shell *)

\* What the shell is mounted with, or asks for when it moves, is its account's.
LEMMA RenderStep ==
    ASSUME WorkspaceInv, NEW moved \in BOOLEAN, Render(moved),
           AuthTypeOK', WhoInv', going' \subseteq Forms
    PROVE  WorkspaceInv'
<1> USE DEF WorkspaceInv, TypeOK, ShellInv, Someone
<1>1. ShellShown' => Acting' = user' /\ user' \in Someone /\ user' # NoOne
  BY DEF ShellShown, Acting, Stored, WhoInv, AuthTypeOK
<1>2. Lists \subseteq Jobs  BY DEF Jobs
<1>3. CASE ShellShown' /\ (moved \/ ~ShellShown)
  <2> PICK l \in Lists :
         /\ Effect(l)
         /\ IF ShellShown
            THEN current' = current \cup {l} /\ UNCHANGED <<rooms, waiting>>
            ELSE current' = {l} /\ rooms' = NoOne /\ waiting' = TRUE
    BY <1>3 DEF Render
  <2>1. l \in Jobs /\ job'[l] = "list" /\ bearer'[l] = user'
    BY <1>1, <1>2, <1>3 DEF Effect
  <2>2. \A j \in Jobs \ {l} : job'[j] = job[j] /\ bearer'[j] = bearer[j]
    BY DEF Effect
  <2>3. TypeOK'
    <3>1. job' \in [Jobs -> {"idle", "list", "enter", "relist"}] /\ bearer' \in [Jobs -> Someone]
      BY <1>1, <1>2, <1>3 DEF Effect
    <3>2. rooms' \in Someone /\ waiting' \in BOOLEAN /\ current' \subseteq Jobs
      <4>1. CASE ShellShown  BY <1>2, <4>1
      <4>2. CASE ~ShellShown  BY <1>2, <4>2
      <4> QED  BY <4>1, <4>2
    <3>3. replaced' \in BOOLEAN
      BY DEF Render
    <3> QED  BY <3>1, <3>2, <3>3
  <2>4. ShellInv'
    BY <1>3, <2>1, <2>2 DEF Render
  <2> QED  BY <2>3, <2>4
<1>4. CASE ~(ShellShown' /\ (moved \/ ~ShellShown))
  <2>1. TypeOK'
    BY <1>4, AuthAssumption DEF Render, Stays, Unmounted
  <2>2. ShellInv'
    BY <1>4 DEF Render, Stays, Unmounted
  <2> QED  BY <2>1, <2>2
<1> QED  BY <1>3, <1>4

LEMMA AnswerStep ==
    ASSUME WorkspaceInv, NEW j \in Jobs, Listed(j) \/ ListFailed(j)
    PROVE  WorkspaceInv'
<1> USE DEF WorkspaceInv, TypeOK, Listed, ListFailed, Loaded, Done, Someone
<1>1. UNCHANGED authVars  OBVIOUS
<1>2. AuthTypeOK' /\ WhoInv' /\ ShellShown' = ShellShown /\ user' = user
  BY <1>1 DEF AuthTypeOK, WhoInv, ShellShown, authVars, session, form, tasks, Someone
<1>3. TypeOK'
  BY <1>2, AuthAssumption
<1>4. ShellInv'
  BY <1>2 DEF ShellInv
<1> QED  BY <1>2, <1>3, <1>4

LEMMA FormStep ==
    ASSUME WorkspaceInv, NEW f \in Forms, Enter(f) \/ EnterFailed(f) \/ Entered(f)
    PROVE  WorkspaceInv'
<1> USE DEF WorkspaceInv, TypeOK, Enter, EnterFailed, Entered, Wait, Done, Someone
<1>0. f \in Jobs  BY DEF Jobs
<1>1. UNCHANGED authVars  OBVIOUS
<1>2. AuthTypeOK' /\ WhoInv' /\ ShellShown' = ShellShown /\ user' = user
  BY <1>1 DEF AuthTypeOK, WhoInv, ShellShown, authVars, session, form, tasks, Someone
<1>3. Acting \in Someone /\ (ShellShown => Acting = user)
  BY DEF Acting, Stored, ShellShown, WhoInv, AuthTypeOK
<1>4. TypeOK'
  BY <1>0, <1>2, <1>3, AuthAssumption
<1>5. ShellInv'
  BY <1>0, <1>2, <1>3 DEF ShellInv
<1> QED  BY <1>2, <1>4, <1>5

-----------------------------------------------------------------------------
(* The theorems *)

LEMMA NextInv == WorkspaceInv /\ [Next]_vars => WorkspaceInv'
<1> SUFFICES ASSUME WorkspaceInv, [Next]_vars  PROVE WorkspaceInv'
  OBVIOUS
<1>1. ASSUME NEW p \in Paths, Reload(p)  PROVE WorkspaceInv'
  <2>1. AuthTypeOK' /\ WhoInv'
    BY <1>1, LoadStep DEF Reload
  <2>2. TypeOK'
    BY <1>1, <2>1, AuthAssumption DEF Reload, Unmounted, TypeOK, Someone
  <2>3. ShellInv'
    BY <1>1 DEF Reload, Unmounted, ShellInv
  <2> QED  BY <2>1, <2>2, <2>3 DEF WorkspaceInv
<1>2. CASE Quiet /\ UNCHANGED shell
  <2>1. AuthTypeOK' /\ WhoInv' /\ user' = user /\ ShellShown' = ShellShown
    BY <1>2, QuietStep
  <2> QED  BY <1>2, <2>1 DEF WorkspaceInv, TypeOK, ShellInv, shell, Someone
<1>3. CASE Shown /\ UNCHANGED going
  <2>1. AuthTypeOK' /\ WhoInv'
    BY <1>3, ShownStep DEF Shown
  <2>2. PICK moved \in BOOLEAN : Render(moved)
    BY <1>3 DEF Shown
  <2> QED  BY <1>3, <2>1, <2>2, RenderStep DEF WorkspaceInv, TypeOK
<1>4. ASSUME NEW j \in Jobs, Listed(j) \/ ListFailed(j)  PROVE WorkspaceInv'
  BY <1>4, AnswerStep
<1>5. ASSUME NEW f \in Forms, Enter(f) \/ EnterFailed(f) \/ Entered(f)  PROVE WorkspaceInv'
  BY <1>5, FormStep
<1>6. ASSUME NEW f \in Forms, Navigate(f)  PROVE WorkspaceInv'
  <2>1. "room" \in Paths  BY DEF Paths
  <2>2. AuthTypeOK' /\ WhoInv'
    BY <1>6, <2>1, ShownStep DEF Navigate
  <2> QED  BY <1>6, <2>2, RenderStep DEF Navigate, WorkspaceInv, TypeOK
<1>7. CASE UNCHANGED vars
  BY <1>7 DEF vars, authVars, session, form, tasks, shell, WorkspaceInv, TypeOK, AuthTypeOK, WhoInv,
     ShellInv, ShellShown, Someone
<1> QED  BY <1>1, <1>2, <1>3, <1>4, <1>5, <1>6, <1>7 DEF Next

THEOREM Invariance == Spec => []WorkspaceInv
<1> QED  BY InitInv, NextInv, PTL DEF Spec

\* Every variable has its type.
THEOREM TypeCorrect == Spec => []TypeOK
<1>1. WorkspaceInv => TypeOK  BY DEF WorkspaceInv
<1> QED  BY <1>1, Invariance, PTL

\* Whatever other tabs do with the cookie that all of them send, and whichever
\* logouts and verifications are answered late: requests are taken to be from the
\* account that the tab shows.
THEOREM ShownIsActedFor == Spec => []ActsAsShown
<1>1. WorkspaceInv => ActsAsShown
  BY DEF WorkspaceInv, WhoInv, ActsAsShown, Acting, Stored
<1> QED  BY <1>1, Invariance, PTL

\* The shell lists the rooms of the account that is shown, or somebody was
\* signed in over somebody else since it was mounted.
THEOREM ListedAreOwn == Spec => []ShellListsOwn
<1>1. WorkspaceInv => ShellListsOwn
  BY DEF WorkspaceInv, ShellInv, ShellListsOwn
<1> QED  BY <1>1, Invariance, PTL
=============================================================================
