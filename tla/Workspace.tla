------------------------------ MODULE Workspace ------------------------------
(***************************************************************************)
(* The pages behind the login: AppShell.tsx with its list of rooms, and    *)
(* what AuthSession does to it.  The shell loads the list when it is       *)
(* mounted and whenever the path changes; handleCreate and handleJoin wait *)
(* for the room, then for the list, and then go to the room.  None of them *)
(* is stopped when the shell is unmounted, and answers may come in any     *)
(* order.  A list of rooms is the account whose rooms it is.               *)
(***************************************************************************)
EXTENDS AuthSession

CONSTANTS
    Lists,      \* runs of loadRooms by the effect: a bound on how many wait
    Forms       \* runs of handleCreate or handleJoin: likewise

Jobs == Lists \cup Forms

ASSUME WorkspaceAssumption == Lists \cap Forms = {}

VARIABLES
    rooms,      \* whose rooms are listed
    waiting,    \* the shell's loading
    job,        \* what a run waits for: the list, the room, the list again
    bearer,     \* the account that its request is taken to be from
    current,    \* the runs whose shell is still mounted
    going,      \* the forms that navigate next
    replaced    \* history: somebody was signed in while another was

shell == <<rooms, waiting, job, bearer, current, going, replaced>>
vars == <<authVars, shell>>

TypeOK ==
    /\ AuthTypeOK
    /\ rooms \in Someone /\ waiting \in BOOLEAN
    /\ job \in [Jobs -> {"idle", "list", "enter", "relist"}]
    /\ bearer \in [Jobs -> Someone]
    /\ current \subseteq Jobs /\ going \subseteq Forms
    /\ replaced \in BOOLEAN

-----------------------------------------------------------------------------
(* AppShell is mounted, moved or unmounted *)

\* Its state is gone. The runs go on.
Unmounted == rooms' = NoOne /\ waiting' = TRUE /\ current' = {}

Stays == UNCHANGED <<rooms, waiting, current>>

\* The effect starts loadRooms, as run l.
Effect(l) ==
    /\ job[l] = "idle"
    /\ job' = [job EXCEPT ![l] = "list"]
    /\ bearer' = [bearer EXCEPT ![l] = Acting']

\* Mutant of Render: the list outlives the shell.
RenderKept(moved) ==
    /\ replaced' = (ShellShown' /\ (replaced \/ (ShellShown /\ user' # user)))
    /\ IF ShellShown' /\ (moved \/ ~ShellShown)
       THEN \E l \in Lists :
               /\ Effect(l)
               /\ IF ShellShown THEN current' = current \cup {l} ELSE current' = {l}
               /\ UNCHANGED <<rooms, waiting>>
       ELSE /\ IF ShellShown' THEN Stays ELSE current' = {} /\ UNCHANGED <<rooms, waiting>>
            /\ UNCHANGED <<job, bearer>>

\* What a change of the user, of loading or of the path does to the shell.
Render(moved) ==
    /\ replaced' = (ShellShown' /\ (replaced \/ (ShellShown /\ user' # user)))
    /\ IF ShellShown' /\ (moved \/ ~ShellShown)
       THEN \E l \in Lists :
               /\ Effect(l)
               /\ IF ShellShown
                  THEN current' = current \cup {l} /\ UNCHANGED <<rooms, waiting>>
                  ELSE current' = {l} /\ rooms' = NoOne /\ waiting' = TRUE
       ELSE /\ IF ShellShown' THEN Stays ELSE Unmounted
            /\ UNCHANGED <<job, bearer>>

-----------------------------------------------------------------------------
(* loadRooms, handleCreate and handleJoin *)

Wait(j, what) ==
    /\ job' = [job EXCEPT ![j] = what] /\ bearer' = [bearer EXCEPT ![j] = Acting]
    /\ UNCHANGED <<authVars, rooms, waiting, going, replaced>>

Done(j) ==
    /\ job' = [job EXCEPT ![j] = "idle"] /\ bearer' = [bearer EXCEPT ![j] = NoOne]
    /\ current' = current \ {j}
    /\ UNCHANGED <<authVars, replaced>>

\* What a run of loadRooms then does is seen if its shell is still mounted.
Loaded(j) ==
    /\ job[j] \in {"list", "relist"}
    /\ Done(j)
    /\ waiting' = (waiting /\ j \notin current)
    /\ going' = IF j \in Forms THEN going \cup {j} ELSE going

\* Without a token and a cookie the answer is 401.
Listed(j) ==
    /\ bearer[j] # NoOne
    /\ Loaded(j)
    /\ rooms' = IF j \in current THEN bearer[j] ELSE rooms

\* Mutant of ListFailed: loading ends only with a list.
ListFailedWaits(j) ==
    /\ job[j] \in {"list", "relist"}
    /\ Done(j)
    /\ going' = IF j \in Forms THEN going \cup {j} ELSE going
    /\ UNCHANGED <<rooms, waiting>>

\* The error is caught: handleCreate and handleJoin go on.
ListFailed(j) == Loaded(j) /\ UNCHANGED rooms

\* A form is submitted.
Enter(f) ==
    /\ ShellShown /\ job[f] = "idle" /\ f \notin going
    /\ Wait(f, "enter")
    /\ current' = current \cup {f}

EnterFailed(f) ==
    /\ job[f] = "enter"
    /\ Done(f)
    /\ UNCHANGED <<rooms, waiting, going>>

\* The account has the room; the list is loaded for whoever is signed in now.
Entered(f) ==
    /\ job[f] = "enter" /\ bearer[f] # NoOne
    /\ Wait(f, "relist")
    /\ UNCHANGED current

\* To the room, whoever is signed in now.
Navigate(f) ==
    /\ f \in going /\ going' = going \ {f}
    /\ Visit("room")
    /\ Render(TRUE)

-----------------------------------------------------------------------------
(* Specification *)

Init ==
    /\ AuthInit
    /\ rooms = NoOne /\ waiting = TRUE /\ current = {} /\ going = {} /\ replaced = FALSE
    /\ job = [j \in Jobs |-> "idle"] /\ bearer = [j \in Jobs |-> NoOne]

Reload(p) ==
    /\ Load(p)
    /\ Unmounted /\ going' = {} /\ replaced' = FALSE
    /\ job' = [j \in Jobs |-> "idle"] /\ bearer' = [j \in Jobs |-> NoOne]

\* In the form, and what does not change who is signed in here.
Quiet ==
    \/ \E a \in Someone : EditEmail(a)
    \/ UseOtherEmail
    \/ \E t \in Tasks : RequestOtp(t) \/ VerifyOtp(t) \/ Requested(t) \/ FormFailed(t) \/ LoggedOut(t)
    \/ OtherTab

\* What may mount, move or unmount the shell.
Shown ==
    \/ (Refreshed \/ RefreshFailed) /\ Render(FALSE)
    \/ \E t \in Tasks : Logout(t) /\ Render(FALSE)
    \/ \E t \in Tasks : Verified(t) /\ Render(path # "dashboard")
    \/ \E p \in Paths : Visit(p) /\ Render(p = "room" \/ path # p)
    \/ Redirect /\ Render(TRUE)

Next ==
    \/ \E p \in Paths : Reload(p)
    \/ Quiet /\ UNCHANGED shell
    \/ Shown /\ UNCHANGED going
    \/ \E j \in Jobs : Listed(j) \/ ListFailed(j)
    \/ \E f \in Forms : Enter(f) \/ EnterFailed(f) \/ Entered(f) \/ Navigate(f)

Spec == Init /\ [][Next]_vars

\* A request that waits is answered or fails, and React renders.  Of the user, of
\* other tabs and of what the answers are nothing is assumed; Verified ends what
\* FormFailed would have to end.
FairSpec ==
    /\ Spec
    /\ WF_vars((Refreshed \/ RefreshFailed) /\ Render(FALSE) /\ UNCHANGED going)
    /\ WF_vars(Redirect /\ Render(TRUE) /\ UNCHANGED going)
    /\ \A t \in Tasks : WF_vars((Requested(t) \/ FormFailed(t)) /\ UNCHANGED shell)
    /\ \A j \in Jobs : WF_vars(Listed(j) \/ ListFailed(j))

-----------------------------------------------------------------------------
(* Properties *)

\* The rooms that are listed are those of the account that is shown, although
\* answers may come after a logout, another login or in another order than they
\* were asked for.  Excepted is the shell in which somebody was signed in over
\* somebody else (a verification that was given up and is answered late): it is
\* not mounted anew, and lists the old rooms until the next answer.
ShellListsOwn == rooms # NoOne => rooms = user \/ replaced

\* Nobody is left on the loading screen, or on a path that shows nothing:
\* again and again the login form or the shell is shown, whatever is answered.
PagesSettle == []<>(LoginShown \/ ShellShown)

\* A button that was disabled for a request, and the list that is being loaded,
\* become available again, whatever is answered and whatever the user does.
SpinnersEnd == []<>~busy /\ []<>(ShellShown => ~waiting)
=============================================================================
