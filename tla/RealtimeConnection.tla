-------------------------- MODULE RealtimeConnection --------------------------
(***************************************************************************)
(* connectWebSocket (frontend/src/lib/websocket.ts): a WebSocket that      *)
(* reconnects after a pause, at most MaxRetries times in a row, until its  *)
(* owner closes it.  The callbacks of the browser are the actions.         *)
(***************************************************************************)
EXTENDS Naturals

CONSTANTS
    Conns,      \* the calls of connectWebSocket
    MaxRetries  \* 5 in the source

ASSUME ConnectionAssumption == MaxRetries \in Nat

VARIABLES
    sock,       \* the WebSocket in ws, "none" before the call
    retries,
    timer,      \* setTimeout(connect) is pending
    closed,     \* close() was called
    revived     \* history: how often connect ran after close()

connVars == <<sock, retries, timer, closed, revived>>

ConnTypeOK ==
    /\ sock \in [Conns -> {"none", "connecting", "open", "closed"}]
    /\ retries \in [Conns -> 0..MaxRetries]
    /\ timer \in [Conns -> BOOLEAN]
    /\ closed \in [Conns -> BOOLEAN]
    /\ revived \in [Conns -> Nat]

ConnInit ==
    /\ sock = [c \in Conns |-> "none"]
    /\ retries = [c \in Conns |-> 0]
    /\ timer = [c \in Conns |-> FALSE]
    /\ closed = [c \in Conns |-> FALSE]
    /\ revived = [c \in Conns |-> 0]

Connect(c) ==
    /\ sock[c] = "none"
    /\ sock' = [sock EXCEPT ![c] = "connecting"]
    /\ UNCHANGED <<retries, timer, closed, revived>>

\* onopen.
Opened(c) ==
    /\ sock[c] = "connecting"
    /\ sock' = [sock EXCEPT ![c] = "open"]
    /\ retries' = [retries EXCEPT ![c] = 0]
    /\ UNCHANGED <<timer, closed, revived>>

Alive(c) == sock[c] \in {"connecting", "open"}

\* Mutants of Lost: the bound is off by one; only a socket that was open is
\* followed by another; close() is not asked.
LostOffByOne(c) ==
    /\ Alive(c)
    /\ sock' = [sock EXCEPT ![c] = "closed"]
    /\ LET again == ~closed[c] /\ retries[c] <= MaxRetries
       IN /\ timer' = [timer EXCEPT ![c] = again]
          /\ retries' = [retries EXCEPT ![c] = IF again THEN @ + 1 ELSE @]
    /\ UNCHANGED <<closed, revived>>
LostIfOpen(c) ==
    /\ Alive(c)
    /\ sock' = [sock EXCEPT ![c] = "closed"]
    /\ LET again == ~closed[c] /\ retries[c] < MaxRetries /\ sock[c] = "open"
       IN /\ timer' = [timer EXCEPT ![c] = again]
          /\ retries' = [retries EXCEPT ![c] = IF again THEN @ + 1 ELSE @]
    /\ UNCHANGED <<closed, revived>>
LostAnyway(c) ==
    /\ Alive(c)
    /\ sock' = [sock EXCEPT ![c] = "closed"]
    /\ LET again == retries[c] < MaxRetries
       IN /\ timer' = [timer EXCEPT ![c] = again]
          /\ retries' = [retries EXCEPT ![c] = IF again THEN @ + 1 ELSE @]
    /\ UNCHANGED <<closed, revived>>

\* onclose: the handshake failed, the network did, or the server closed it.
Lost(c) ==
    /\ Alive(c)
    /\ sock' = [sock EXCEPT ![c] = "closed"]
    /\ LET again == ~closed[c] /\ retries[c] < MaxRetries
       IN /\ timer' = [timer EXCEPT ![c] = again]
          /\ retries' = [retries EXCEPT ![c] = IF again THEN @ + 1 ELSE @]
    /\ UNCHANGED <<closed, revived>>

\* connect, called by the timer: whether close() was called is not asked.
Due(c) ==
    /\ timer[c]
    /\ timer' = [timer EXCEPT ![c] = FALSE]
    /\ sock' = [sock EXCEPT ![c] = "connecting"]
    /\ revived' = [revived EXCEPT ![c] = IF closed[c] THEN @ + 1 ELSE @]
    /\ UNCHANGED <<retries, closed>>

\* close(): the timer is not cleared.
Close(c) ==
    /\ closed' = [closed EXCEPT ![c] = TRUE]
    /\ sock' = [sock EXCEPT ![c] = IF Alive(c) THEN "closed" ELSE @]
    /\ UNCHANGED <<retries, timer, revived>>

-----------------------------------------------------------------------------
(* Properties *)

\* A connection that its owner has not closed is alive, or about to be tried
\* again, or has failed as often as it may: no order of open, error and close
\* events leaves it waiting for nothing.
NeverStranded ==
    \A c \in Conns :
        sock[c] = "closed" /\ ~closed[c] => timer[c] \/ retries[c] = MaxRetries

\* A connection that was closed comes back at most once, through the timer that
\* close() leaves pending, and then gives up at its first failure.
RevivedAtMostOnce == \A c \in Conns : revived[c] <= 1

\* A connection that was closed stays closed.
ClosedStaysClosed == \A c \in Conns : closed[c] => ~Alive(c)
=============================================================================
