------------------------------ MODULE StatusSocket ------------------------------
(***************************************************************************)
(* The store of components/ConnectionStatus.tsx: one WebSocket to          *)
(* /ws/status for all its listeners, opened for the first, closed with the *)
(* last and opened again, with delays, when it closes.  Sockets and timers *)
(* the store has lost sight of live on: their callbacks act on the store.  *)
(***************************************************************************)
EXTENDS Integers, FiniteSets

CONSTANTS
    Listeners,   \* components that may listen
    MAX_RETRIES, \* attempts to open the socket again
    MaxSockets   \* sockets and timers that live at once: a bound
ASSUME StatusSocketAssumption == {MAX_RETRIES, MaxSockets} \subseteq Nat \ {0}

VARIABLES
    link,     \* the store: [status, refs, retries, ws, timer, timers, hasConnected]
    sockets,  \* the state of each socket, for the browser
    serverUp  \* connections are accepted
linkVars == <<link, sockets, serverUp>>

StatusInit ==
    /\ link = [status |-> "disconnected", refs |-> {}, retries |-> 0, ws |-> 0, timer |-> 0,
               timers |-> {}, hasConnected |-> FALSE]
    /\ sockets = [s \in 1..MaxSockets |-> "free"]
    /\ serverUp \in BOOLEAN

Free == {s \in 1..MaxSockets : sockets[s] = "free"}
Live == {s \in 1..MaxSockets : sockets[s] # "free"}
FreeTimers == 1..MaxSockets \ link.timers

-----------------------------------------------------------------------------
(* The store. *)

\* connect(): a new socket takes the place of the tracked one.
connect(store) ==
    \E s \in Free :
        /\ s = CHOOSE f \in Free : \A g \in Free : f <= g
        /\ link' = [store EXCEPT !.ws = s]
        /\ sockets' = [sockets EXCEPT ![s] = "connecting"]

\* subscribe()
Subscribe(l) ==
    /\ l \notin link.refs
    /\ LET store == [link EXCEPT !.refs = @ \cup {l}]
       IN  IF link.refs = {} THEN connect(store) ELSE link' = store /\ UNCHANGED sockets
    /\ UNCHANGED serverUp

\* Mutant: the status is left as it was.
KeepsStatus(store) == [store EXCEPT !.ws = 0, !.retries = 0, !.timers = @ \ {store.timer}]

\* With its last listener the store closes its socket and its latest timer.
Reset(store) ==
    [store EXCEPT !.ws = 0, !.retries = 0, !.timers = @ \ {store.timer},
                  !.status = "disconnected"]

Unsubscribe(l) ==
    /\ l \in link.refs
    /\ LET store == [link EXCEPT !.refs = @ \ {l}]
       IN  IF store.refs # {} THEN link' = store /\ UNCHANGED sockets
           ELSE /\ link' = Reset(store)
                /\ sockets' = [s \in 1..MaxSockets |->
                                 IF s = link.ws THEN "closing" ELSE sockets[s]]
    /\ UNCHANGED serverUp

Opened(s) ==
    /\ sockets[s] = "connecting" /\ serverUp
    /\ sockets' = [sockets EXCEPT ![s] = "open"]
    /\ link' = [link EXCEPT !.status = "connected", !.retries = 0, !.hasConnected = TRUE]
    /\ UNCHANGED serverUp

\* onerror closes the socket the store tracks, which may be another one; the
\* browser closes the one that failed.
Fails(s) ==
    /\ sockets[s] \in {"connecting", "open"} /\ ~serverUp
    /\ sockets' = [t \in 1..MaxSockets |->
                     IF t \in {s, link.ws} THEN "closing" ELSE sockets[t]]
    /\ UNCHANGED <<link, serverUp>>

Attempts(store) == store.retries + 1

Retries(store) == store.refs # {} /\ store.retries < MAX_RETRIES

GivenUp(status) == "disconnected"

\* onclose, of whichever socket.
Closed(s) ==
    /\ sockets[s] = "closing"
    /\ sockets' = [sockets EXCEPT ![s] = "free"]
    /\ IF Retries(link)
       THEN \E t \in FreeTimers :
              /\ t = CHOOSE f \in FreeTimers : \A g \in FreeTimers : f <= g
              /\ link' = [link EXCEPT !.ws = 0, !.status = "reconnecting", !.retries = Attempts(link),
                                      !.timer = t, !.timers = @ \cup {t}]
       ELSE link' = [link EXCEPT !.ws = 0, !.status = GivenUp(@)]
    /\ UNCHANGED serverUp

\* A timer connects, with listeners or without.
TimerFires(t) ==
    /\ t \in link.timers
    /\ connect([link EXCEPT !.timers = @ \ {t}])
    /\ UNCHANGED serverUp

\* The server goes down or comes back.
ServerTurns == serverUp' = ~serverUp /\ UNCHANGED <<link, sockets>>

Callback ==
    \/ \E s \in 1..MaxSockets : Opened(s) \/ Fails(s) \/ Closed(s)
    \/ \E t \in 1..MaxSockets : TimerFires(t)
StatusNext ==
    \/ \E l \in Listeners : Subscribe(l) \/ Unsubscribe(l)
    \/ Callback \/ ServerTurns

\* What ConnectionStatus shows: nothing before it was connected once.
Label ==
    IF link.status = "disconnected" /\ ~link.hasConnected THEN "nothing" ELSE link.status

-----------------------------------------------------------------------------
(* Properties. *)

\* Polling is stopped only while a socket is open, or its end on the way, also
\* when sockets and timers of earlier listeners are still about.
ConnectedIsOpen ==
    link.status = "connected" => \E s \in 1..MaxSockets : sockets[s] \in {"open", "closing"}

\* The store never waits for nothing: while it says it reconnects, a timer or a
\* socket is going to tell.
ReconnectingIsTrying ==
    link.status = "reconnecting" => link.timers # {} \/ Live # {}

\* While the server stays down and the listeners stay, the store gives up.
GivesUp ==
    (<>[](~serverUp) /\ <>[][UNCHANGED link.refs]_link)
        => <>[](link.status = "disconnected")
=============================================================================
