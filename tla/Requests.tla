------------------------------- MODULE Requests -------------------------------
(***************************************************************************)
(* The requests of a page, as useMutation and useQuery of                  *)
(* @tanstack/react-query handle them for every component of the front end. *)
(* A request is sent, served or refused, and answered by its callbacks:    *)
(* three steps apart, in any order among requests.  isPending is about the *)
(* requests this mount of the component has sent: one that is in flight    *)
(* when the component goes away goes on unobserved.                        *)
(* Lists of frames are answered in one order.                              *)
(***************************************************************************)
EXTENDS Integers, FiniteSets, Sequences

CONSTANT MaxRequests  \* requests a session of the page sends
ASSUME RequestsAssumption == MaxRequests \in Nat \ {0}

VARIABLES
    reqs,  \* in flight: [n, op, id, val, state, here]
    sent,  \* how many were sent
    left   \* the page was left with a request in flight
reqVars == <<reqs, sent, left>>

\* The rows of S, numbered as they came to be: the newest first.
NewestFirst(S) ==
    CHOOSE s \in [1..Cardinality(S) -> S] : \A i, j \in DOMAIN s : i < j => s[i] > s[j]

RequestsInit == reqs = {} /\ sent = 0 /\ left = FALSE

\* mutate(): op names the mutation, id the object it is about, val the rest.
Send(op, id, val) ==
    /\ sent < MaxRequests
    /\ sent' = sent + 1
    /\ reqs' = reqs \cup {[n |-> sent', op |-> op, id |-> id, val |-> val,
                           state |-> "sent", here |-> TRUE]}
    /\ UNCHANGED left

isPending(op) == \E q \in reqs : q.op = op /\ q.here

\* The answer, ok or failed, is on its way to the page; a creation's has an id.
RespondWith(q, state, id) ==
    /\ q.state = "sent"
    /\ reqs' = (reqs \ {q}) \cup {[q EXCEPT !.state = state, !.id = id]}
    /\ UNCHANGED <<sent, left>>
Respond(q, state) == RespondWith(q, state, q.id)

\* The answer is there: its callbacks run.
Settle(q) ==
    /\ q.state # "sent"
    /\ reqs' = reqs \ {q}
    /\ UNCHANGED <<sent, left>>

\* The component is unmounted.
Unmount ==
    /\ reqs' = {[q EXCEPT !.here = FALSE] : q \in reqs}
    /\ left' = (left \/ reqs # {})
    /\ UNCHANGED sent
=============================================================================
