----------------------------- MODULE SingleFlight -----------------------------
(***************************************************************************)
(* What a client with several tabs promises around the renewal of its      *)
(* session, without flags, queues, cookies or tokens: in each tab one      *)
(* request at a time leads a renewal, others join it, and when it lands    *)
(* they all leave together, sent again or rejected.  No request leads      *)
(* twice, and one that has led never waits for another.                    *)
(***************************************************************************)
CONSTANTS Tab, Request

VARIABLES
    leading,   \* leading[t]: the request that leads the renewal of tab t, if any
    parked,    \* parked[t]: the requests that wait for it
    led,       \* requests that have led a renewal
    rejected   \* requests that were given up

vars == <<leading, parked, led, rejected>>

Init ==
    /\ leading = [t \in Tab |-> {}]
    /\ parked = [t \in Tab |-> {}]
    /\ led = {}
    /\ rejected = {}

(* Not held by a renewal, and not given up.                                  *)
AtLarge(r) == r \notin rejected /\ \A t \in Tab : r \notin leading[t] \cup parked[t]

TakeOff(t, r) ==
    /\ leading[t] = {}
    /\ AtLarge(r) /\ r \notin led
    /\ leading' = [leading EXCEPT ![t] = {r}]
    /\ led' = led \cup {r}
    /\ UNCHANGED <<parked, rejected>>

Join(t, r) ==
    /\ leading[t] # {}
    /\ AtLarge(r) /\ r \notin led
    /\ parked' = [parked EXCEPT ![t] = @ \cup {r}]
    /\ UNCHANGED <<leading, led, rejected>>

(* Everybody leaves, with one outcome for all.                               *)
Land(t) ==
    /\ leading[t] # {}
    /\ leading' = [leading EXCEPT ![t] = {}]
    /\ parked' = [parked EXCEPT ![t] = {}]
    /\ rejected' \in {rejected, rejected \cup leading[t] \cup parked[t]}
    /\ UNCHANGED led

Reject(r) ==
    /\ AtLarge(r)
    /\ rejected' = rejected \cup {r}
    /\ UNCHANGED <<leading, parked, led>>

Next ==
    \/ \E t \in Tab, r \in Request : TakeOff(t, r) \/ Join(t, r)
    \/ \E t \in Tab : Land(t)
    \/ \E r \in Request : Reject(r)

Spec == Init /\ [][Next]_vars

=============================================================================
