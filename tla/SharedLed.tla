----------------------------- MODULE SharedLed -----------------------------
(***************************************************************************)
(* What the lights HAL promises about an LED that several requesters share *)
(* (liblight/lights.c, its three speaker lights): a request is taken up    *)
(* at once, one at a time, and soon the LED shows the request in charge,   *)
(* except for the files whose writes failed.                               *)
(***************************************************************************)
EXTENDS Integers

CONSTANTS
    Requesters,    \* who may ask for the LED
    Rank,          \* their priority, the lowest number first
    States, Off,   \* what they ask for, and what they start with
    Files,         \* the files that drive the LED
    Unknown,       \* stands for a value the HAL does not answer for
    Lit(_),        \* a request that asks for light
    Shows(_, _)    \* the value of a file when the LED shows a request

VARIABLES
    request,       \* what each requester asked for last
    painting,      \* the LED is being changed
    led            \* what each file holds

vars == <<request, painting, led>>

\* The first requester that wants light, or the last one.
InCharge(r) ==
    /\ Lit(request[r]) \/ \A q \in Requesters : Rank[q] <= Rank[r]
    /\ \A q \in Requesters : Rank[q] < Rank[r] => ~Lit(request[q])

Init ==
    /\ request = [r \in Requesters |-> Off]
    /\ painting = FALSE
    /\ led = [f \in Files |-> Unknown]

Request(r, s) ==
    /\ ~painting
    /\ request' = [request EXCEPT ![r] = s]
    /\ painting' = TRUE
    /\ led' = [f \in Files |-> Unknown]

\* The writes to the files in failed failed.
Painted ==
    /\ painting
    /\ painting' = FALSE
    /\ \E r \in Requesters, failed \in SUBSET Files :
        /\ InCharge(r)
        /\ led' = [f \in Files |-> IF f \in failed THEN Unknown
                                                   ELSE Shows(request[r], f)]
    /\ UNCHANGED request

Next == Painted \/ \E r \in Requesters, s \in States : Request(r, s)

\* Painting ends: weak fairness of Painted, the only step while painting.
Fairness == painting ~> ~painting

Spec == Init /\ [][Next]_vars /\ Fairness
=============================================================================
