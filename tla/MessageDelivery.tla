--------------------------- MODULE MessageDelivery ---------------------------
(***************************************************************************)
(* What a queue with a retry policy promises for the messages given to it: *)
(* each is handled at least once or set aside, a well-formed one is set    *)
(* aside only after all its tries failed, and none is forgotten.           *)
(***************************************************************************)
EXTENDS Naturals

CONSTANTS
  Messages,   \* the messages
  Malformed,  \* those no handler can be given
  Tries       \* how often each message is tried before it is set aside

VARIABLES
  accepted,  \* the messages the queue has taken charge of
  tried,     \* how often each message was given to its handler
  handled,   \* the messages a handler was done with
  aside      \* the messages set aside

vars == <<accepted, tried, handled, aside>>

Init ==
  /\ accepted = {}
  /\ tried = [m \in Messages |-> 0]
  /\ handled = {}
  /\ aside = {}

Accept(m) ==
  /\ m \notin accepted
  /\ accepted' = accepted \cup {m}
  /\ UNCHANGED <<tried, handled, aside>>

\* At least once: a message may be tried again after it was handled.
Try(m) ==
  /\ m \in accepted \ Malformed
  /\ tried' = [tried EXCEPT ![m] = @ + 1]
  /\ handled' \in {handled, handled \cup {m}}
  /\ UNCHANGED <<accepted, aside>>

SetAside(m) ==
  /\ m \in accepted
  /\ m \in Malformed \/ tried[m] >= Tries[m]
  /\ aside' = aside \cup {m}
  /\ UNCHANGED <<accepted, tried, handled>>

Next == \E m \in Messages : Accept(m) \/ Try(m) \/ SetAside(m)

\* Nothing accepted is forgotten.
Settled(m) == m \in accepted ~> m \in handled \cup aside

Spec == Init /\ [][Next]_vars

FairSpec == Spec /\ \A m \in Messages : Settled(m)
=============================================================================
