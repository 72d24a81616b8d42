------------------------------ MODULE Delivery ------------------------------
(***************************************************************************)
(* What the applier promises, with no engine, offset, group or crash in    *)
(* it: the destination holds the events of a prefix of whole source        *)
(* transactions, the prefix only grows, and it eventually catches up.      *)
(***************************************************************************)
EXTENDS Integers

CONSTANTS
  N,              \* length of the log
  Events,         \* the positions that carry a row event or a message
  Boundary(_)     \* positions between two whole transactions

VARIABLES head, delivered

EventsUpTo(b) == {l \in Events : l <= b}

Init == head = 0 /\ delivered = {}

\* The source commits transactions.
Write ==
  /\ \E b \in head+1..N : Boundary(b) /\ head' = b
  /\ UNCHANGED delivered

\* A destination transaction makes further whole transactions visible.
Deliver ==
  /\ \E b \in 0..head : Boundary(b) /\ delivered' = EventsUpTo(b)
  /\ delivered \subseteq delivered'
  /\ delivered # delivered'
  /\ UNCHANGED head

Next == Write \/ Deliver

SafeSpec == Init /\ [][Next]_<<head, delivered>>

Spec == SafeSpec /\ WF_<<head, delivered>>(Deliver)

=============================================================================
