----------------------------- MODULE MCPayments -----------------------------
(* Instances of Payments for TLC. *)
EXTENDS Payments, TLC

\* Threads, keys, references and event ids are interchangeable.  (Latest chooses
\* among attempts of different ranks: what it chooses does not depend on names.)
Symmetry == Permutations(Workers) \cup Permutations(Keys)
              \cup Permutations(Refs) \cup Permutations(EventIds)

\* What the provider was answered is observed by no guard of Spec.
View == <<order, intent, attempt, event, payments, credited, charged, sent,
          orderLock, eventLock, pc, call, local>>
=============================================================================
