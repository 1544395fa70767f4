---------------------------- MODULE WalletAdjust ----------------------------
(***************************************************************************)
(* WalletService with what can leave balance out of step with the buckets, *)
(* and the repair in get_or_create_wallet that answers it.  credit and     *)
(* debit take no row lock: they compute on the Wallet instance their       *)
(* caller fetched earlier and write its fields.  Migration 0002 added the  *)
(* buckets with default 0 and left the old balance where it was.           *)
(***************************************************************************)
EXTENDS WalletService

CONSTANTS MaxAdjustments,   \* bounds the number of adjustments of a behaviour
          LegacyBalances    \* what the wallet held before migration 0002

ASSUME MaxAdjustmentsAssumption == MaxAdjustments \in Nat
ASSUME LegacyBalancesAssumption == LegacyBalances \subseteq Nat

VARIABLES
  instance,     \* per worker: no Wallet instance, one to repair, or one it uses
  adjustments   \* adjustments made so far

adjustVars == <<instance, adjustments>>

NoInstance == [stage |-> "none", wallet |-> EmptyRow]

\* The old transactions got the defaults: adjustments of the available bucket.
Legacy(balance) ==
  /\ row = [EmptyRow EXCEPT !.balance = balance]
  /\ posted = [e \in Events |-> [b \in Buckets |->
       IF e = "adjustment" /\ b = "available" THEN balance ELSE 0]]

AdjustInit ==
  /\ \E balance \in LegacyBalances : Legacy(balance)
  /\ NothingDone
  /\ instance = [w \in Workers |-> NoInstance]
  /\ adjustments = 0

\* get_or_create_wallet called outside a transaction, by a view or a script.
Fetch(w) ==
  /\ pc[w] = "idle" /\ instance[w] = NoInstance
  /\ instance' = [instance EXCEPT ![w] =
       [stage |-> IF row = Synced(row) THEN "ready" ELSE "repair", wallet |-> row]]
  /\ UNCHANGED <<vars, adjustments>>

\* wallet.save(update_fields=["balance"]) in autocommit: an UPDATE of the row as it
\* is now with the total of the copy read before.
SaveBalance(w) ==
  LET wallet == Synced(instance[w].wallet) IN
  /\ instance[w].stage = "repair"
  /\ walletLock = NoWorker
  /\ instance' = [instance EXCEPT ![w] = [stage |-> "ready", wallet |-> wallet]]
  /\ row' = [row EXCEPT !.balance = wallet.balance]
  /\ UNCHANGED <<recorded, posted, withdrawal, walletLock, requestLock, pc, call, local, adjustments>>

\* Fault: wallet.save() writes every field of the instance back.
AdjustWholeRow(w, x) ==
  LET wallet == Synced([instance[w].wallet EXCEPT !.available = @ + x]) IN
  /\ instance[w].stage = "ready"
  /\ walletLock = NoWorker
  /\ adjustments < MaxAdjustments
  /\ adjustments' = adjustments + 1
  /\ posted' = [posted EXCEPT !["adjustment"]["available"] = @ + x]
  /\ row' = wallet
  /\ instance' = [instance EXCEPT ![w].wallet = wallet]
  /\ UNCHANGED <<recorded, withdrawal, walletLock, requestLock, pc, call, local>>

\* The common end of credit and debit: x is what the transaction adds.
Adjust(w, x) ==
  LET wallet == Synced([instance[w].wallet EXCEPT !.available = @ + x]) IN
  /\ instance[w].stage = "ready"
  /\ walletLock = NoWorker
  /\ adjustments < MaxAdjustments
  /\ adjustments' = adjustments + 1
  /\ posted' = [posted EXCEPT !["adjustment"]["available"] = @ + x]
  /\ row' = [row EXCEPT !.available = wallet.available, !.balance = wallet.balance]
  /\ instance' = [instance EXCEPT ![w].wallet = wallet]
  /\ UNCHANGED <<recorded, withdrawal, walletLock, requestLock, pc, call, local>>

Credit(w, x) == x > 0 /\ Adjust(w, x)

\* Fault: the balance is not checked.
DebitUnchecked(w, x) == Adjust(w, -x)

Debit(w, x) == x <= instance[w].wallet.available /\ Adjust(w, -x)

Forget(w) ==
  /\ instance[w].stage = "ready"
  /\ instance' = [instance EXCEPT ![w] = NoInstance]
  /\ UNCHANGED <<vars, adjustments>>

\* In a transaction, get_or_create_wallet finds balance out of step ...
FindOutOfStep(w) ==
  /\ pc[w] = "get_wallet"
  /\ row # Synced(row)
  /\ local' = [local EXCEPT ![w] = row]
  /\ pc' = [pc EXCEPT ![w] = "repair"]
  /\ UNCHANGED <<tables, locks, call, adjustVars>>

\* ... and writes the total of the copy it read.  The UPDATE takes the row lock; the
\* row is then read again, own write included.
RepairBalance(w) ==
  /\ pc[w] = "repair"
  /\ walletLock = NoWorker
  /\ walletLock' = w
  /\ local' = [local EXCEPT ![w] = [row EXCEPT !.balance = Synced(local[w]).balance]]
  /\ pc' = [pc EXCEPT ![w] = "locked"]
  /\ UNCHANGED <<tables, requestLock, call, adjustVars>>

\* A worker runs one thing at a time.
Serve(w) ==
  /\ instance[w] = NoInstance
  /\ Calls(w) \/ GetWallet(w) \/ Lock(w) \/ Perform(w) \/ Crash(w)
  /\ UNCHANGED adjustVars

AdjustNext == \E w \in Workers :
  \/ Serve(w) \/ FindOutOfStep(w) \/ RepairBalance(w)
  \/ Fetch(w) \/ SaveBalance(w) \/ Forget(w)
  \/ \E x \in Amounts : Credit(w, x) \/ Debit(w, x)

AdjustSpec == AdjustInit /\ [][AdjustNext]_<<vars, adjustVars>>

\* A running transaction goes on, with a repair or without, and the database serves the
\* waiters of a row in turn, an UPDATE among them: a row that keeps becoming free is
\* eventually obtained.
AdjustFairness == \A w \in Workers :
  /\ WF_<<vars, adjustVars>>((GetWallet(w) /\ UNCHANGED adjustVars) \/ FindOutOfStep(w))
  /\ WF_<<vars, adjustVars>>(Perform(w) /\ UNCHANGED adjustVars)
  /\ SF_<<vars, adjustVars>>((Lock(w) /\ UNCHANGED adjustVars) \/ RepairBalance(w))

AdjustFairSpec == AdjustSpec /\ AdjustFairness

-----------------------------------------------------------------------------
\* Neither bucket is ever overdrawn, not even by a debit that judged a stale copy
\* of the balance: the value that is written is the one that was judged.
NoOverdraft == row.available >= 0 /\ row.pending >= 0

\* The adjustments and repairs that lose updates of available and of balance lose none
\* of pending: it equals the sum of the transactions that moved it, however many stale
\* copies are written back, because save(update_fields=...) leaves the bucket alone.
PendingIsExact == row.pending = Computed("pending")
=============================================================================
