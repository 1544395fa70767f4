--------------------------- MODULE PaymentsProofs ---------------------------
(***************************************************************************)
(* Theorems about Payments, for every set of threads, keys, gateways,      *)
(* references and events: its types, that a payment counts once, that a    *)
(* confirmed attempt has a payment behind it, that flagged attempts are    *)
(* held, that an event is applied once, that only events that say so take  *)
(* an intent back to pending, and that PaymentContract is implemented.     *)
(***************************************************************************)
EXTENDS Payments, FiniteSetTheorems, TLAPS

-----------------------------------------------------------------------------
(* The inductive invariant *)

\* A webhook that found its intent still has the intent of its event's charge.
KnowsIntent(w) ==
  /\ pc[w] \in {"lock_event", "lock_order"} => call[w].op = "webhook"
  /\ call[w].op = "webhook" /\ pc[w] # "idle" =>
       /\ sent[call[w].event] \in Message
       /\ pc[w] # "lock_event" => local[w].key # NoKey
       /\ local[w].key # NoKey => intent[local[w].key].ref = sent[call[w].event].ref

\* From the moment it has locked its event, the event is nobody else's.
HoldsEvent(w) ==
  pc[w] \in {"lock_order", "locked"} /\ call[w].op = "webhook" =>
    eventLock[call[w].event] = w /\ event[call[w].event] = "none"

\* Under the order's lock, what was read is what is stored.
HoldsOrder(w) ==
  pc[w] \in {"locked", "charged"} =>
    /\ orderLock = w
    /\ local[w].order = order /\ local[w].credited = credited
    /\ call[w].op = "webhook" =>
         local[w].recorded = (payments[sent[call[w].event].ref] > 0)

\* A charge in progress is the first use of its key; what is approved exists.
KeyIsNew(w) ==
  pc[w] = "charged" =>
    call[w].op = "initiate" /\ call[w].ref \in Refs /\ attempt[call[w].key].status = "none"
KeyIsKnown(w) ==
  pc[w] = "approve" => call[w].op = "approve" /\ attempt[call[w].key].status # "none"

\* Between requests a thread remembers nothing.
IdleIsClear(w) == pc[w] = "idle" => local[w] = Nothing

WorkerInv(w) ==
  IdleIsClear(w) /\ KnowsIntent(w) /\ HoldsEvent(w) /\ HoldsOrder(w) /\ KeyIsNew(w) /\ KeyIsKnown(w)

\* An intent and its attempt are made together, the intent never without it.
IntentsHaveAttempts ==
  \A k \in Keys : attempt[k].status = "none" => intent[k] = [status |-> "none", ref |-> NoRef]

\* Only flagged attempts are held, and a flag, which nothing takes away, is never confirmed.
FlagsOK ==
  \A k \in Keys : /\ attempt[k].status = "flagged" => attempt[k].flagged
                  /\ attempt[k].flagged => attempt[k].status # "confirmed"

TablesInv == SuccessCountsOnce /\ ConfirmedIsBacked /\ FlagsOK /\ IntentsHaveAttempts

IInv == TypeOK /\ TablesInv /\ \A w \in Workers : WorkerInv(w)

-----------------------------------------------------------------------------
(* Calls, and the threads a step does not run *)

LEMMA CallFields ==
  ASSUME TypeOK, NEW w \in Workers
  PROVE  /\ call[w].op = "webhook" => call[w].event \in EventIds
         /\ call[w].op = "initiate" =>
              /\ call[w].key \in Keys /\ call[w].gateway \in Gateways
              /\ call[w].ref \in Refs \cup {NoRef}
              /\ call[w] = [op |-> "initiate", key |-> call[w].key,
                            gateway |-> call[w].gateway, ref |-> call[w].ref]
         /\ call[w].op = "approve" => call[w].key \in Keys
<1>1. call[w] \in Calls \cup {NoCall}
  BY DEF TypeOK
<1>2. CASE call[w] = NoCall
  BY <1>2 DEF NoCall
<1>3. CASE call[w] \in [op: {"webhook"}, event: EventIds]
  BY <1>3
<1>4. CASE call[w] \in [op: {"initiate"}, key: Keys, gateway: Gateways, ref: Refs \cup {NoRef}]
  BY <1>4
<1>5. CASE call[w] \in [op: {"approve"}, key: Keys]
  BY <1>5
<1>6. CASE call[w] \in [op: {"lifecycle"}]
  BY <1>6
<1> QED BY <1>1, <1>2, <1>3, <1>4, <1>5, <1>6 DEF Calls

\* A thread keeps its invariant while others respect its locks, its keys stay
\* used, intents keep their references and what was sent stays sent.
LEMMA OthersKeep ==
  ASSUME IInv, NEW v \in Workers,
         pc'[v] = pc[v], call'[v] = call[v], local'[v] = local[v],
         orderLock = v =>
           /\ orderLock' = v /\ UNCHANGED <<order, credited, payments>>
           /\ \A k \in Keys : attempt[k].status = "none" => attempt'[k].status = "none",
         \A e \in EventIds : eventLock[e] = v => eventLock'[e] = v /\ event'[e] = event[e],
         \A k \in Keys : attempt[k].status # "none" => attempt'[k].status # "none",
         \A k \in Keys : intent[k].ref \in Refs => intent'[k].ref = intent[k].ref,
         \A e \in EventIds : sent[e] \in Message => sent'[e] = sent[e]
  PROVE  WorkerInv(v)'
<1>1. TypeOK /\ WorkerInv(v)
  BY DEF IInv
<1>2. /\ call[v].op = "webhook" => call[v].event \in EventIds
      /\ call[v].op = "initiate" => call[v].key \in Keys
      /\ call[v].op = "approve" => call[v].key \in Keys
      /\ local[v].key \in Keys \cup {NoKey}
  BY <1>1, CallFields DEF TypeOK, Copy
<1>3. KnowsIntent(v)'
  <2>1. (pc[v] \in {"lock_event", "lock_order"} => call[v].op = "webhook")'
    BY <1>1 DEF WorkerInv, KnowsIntent
  <2> SUFFICES ASSUME call[v].op = "webhook", pc[v] # "idle"
               PROVE  /\ sent'[call[v].event] \in Message
                      /\ pc[v] # "lock_event" => local[v].key # NoKey
                      /\ local[v].key # NoKey =>
                           intent'[local[v].key].ref = sent'[call[v].event].ref
    BY <2>1 DEF KnowsIntent, Message
  <2>2. /\ sent[call[v].event] \in Message
        /\ pc[v] # "lock_event" => local[v].key # NoKey
        /\ local[v].key # NoKey => intent[local[v].key].ref = sent[call[v].event].ref
    BY <1>1 DEF WorkerInv, KnowsIntent
  <2>3. sent'[call[v].event] = sent[call[v].event] /\ sent[call[v].event].ref \in Refs
    BY <1>2, <2>2 DEF Message
  <2> QED BY <1>2, <2>2, <2>3
<1>4. HoldsEvent(v)'
  BY <1>1, <1>2 DEF WorkerInv, HoldsEvent
<1>5. HoldsOrder(v)'
  <2> SUFFICES ASSUME pc[v] \in {"locked", "charged"}
               PROVE  /\ orderLock' = v
                      /\ local[v].order = order' /\ local[v].credited = credited'
                      /\ call[v].op = "webhook" =>
                           local[v].recorded = (payments'[sent'[call[v].event].ref] > 0)
    BY DEF HoldsOrder
  <2>1. call[v].op = "webhook" => sent'[call[v].event] = sent[call[v].event]
    BY <1>1, <1>2 DEF WorkerInv, KnowsIntent
  <2> QED BY <1>1, <2>1 DEF WorkerInv, HoldsOrder
<1>6. KeyIsNew(v)' /\ KeyIsKnown(v)'
  BY <1>1, <1>2 DEF WorkerInv, KeyIsNew, KeyIsKnown, HoldsOrder
<1>7. IdleIsClear(v)'
  BY <1>1 DEF WorkerInv, IdleIsClear
<1> QED BY <1>3, <1>4, <1>5, <1>6, <1>7 DEF WorkerInv

LEMMA ReturnTypes ==
  ASSUME TypeOK, NEW w \in Workers, Return(w)
  PROVE  /\ orderLock' \in Workers \cup {NoWorker}
         /\ eventLock' \in [EventIds -> Workers \cup {NoWorker}]
         /\ pc' \in [Workers -> Pcs]
         /\ call' \in [Workers -> Calls \cup {NoCall}]
         /\ local' \in [Workers -> Copy]
<1>1. Nothing \in Copy
  BY DEF Nothing, Copy, NewOrder, Order, IntentStatuses
<1>2. "idle" \in Pcs
  BY DEF Pcs
<1> QED BY <1>1, <1>2 DEF TypeOK, Return

\* The end of a transaction: it wrote what its locks let it write, and new rows.
LEMMA ReturnKeeps ==
  ASSUME IInv, NEW w \in Workers, Return(w),
         \/ orderLock \in {w, NoWorker}
         \/ /\ UNCHANGED <<order, credited, payments>>
            /\ \A k \in Keys : attempt[k].status = "none" => attempt'[k].status = "none",
         \A e \in EventIds : event'[e] = event[e] \/ eventLock[e] = w,
         \A k \in Keys : attempt[k].status # "none" => attempt'[k].status # "none",
         \A k \in Keys : intent[k].ref \in Refs => intent'[k].ref = intent[k].ref,
         sent' = sent
  PROVE  \A v \in Workers : WorkerInv(v)'
<1> SUFFICES ASSUME NEW v \in Workers PROVE WorkerInv(v)'
  OBVIOUS
<1>1. TypeOK
  BY DEF IInv
<1>2. CASE v = w
  <2>1. pc'[v] = "idle" /\ local'[v] = Nothing
    BY <1>1, <1>2 DEF Return, TypeOK
  <2> QED BY <2>1 DEF WorkerInv, KnowsIntent, HoldsEvent, HoldsOrder, KeyIsNew, KeyIsKnown,
                     IdleIsClear
<1>3. CASE v # w
  <2>1. pc'[v] = pc[v] /\ call'[v] = call[v] /\ local'[v] = local[v]
    BY <1>1, <1>3 DEF Return, TypeOK
  <2>2. orderLock = v => orderLock' = v
    BY <1>3 DEF Return
  <2>3. \A e \in EventIds : eventLock[e] = v => eventLock'[e] = v /\ event'[e] = event[e]
    BY <1>3 DEF Return
  <2>4. orderLock = v => orderLock \notin {w, NoWorker}
    BY <1>3, NoneAssumption
  <2> QED BY <2>1, <2>2, <2>3, <2>4, OthersKeep
<1> QED BY <1>2, <1>3

LEMMA TablesUnchanged ==
  ASSUME IInv, UNCHANGED <<order, intent, attempt, payments, credited>>
  PROVE  TablesInv'
BY DEF IInv, TablesInv, SuccessCountsOnce, ConfirmedIsBacked, FlagsOK,
       IntentsHaveAttempts

\* Early answers, refusals and rollbacks, and answers that only the provider sees.
LEMMA LeaveStep ==
  ASSUME IInv, NEW w \in Workers, Return(w), UNCHANGED <<tables, charged, sent>>,
         acked' \in SUBSET EventIds
  PROVE  IInv'
<1>1. TypeOK'
  BY ReturnTypes DEF IInv, TypeOK, tables
<1>2. TablesInv'
  BY TablesUnchanged DEF tables
<1>3. \A v \in Workers : WorkerInv(v)'
  BY ReturnKeeps DEF tables
<1> QED BY <1>1, <1>2, <1>3 DEF IInv

LEMMA AnswerStep ==
  ASSUME IInv, NEW w \in Workers, IntentNotFound(w) \/ AlreadyHandled(w) \/ NoEffect(w)
  PROVE  IInv'
<1>1. TypeOK /\ WorkerInv(w)
  BY DEF IInv
<1>2. CASE IntentNotFound(w) \/ AlreadyHandled(w)
  <2>1. call[w].event \in EventIds
    BY <1>1, <1>2, CallFields DEF WorkerInv, KnowsIntent, IntentNotFound, AlreadyHandled
  <2>2. acked' \in SUBSET EventIds
    BY <1>1, <1>2, <2>1 DEF TypeOK, IntentNotFound, AlreadyHandled, Acknowledge
  <2> QED BY <1>2, <2>2, LeaveStep DEF IntentNotFound, AlreadyHandled, Acknowledge
<1>3. CASE NoEffect(w)
  BY <1>1, <1>3, LeaveStep DEF NoEffect, provider, TypeOK
<1> QED BY <1>2, <1>3

-----------------------------------------------------------------------------
(* Requests that begin *)

\* A thread that takes a step without writing a table disturbs no other.
LEMMA StepKeepsOthers ==
  ASSUME IInv, NEW w \in Workers, NEW v \in Workers, v # w,
         NEW at, pc' = [pc EXCEPT ![w] = at],
         call'[v] = call[v], local'[v] = local[v],
         orderLock' = orderLock \/ (orderLock = NoWorker /\ orderLock' = w),
         \A e \in EventIds :
           eventLock'[e] = eventLock[e] \/ (eventLock[e] = NoWorker /\ eventLock'[e] = w),
         UNCHANGED tables, UNCHANGED sent
  PROVE  WorkerInv(v)'
<1>1. pc'[v] = pc[v]
  BY DEF IInv, TypeOK
<1>2. v # NoWorker
  BY NoneAssumption
<1> QED BY <1>1, <1>2, OthersKeep DEF tables

LEMMA BeginStep ==
  ASSUME IInv, NEW w \in Workers, NEW c \in Calls, NEW at \in Pcs, Begin(w, c, at),
         local' \in [Workers -> Copy],
         \A v \in Workers : v # w => local'[v] = local[v],
         WorkerInv(w)'
  PROVE  IInv'
<1>1. TypeOK'
  BY DEF IInv, TypeOK, Begin, Step, tables, provider
<1>2. TablesInv'
  BY TablesUnchanged DEF Begin, Step, tables
<1>3. \A v \in Workers : v # w => WorkerInv(v)'
  <2> SUFFICES ASSUME NEW v \in Workers, v # w PROVE WorkerInv(v)'
    OBVIOUS
  <2>1. call'[v] = call[v] /\ local'[v] = local[v]
    BY DEF Begin, IInv, TypeOK
  <2> QED BY <2>1, StepKeepsOthers DEF Begin, Step, provider
<1> QED BY <1>1, <1>2, <1>3 DEF IInv

LEMMA InitiateStep ==
  ASSUME IInv, NEW w \in Workers, NEW k \in Keys, NEW g \in Gateways, Initiate(w, k, g)
  PROVE  IInv'
<1> DEFINE c == [op |-> "initiate", key |-> k, gateway |-> g, ref |-> NoRef]
<1>1. TypeOK /\ WorkerInv(w) /\ c \in Calls /\ "locked" \in Pcs
  BY DEF IInv, Calls, Pcs
<1>2. local' = [local EXCEPT ![w] = [local[w] EXCEPT !.order = order, !.credited = credited]]
  BY <1>1 DEF Initiate, TypeOK, Copy
<1>3. local[w] \in Copy
  BY <1>1 DEF TypeOK
<1>4. local' \in [Workers -> Copy]
  BY <1>1, <1>2, <1>3 DEF TypeOK, Copy
<1>5. TypeOK'
  BY <1>1, <1>4 DEF TypeOK, Initiate, Step, tables, provider
<1>6. TablesInv'
  BY TablesUnchanged DEF Initiate, Step, tables
<1>7. WorkerInv(w)'
  <2>1. /\ pc'[w] = "locked" /\ call'[w] = c /\ orderLock' = w
        /\ order' = order /\ credited' = credited
    BY <1>1 DEF Initiate, Step, TypeOK, tables
  <2>2. local'[w].order = order /\ local'[w].credited = credited
    BY <1>1, <1>2, <1>3 DEF TypeOK, Copy
  <2> QED BY <2>1, <2>2 DEF WorkerInv, KnowsIntent, HoldsEvent, HoldsOrder, KeyIsNew,
             KeyIsKnown, IdleIsClear
<1>8. \A v \in Workers : v # w => WorkerInv(v)'
  <2> SUFFICES ASSUME NEW v \in Workers, v # w PROVE WorkerInv(v)'
    OBVIOUS
  <2>1. call'[v] = call[v] /\ local'[v] = local[v]
    BY <1>2 DEF Initiate, IInv, TypeOK
  <2> QED BY <2>1, StepKeepsOthers DEF Initiate, Step, provider
<1> QED BY <1>5, <1>6, <1>7, <1>8 DEF IInv

LEMMA LifecycleStep ==
  ASSUME IInv, NEW w \in Workers, StartLifecycle(w)
  PROVE  IInv'
<1> DEFINE c == [op |-> "lifecycle"]
<1>1. c \in Calls /\ "lifecycle" \in Pcs
  BY DEF Calls, Pcs
<1>2. pc'[w] = "lifecycle" /\ call'[w] = c
  BY DEF StartLifecycle, Begin, Step, IInv, TypeOK
<1>3. WorkerInv(w)'
  BY <1>2 DEF WorkerInv, KnowsIntent, HoldsEvent, HoldsOrder, KeyIsNew, KeyIsKnown,
                     IdleIsClear
<1>4. local' \in [Workers -> Copy] /\ local' = local
  BY DEF StartLifecycle, IInv, TypeOK
<1>5. Begin(w, c, "lifecycle")
  BY DEF StartLifecycle
<1> QED BY <1>1, <1>3, <1>4, <1>5, BeginStep

LEMMA ApproveStep ==
  ASSUME IInv, NEW w \in Workers, NEW k \in Keys, StartApprove(w, k)
  PROVE  IInv'
<1> DEFINE c == [op |-> "approve", key |-> k]
<1>1. c \in Calls /\ "approve" \in Pcs
  BY DEF Calls, Pcs
<1>2. /\ pc'[w] = "approve" /\ call'[w] = c
      /\ attempt[k].status = "flagged" /\ attempt' = attempt
  BY DEF StartApprove, Begin, Step, IInv, TypeOK, tables
<1>3. WorkerInv(w)'
  BY <1>2 DEF WorkerInv, KnowsIntent, HoldsEvent, HoldsOrder, KeyIsNew, KeyIsKnown,
                     IdleIsClear
<1>4. local' \in [Workers -> Copy] /\ local' = local
  BY DEF StartApprove, IInv, TypeOK
<1>5. Begin(w, c, "approve")
  BY DEF StartApprove
<1> QED BY <1>1, <1>3, <1>4, <1>5, BeginStep

LEMMA DeliverStep ==
  ASSUME IInv, NEW w \in Workers, NEW e \in EventIds, Deliver(w, e)
  PROVE  IInv'
<1> DEFINE c == [op |-> "webhook", event |-> e]
<1>1. c \in Calls /\ "lock_event" \in Pcs
  BY DEF Calls, Pcs
<1>2. /\ pc'[w] = "lock_event" /\ call'[w] = c
      /\ sent' = sent /\ intent' = intent /\ sent[e] \in Message
  BY DEF Deliver, Begin, Step, IInv, TypeOK, tables, provider
<1>3. CASE \E k \in Keys : /\ intent[k].ref = sent[e].ref
                           /\ local' = [local EXCEPT ![w].key = k, ![w].status = intent[k].status]
  <2>1. PICK k \in Keys : /\ intent[k].ref = sent[e].ref
                          /\ local' = [local EXCEPT ![w].key = k, ![w].status = intent[k].status]
    BY <1>3
  <2>2. local[w] \in Copy /\ intent[k].status \in IntentStatuses
    BY DEF IInv, TypeOK
  <2>3. local' \in [Workers -> Copy] /\ \A v \in Workers : v # w => local'[v] = local[v]
    BY <2>1, <2>2 DEF IInv, TypeOK, Copy
  <2>4. local'[w].key = k
    BY <2>1 DEF IInv, TypeOK, Copy
  <2>5. WorkerInv(w)'
    BY <1>2, <2>1, <2>4 DEF WorkerInv, KnowsIntent, HoldsEvent, HoldsOrder, KeyIsNew,
                             KeyIsKnown, IdleIsClear, Message
  <2> QED BY <1>1, <2>3, <2>5, BeginStep DEF Deliver
<1>4. CASE UNCHANGED local /\ pc[w] = "idle" /\ {k \in Keys : intent[k].ref = sent[e].ref} = {}
  <2>1. local' \in [Workers -> Copy]
    BY <1>4 DEF IInv, TypeOK
  <2>2. local[w].key = NoKey
    BY <1>4 DEF IInv, WorkerInv, IdleIsClear, Nothing
  <2>3. WorkerInv(w)'
    BY <1>2, <1>4, <2>2 DEF WorkerInv, KnowsIntent, HoldsEvent, HoldsOrder, KeyIsNew,
                             KeyIsKnown, IdleIsClear, Message
  <2> QED BY <1>1, <1>4, <2>1, <2>3, BeginStep DEF Deliver
<1> QED BY <1>3, <1>4 DEF Deliver, Begin

-----------------------------------------------------------------------------
(* Locks and charges *)

LEMMA LockEventStep ==
  ASSUME IInv, NEW w \in Workers, LockEvent(w)
  PROVE  IInv'
<1>1. TypeOK /\ WorkerInv(w) /\ "lock_order" \in Pcs
  BY DEF IInv, Pcs
<1>2. call[w].op = "webhook" /\ call[w].event \in EventIds
  BY <1>1, CallFields DEF WorkerInv, KnowsIntent, LockEvent
<1>3. TypeOK'
  BY <1>1, <1>2 DEF TypeOK, LockEvent, tables, provider
<1>4. TablesInv'
  BY TablesUnchanged DEF LockEvent, tables
<1>5. WorkerInv(w)'
  <2>1. event[call[w].event] = "none"
    BY <1>1, <1>2 DEF LockEvent, TypeOK, EventStatuses, Final
  <2>2. pc'[w] = "lock_order" /\ eventLock'[call[w].event] = w
    BY <1>1, <1>2 DEF LockEvent, TypeOK
  <2> QED BY <1>1, <1>2, <2>1, <2>2 DEF LockEvent, WorkerInv, KnowsIntent, HoldsEvent,
             HoldsOrder, KeyIsNew, KeyIsKnown, IdleIsClear, tables, provider, Message
<1>6. \A v \in Workers : v # w => WorkerInv(v)'
  <2> SUFFICES ASSUME NEW v \in Workers, v # w PROVE WorkerInv(v)'
    OBVIOUS
  <2>1. \A e \in EventIds :
          eventLock'[e] = eventLock[e] \/ (eventLock[e] = NoWorker /\ eventLock'[e] = w)
    BY <1>1, <1>2 DEF LockEvent, TypeOK
  <2> QED BY <2>1, StepKeepsOthers DEF LockEvent, provider
<1> QED BY <1>3, <1>4, <1>5, <1>6 DEF IInv

LEMMA LockOrderStep ==
  ASSUME IInv, NEW w \in Workers, LockOrder(w)
  PROVE  IInv'
<1> DEFINE known == payments[sent[call[w].event].ref] > 0
<1>1. TypeOK /\ WorkerInv(w) /\ "locked" \in Pcs
  BY DEF IInv, Pcs
<1>2. local' = [local EXCEPT ![w] =
                 [local[w] EXCEPT !.order = order, !.credited = credited, !.recorded = known]]
  BY <1>1 DEF LockOrder, TypeOK, Copy
<1>3. local[w] \in Copy /\ known \in BOOLEAN
  <2>1. call[w].event \in EventIds /\ sent[call[w].event] \in Message
    BY <1>1, CallFields DEF WorkerInv, KnowsIntent, LockOrder
  <2>2. payments[sent[call[w].event].ref] \in Nat
    BY <1>1, <2>1 DEF TypeOK, Message
  <2>3. known \in BOOLEAN
    BY <2>2
  <2>4. local[w] \in Copy
    BY <1>1 DEF TypeOK
  <2> QED BY <2>3, <2>4
<1>4. local' \in [Workers -> Copy]
  BY <1>1, <1>2, <1>3 DEF TypeOK, Copy
<1>5. TypeOK'
  BY <1>1, <1>4 DEF TypeOK, LockOrder, Step, tables, provider
<1>6. TablesInv'
  BY TablesUnchanged DEF LockOrder, Step, tables
<1>7. WorkerInv(w)'
  <2>1. /\ pc'[w] = "locked" /\ orderLock' = w /\ local'[w].key = local[w].key
        /\ local'[w].order = order /\ local'[w].credited = credited
        /\ local'[w].recorded = known
    <3>1. local'[w] = [local[w] EXCEPT !.order = order, !.credited = credited, !.recorded = known]
      BY <1>1, <1>2 DEF TypeOK
    <3>2. local'[w] = [key |-> local[w].key, status |-> local[w].status, order |-> order,
                       recorded |-> known, credited |-> credited]
      BY <1>3, <3>1 DEF Copy
    <3>3. pc'[w] = "locked" /\ orderLock' = w
      BY <1>1 DEF LockOrder, Step, TypeOK
    <3> HIDE DEF known
    <3> QED BY <3>2, <3>3
  <2> QED BY <1>1, <2>1 DEF LockOrder, Step, WorkerInv, KnowsIntent, HoldsEvent,
             HoldsOrder, KeyIsNew, KeyIsKnown, IdleIsClear, tables, provider, Message
<1>8. \A v \in Workers : v # w => WorkerInv(v)'
  BY <1>2, StepKeepsOthers DEF LockOrder, Step, provider, IInv, TypeOK
<1> QED BY <1>5, <1>6, <1>7, <1>8 DEF IInv

LEMMA ChargeStep ==
  ASSUME IInv, NEW w \in Workers, Charge(w)
  PROVE  IInv'
<1>1. TypeOK /\ WorkerInv(w) /\ "charged" \in Pcs
  BY DEF IInv, Pcs
<1>2. PICK r \in Refs : charged' = charged \cup {r} /\ call' = [call EXCEPT ![w].ref = r]
  BY DEF Charge
<1> DEFINE c == [op |-> "initiate", key |-> call[w].key, gateway |-> call[w].gateway, ref |-> r]
<1>3. call[w].op = "initiate" /\ attempt[call[w].key].status = "none"
  BY <1>1 DEF Charge, Proceeds, Initiating, WorkerInv, KeyIsNew
<1>4. call' = [call EXCEPT ![w] = c] /\ c \in Calls
  <2>1. /\ call[w].key \in Keys /\ call[w].gateway \in Gateways
        /\ call[w] = [op |-> "initiate", key |-> call[w].key,
                      gateway |-> call[w].gateway, ref |-> call[w].ref]
    BY <1>1, <1>3, CallFields
  <2>2. [call[w] EXCEPT !.ref = r] = c
    BY <2>1
  <2>3. call' = [call EXCEPT ![w] = [call[w] EXCEPT !.ref = r]]
    BY <1>1, <1>2 DEF TypeOK
  <2>4. c \in Calls
    BY <2>1 DEF Calls
  <2> HIDE DEF c
  <2> QED BY <2>2, <2>3, <2>4
<1>5. TypeOK'
  BY <1>1, <1>2, <1>4 DEF TypeOK, Charge, tables, locks
<1>6. TablesInv'
  BY TablesUnchanged DEF Charge, tables
<1>7. WorkerInv(w)'
  <2>1. pc'[w] = "charged" /\ call'[w] = c
    BY <1>1, <1>4 DEF Charge, TypeOK
  <2> QED BY <1>1, <1>3, <2>1 DEF Charge, Proceeds, Initiating, locks, tables, WorkerInv,
             KnowsIntent, HoldsEvent, HoldsOrder, KeyIsNew, KeyIsKnown, IdleIsClear
<1>8. \A v \in Workers : v # w => WorkerInv(v)'
  BY <1>4, StepKeepsOthers DEF Charge, locks, IInv, TypeOK
<1> QED BY <1>5, <1>6, <1>7, <1>8 DEF IInv

-----------------------------------------------------------------------------
(* The provider, BNPL and rejections: steps of no thread *)

LEMMA SendStep ==
  ASSUME IInv, NEW e \in EventIds, NEW r \in Refs, NEW o \in Reported, Send(e, r, o)
  PROVE  IInv'
<1>1. TypeOK
  BY DEF IInv
<1>2. [ref |-> r, outcome |-> o] \in Message
  BY ReportedAssumption DEF Message
<1>3. TypeOK'
  BY <1>1, <1>2 DEF TypeOK, Send, tables, locks
<1>4. TablesInv'
  BY TablesUnchanged DEF Send, tables
<1>5. \A d \in EventIds : sent[d] \in Message => sent'[d] = sent[d]
  BY <1>1, NoEventAssumption DEF Send, TypeOK, Message
<1>6. \A v \in Workers : WorkerInv(v)'
  BY <1>5, OthersKeep DEF Send, tables, locks
<1> QED BY <1>3, <1>4, <1>6 DEF IInv

LEMMA BnplStep ==
  ASSUME IInv, ApproveBnpl
  PROVE  IInv'
<1>1. TypeOK /\ order \in Order
  BY DEF IInv, TypeOK
<1>2. order' \in Order /\ order'.shipments = order.shipments
  BY <1>1 DEF ApproveBnpl, Order
<1>3. TypeOK'
  BY <1>1, <1>2 DEF TypeOK, ApproveBnpl, provider, locks
<1>4. TablesInv'
  BY <1>2 DEF IInv, TablesInv, SuccessCountsOnce, ConfirmedIsBacked, FlagsOK,
              IntentsHaveAttempts, ApproveBnpl
<1>5. \A v \in Workers : WorkerInv(v)'
  BY OthersKeep, NoneAssumption DEF ApproveBnpl, provider, locks
<1> QED BY <1>3, <1>4, <1>5 DEF IInv

LEMMA RejectStep ==
  ASSUME IInv, NEW k \in Keys, Reject(k)
  PROVE  IInv'
<1>1. TypeOK
  BY DEF IInv
<1>2. /\ \A l \in Keys : l # k => attempt'[l] = attempt[l]
      /\ attempt[k].status # "none" /\ attempt'[k].status = "failed"
  BY <1>1 DEF Reject, TypeOK
<1>3. TypeOK'
  BY <1>1 DEF TypeOK, Reject, AttemptStatuses, provider, locks
<1>4. TablesInv'
  BY <1>2 DEF IInv, TablesInv, SuccessCountsOnce, ConfirmedIsBacked, FlagsOK,
              IntentsHaveAttempts, Reject
<1>5. \A v \in Workers : WorkerInv(v)'
  BY <1>2, OthersKeep DEF Reject, provider, locks
<1> QED BY <1>3, <1>4, <1>5 DEF IInv

-----------------------------------------------------------------------------
(* Transactions that write the order or the attempts *)

LEMMA FinishLifecycleStep ==
  ASSUME IInv, NEW w \in Workers, FinishLifecycle(w)
  PROVE  IInv'
<1>1. TypeOK /\ order \in Order
  BY DEF IInv, TypeOK
<1>2. order' \in Order /\ order'.shipments = order.shipments
  BY <1>1 DEF FinishLifecycle, Order
<1>3. TypeOK'
  BY <1>1, <1>2, ReturnTypes DEF TypeOK, FinishLifecycle, provider
<1>4. TablesInv'
  BY <1>2 DEF IInv, TablesInv, SuccessCountsOnce, ConfirmedIsBacked, FlagsOK,
              IntentsHaveAttempts, FinishLifecycle
<1>5. \A v \in Workers : WorkerInv(v)'
  BY ReturnKeeps DEF FinishLifecycle, provider
<1> QED BY <1>3, <1>4, <1>5 DEF IInv

LEMMA FinishApproveStep ==
  ASSUME IInv, NEW w \in Workers, FinishApprove(w)
  PROVE  IInv'
<1> DEFINE k == call[w].key
<1>1. TypeOK /\ WorkerInv(w)
  BY DEF IInv
<1>2. k \in Keys /\ attempt[k].status # "none"
  BY <1>1, CallFields DEF WorkerInv, KeyIsKnown, FinishApprove
<1>3. attempt' = [attempt EXCEPT ![k].status = "pending"]
  BY DEF FinishApprove
<1> HIDE DEF k
<1>4. /\ \A l \in Keys : l # k => attempt'[l] = attempt[l]
      /\ attempt'[k].status = "pending"
      /\ attempt' \in [Keys -> [status: AttemptStatuses, gateway: Gateways \cup {""},
                                flagged: BOOLEAN, rank: Nat]]
  BY <1>1, <1>2, <1>3 DEF TypeOK, AttemptStatuses
<1>5. TypeOK'
  BY <1>1, <1>4, ReturnTypes DEF TypeOK, FinishApprove, provider
<1>6. TablesInv'
  <2>1. UNCHANGED <<order, intent, payments, credited>>
    BY DEF FinishApprove
  <2> QED BY <1>2, <1>4, <2>1 DEF IInv, TablesInv, SuccessCountsOnce, ConfirmedIsBacked,
             FlagsOK, IntentsHaveAttempts
<1>7. \A v \in Workers : WorkerInv(v)'
  BY <1>2, <1>4, ReturnKeeps DEF FinishApprove, provider
<1> QED BY <1>5, <1>6, <1>7 DEF IInv

LEMMA NextRankType == NextRank \in Nat
<1>1. IsFiniteSet({k \in Keys : attempt[k].status # "none"})
  BY KeysAssumption, FS_Subset
<1> QED BY <1>1, FS_CardinalityType DEF NextRank

LEMMA FlagAttemptStep ==
  ASSUME IInv, NEW w \in Workers, FlagAttempt(w)
  PROVE  IInv'
<1> DEFINE k == call[w].key
           a == [status |-> "flagged", gateway |-> call[w].gateway,
                 flagged |-> TRUE, rank |-> NextRank]
<1>1. TypeOK /\ WorkerInv(w)
  BY DEF IInv
<1>2. k \in Keys /\ call[w].gateway \in Gateways /\ orderLock = w
  BY <1>1, CallFields DEF FlagAttempt, Proceeds, Initiating, WorkerInv, HoldsOrder
<1>3. a \in [status: AttemptStatuses, gateway: Gateways \cup {""}, flagged: BOOLEAN, rank: Nat]
  BY <1>2, NextRankType DEF AttemptStatuses
<1>4. attempt' = [attempt EXCEPT ![k] = a]
  BY DEF FlagAttempt
<1>5. a.status = "flagged"
  OBVIOUS
<1> HIDE DEF k, a
<1>6. /\ \A l \in Keys : l # k => attempt'[l] = attempt[l]
      /\ attempt'[k].status = "flagged"
      /\ attempt' \in [Keys -> [status: AttemptStatuses, gateway: Gateways \cup {""},
                                flagged: BOOLEAN, rank: Nat]]
  BY <1>1, <1>2, <1>3, <1>4, <1>5 DEF TypeOK
<1>7. TypeOK'
  BY <1>1, <1>6, ReturnTypes DEF TypeOK, FlagAttempt, provider
<1>8. TablesInv'
  BY <1>2, <1>6 DEF IInv, TablesInv, SuccessCountsOnce, ConfirmedIsBacked, FlagsOK,
                    IntentsHaveAttempts, FlagAttempt
<1>9. \A v \in Workers : WorkerInv(v)'
  BY <1>2, <1>6, ReturnKeeps DEF FlagAttempt, provider
<1> QED BY <1>7, <1>8, <1>9 DEF IInv

\* A new intent and its attempt leave the others as they are.
LEMMA InitiatedFacts ==
  ASSUME IInv, NEW w \in Workers, NEW s \in Outcomes, Initiating(w, "charged"), Initiated(w, s)
  PROVE  /\ attempt' \in [Keys -> [status: AttemptStatuses, gateway: Gateways \cup {""},
                                   flagged: BOOLEAN, rank: Nat]]
         /\ intent' \in [Keys -> [status: IntentStatuses, ref: Refs \cup {NoRef}]]
         /\ orderLock = w /\ call[w].ref \in Refs
         /\ \A k \in Keys : attempt[k].status # "none" =>
              attempt'[k] = attempt[k] /\ intent'[k] = intent[k]
         /\ \A k \in Keys : intent[k].ref \in Refs => intent'[k] = intent[k]
         /\ \A k \in Keys : attempt[k].status = "none" =>
              /\ attempt'[k].status \in {"none", "pending"}
              /\ attempt'[k].status = "none" => intent'[k] = intent[k]
<1> DEFINE k == call[w].key
           a == [status |-> "pending", gateway |-> call[w].gateway,
                 flagged |-> FALSE, rank |-> NextRank]
           i == [status |-> s, ref |-> call[w].ref]
<1>1. TypeOK /\ WorkerInv(w)
  BY DEF IInv
<1>2. /\ k \in Keys /\ call[w].gateway \in Gateways /\ orderLock = w
      /\ call[w].ref \in Refs /\ attempt[k].status = "none"
  BY <1>1, CallFields DEF Initiating, WorkerInv, HoldsOrder, KeyIsNew
<1>3. /\ a \in [status: AttemptStatuses, gateway: Gateways \cup {""}, flagged: BOOLEAN, rank: Nat]
      /\ i \in [status: IntentStatuses, ref: Refs \cup {NoRef}]
      /\ a.status = "pending"
  BY <1>2, NextRankType DEF AttemptStatuses, IntentStatuses
<1>4. attempt' = [attempt EXCEPT ![k] = a] /\ intent' = [intent EXCEPT ![k] = i]
  BY DEF Initiated
<1>5. intent[k].ref = NoRef /\ NoRef \notin Refs
  BY <1>2, NoneAssumption DEF IInv, TablesInv, IntentsHaveAttempts
<1>6. call[w].ref \in Refs
  BY <1>2
<1> HIDE DEF k, a, i
<1>7. \A l \in Keys : l # k => attempt'[l] = attempt[l] /\ intent'[l] = intent[l]
  BY <1>4, <1>1 DEF TypeOK
<1>8. attempt'[k] = a /\ intent'[k] = i
  BY <1>4, <1>1, <1>2 DEF TypeOK
<1> QED BY <1>1, <1>2, <1>3, <1>4, <1>5, <1>6, <1>7, <1>8 DEF TypeOK

LEMMA CommitInitiationStep ==
  ASSUME IInv, NEW w \in Workers, CommitInitiation(w)
  PROVE  IInv'
<1>1. TypeOK /\ "pending" \in Outcomes
  BY DEF IInv, Outcomes
<1>2. Initiating(w, "charged") /\ Initiated(w, "pending")
  BY DEF CommitInitiation
<1>3. TypeOK'
  BY <1>1, <1>2, ReturnTypes, InitiatedFacts DEF TypeOK, CommitInitiation, provider
<1>4. TablesInv'
  BY <1>1, <1>2, InitiatedFacts DEF IInv, TablesInv, SuccessCountsOnce, ConfirmedIsBacked,
     FlagsOK, IntentsHaveAttempts, CommitInitiation
<1>5. \A v \in Workers : WorkerInv(v)'
  BY <1>1, <1>2, InitiatedFacts, ReturnKeeps DEF CommitInitiation, provider
<1> QED BY <1>3, <1>4, <1>5 DEF IInv

\* Recording a success under the order's lock: once per reference, one shipment.
LEMMA SucceedFacts ==
  ASSUME IInv, NEW w \in Workers, pc[w] \in {"locked", "charged"}, NEW ref \in Refs,
         NEW recorded, recorded = (payments[ref] > 0), Succeed(w, ref, recorded)
  PROVE  /\ order' \in Order /\ order'.shipments <= 1
         /\ payments' \in [Refs -> Nat] /\ \A r \in Refs : payments'[r] <= 1
         /\ payments'[ref] = 1 /\ credited' = TRUE
<1>1. TypeOK /\ WorkerInv(w) /\ SuccessCountsOnce
  BY DEF IInv, TablesInv
<1>2. local[w].order = order
  BY <1>1 DEF WorkerInv, HoldsOrder
<1>3. order' = Shipped(order) /\ order \in Order /\ order.shipments <= 1
  BY <1>1, <1>2 DEF Succeed, TypeOK, SuccessCountsOnce
<1>4. order' \in Order /\ order'.shipments <= 1
  <2>1. CASE order.shipments = 0 /\ order.status \in {"paid", "processing"}
    <3>1. order' = [order EXCEPT !.status = "shipped", !.shipments = order.shipments + 1]
      BY <1>3, <2>1 DEF Shipped
    <3>2. order' \in Order
      <4>1. order.shipments + 1 \in Nat /\ order.payment \in {"pending", "paid", "confirmed", "failed"}
        BY <1>3, <2>1 DEF Order
      <4>2. order' = [status |-> "shipped", payment |-> order.payment,
                      shipments |-> order.shipments + 1]
        BY <1>3, <3>1 DEF Order
      <4> QED BY <4>1, <4>2 DEF Order
    <3>3. order'.shipments = order.shipments + 1
      BY <1>3, <3>1 DEF Order
    <3> QED BY <2>1, <3>2, <3>3
  <2>2. CASE ~(order.shipments = 0 /\ order.status \in {"paid", "processing"})
    BY <1>3, <2>2 DEF Shipped
  <2> QED BY <2>1, <2>2
<1>5. payments \in [Refs -> Nat] /\ \A r \in Refs : payments[r] <= 1
  BY <1>1 DEF TypeOK, SuccessCountsOnce
<1>6. payments' = IF payments[ref] > 0 THEN payments ELSE [payments EXCEPT ![ref] = @ + 1]
  BY DEF Succeed
<1>7. payments[ref] \in Nat
  BY <1>5
<1> QED BY <1>4, <1>5, <1>6, <1>7 DEF Succeed

LEMMA CommitDummyStep ==
  ASSUME IInv, NEW w \in Workers, CommitDummyPayment(w)
  PROVE  IInv'
<1>1. TypeOK /\ "succeeded" \in Outcomes
  BY DEF IInv, Outcomes
<1>2. Initiating(w, "charged") /\ Initiated(w, "succeeded") /\ pc[w] = "charged"
  BY DEF CommitDummyPayment, Initiating
<1>3. call[w].ref \in Refs /\ Succeed(w, call[w].ref, payments[call[w].ref] > 0)
  BY <1>1, <1>2, InitiatedFacts DEF CommitDummyPayment
<1>4. /\ order' \in Order /\ order'.shipments <= 1
      /\ payments' \in [Refs -> Nat] /\ \A r \in Refs : payments'[r] <= 1
      /\ \E r \in Refs : payments'[r] = 1
      /\ credited' = TRUE
  BY <1>2, <1>3, SucceedFacts
<1>5. TypeOK'
  BY <1>1, <1>2, <1>4, ReturnTypes, InitiatedFacts DEF TypeOK, CommitDummyPayment, provider
<1>6. TablesInv'
  BY <1>1, <1>2, <1>4, InitiatedFacts DEF IInv, TablesInv, SuccessCountsOnce,
     ConfirmedIsBacked, FlagsOK, IntentsHaveAttempts, CommitDummyPayment
<1>7. \A v \in Workers : WorkerInv(v)'
  BY <1>1, <1>2, InitiatedFacts, ReturnKeeps DEF CommitDummyPayment, provider
<1> QED BY <1>5, <1>6, <1>7 DEF IInv

-----------------------------------------------------------------------------
(* Webhooks that conclude *)

LEMMA MovedFacts ==
  ASSUME NEW from \in AttemptStatuses, NEW to \in AttemptStatuses
  PROVE  Moved(from, to) \in {from, to} /\ Moved("none", to) = "none"
<1>1. Allowed["none"] = {}
  BY DEF Allowed
<1> QED BY <1>1 DEF Moved

LEMMA ConcludeFacts ==
  ASSUME IInv, NEW w \in Workers, Handling(w), NEW es \in Final,
         NEW as \in {"confirmed", "failed", "pending", "flagged"}, Conclude(w, es, as)
  PROVE  /\ event' \in [EventIds -> EventStatuses]
         /\ attempt' \in [Keys -> [status: AttemptStatuses, gateway: Gateways \cup {""},
                                   flagged: BOOLEAN, rank: Nat]]
         /\ acked' \in SUBSET EventIds /\ UNCHANGED <<charged, sent>>
         /\ Return(w) /\ orderLock = w
         /\ call[w].event \in EventIds /\ event[call[w].event] = "none"
         /\ event' = [event EXCEPT ![call[w].event] = es]
         /\ \A e \in EventIds : event'[e] = event[e] \/ eventLock[e] = w
         /\ \A k \in Keys : attempt'[k].flagged = attempt[k].flagged
         /\ \A k \in Keys : attempt'[k].status = attempt[k].status
                            \/ (/\ attempt'[k].status = as /\ attempt[k].status # "none"
                                /\ k = Latest(local[w].key))
<1>1. TypeOK /\ WorkerInv(w)
  BY DEF IInv
<1>2. /\ call[w].event \in EventIds /\ orderLock = w
      /\ eventLock[call[w].event] = w /\ event[call[w].event] = "none"
  BY <1>1, CallFields DEF WorkerInv, Handling, HoldsOrder, HoldsEvent
<1>3. event' = [event EXCEPT ![call[w].event] = es] /\ es \in EventStatuses
  BY DEF Conclude, Final, EventStatuses
<1>4. /\ event' \in [EventIds -> EventStatuses]
      /\ \A e \in EventIds : event'[e] = event[e] \/ eventLock[e] = w
  BY <1>1, <1>2, <1>3 DEF TypeOK
<1>5. acked' \in SUBSET EventIds /\ UNCHANGED <<charged, sent>> /\ Return(w)
  BY <1>1, <1>2 DEF Conclude, Acknowledge, TypeOK
<1> DEFINE l == Latest(local[w].key)
<1>6. attempt' = [attempt EXCEPT ![l].status = Moved(@, as)]
  BY DEF Conclude
<1> HIDE DEF l
<1>7. CASE l \in Keys
  <2>1. attempt[l].status \in AttemptStatuses /\ as \in AttemptStatuses
    BY <1>1, <1>7 DEF TypeOK, AttemptStatuses
  <2>2. /\ Moved(attempt[l].status, as) \in AttemptStatuses
        /\ Moved(attempt[l].status, as) \in {attempt[l].status, as}
        /\ attempt[l].status = "none" => Moved(attempt[l].status, as) = "none"
    BY <2>1, MovedFacts
  <2>3. attempt' = [attempt EXCEPT ![l] = [attempt[l] EXCEPT !.status = Moved(attempt[l].status, as)]]
    BY <1>6
  <2>4. attempt \in [Keys -> [status: AttemptStatuses, gateway: Gateways \cup {""},
                             flagged: BOOLEAN, rank: Nat]]
    BY <1>1 DEF TypeOK
  <2>5. /\ \A k \in Keys : k # l => attempt'[k] = attempt[k]
        /\ attempt'[l] = [attempt[l] EXCEPT !.status = Moved(attempt[l].status, as)]
    BY <1>7, <2>3, <2>4
  <2>6. /\ attempt'[l].flagged = attempt[l].flagged
        /\ attempt'[l].status = Moved(attempt[l].status, as)
    BY <1>7, <2>4, <2>5
  <2>7. attempt' \in [Keys -> [status: AttemptStatuses, gateway: Gateways \cup {""},
                              flagged: BOOLEAN, rank: Nat]]
    <3>1. attempt'[l] \in [status: AttemptStatuses, gateway: Gateways \cup {""},
                           flagged: BOOLEAN, rank: Nat]
      BY <1>7, <2>2, <2>4, <2>5
    <3>2. attempt' = [attempt EXCEPT ![l] = attempt'[l]]
      BY <2>3, <2>5
    <3> QED BY <1>7, <2>4, <3>1, <3>2
  <2>8. \A k \in Keys : attempt'[k].flagged = attempt[k].flagged
    BY <2>5, <2>6
  <2>9. \A k \in Keys : attempt'[k].status = attempt[k].status
                         \/ (/\ attempt'[k].status = as /\ attempt[k].status # "none" /\ k = l)
    BY <2>2, <2>5, <2>6
  <2> QED BY <1>2, <1>3, <1>4, <1>5, <2>7, <2>8, <2>9 DEF l
<1>8. CASE l \notin Keys
  <2>1. attempt' = attempt
    BY <1>1, <1>6, <1>8 DEF TypeOK
  <2> QED BY <1>1, <1>2, <1>3, <1>4, <1>5, <2>1 DEF TypeOK
<1> QED BY <1>7, <1>8

\* Saving an intent changes no reference, and only the status of the event's intent.
LEMMA SavedFacts ==
  ASSUME TypeOK, NEW k \in Keys, NEW seen, NEW s \in Outcomes, intent' = Saved(k, seen, s)
  PROVE  /\ intent' \in [Keys -> [status: IntentStatuses, ref: Refs \cup {NoRef}]]
         /\ \A l \in Keys : intent'[l].ref = intent[l].ref
         /\ \A l \in Keys : l # k => intent'[l] = intent[l]
         /\ intent'[k].status \in {s, intent[k].status}
<1>1. s \in IntentStatuses
  BY DEF IntentStatuses
<1> QED BY <1>1 DEF Saved, TypeOK

\* The intent a handler works on, which has an attempt
LEMMA HandledIntent ==
  ASSUME IInv, NEW w \in Workers, Handling(w)
  PROVE  /\ local[w].key \in Keys /\ attempt[local[w].key].status # "none"
         /\ sent[call[w].event] \in Message /\ call[w].event \in EventIds
         /\ intent[local[w].key].ref = sent[call[w].event].ref
<1>1. TypeOK /\ WorkerInv(w)
  BY DEF IInv
<1>2. /\ local[w].key \in Keys
      /\ sent[call[w].event] \in Message
      /\ intent[local[w].key].ref = sent[call[w].event].ref
  BY <1>1 DEF WorkerInv, KnowsIntent, Handling, TypeOK, Copy
<1>3. intent[local[w].key].ref # NoRef
  BY <1>2, NoneAssumption DEF Message
<1>4. attempt[local[w].key].status # "none"
  BY <1>2, <1>3 DEF IInv, TablesInv, IntentsHaveAttempts
<1> QED BY <1>1, <1>2, <1>4, CallFields DEF Handling

LEMMA HoldFlaggedStep ==
  ASSUME IInv, NEW w \in Workers, HoldFlagged(w)
  PROVE  IInv'
<1>1. TypeOK /\ "ignored" \in Final
  BY DEF IInv, Final
<1>2. Handling(w) /\ Conclude(w, "ignored", "flagged")
  BY DEF HoldFlagged
<1>3. UNCHANGED <<order, intent, payments, credited>>
  BY DEF HoldFlagged
<1>4. TypeOK'
  BY <1>1, <1>2, <1>3, ReturnTypes, ConcludeFacts DEF TypeOK
<1>a. /\ \A k \in Keys : attempt'[k].flagged = attempt[k].flagged
      /\ \A k \in Keys : attempt'[k].status = attempt[k].status
           \/ (/\ attempt'[k].status = "flagged" /\ attempt[k].status # "none"
               /\ k = Latest(local[w].key))
  BY <1>1, <1>2, ConcludeFacts
<1>5. TablesInv'
  <2>1. FlagsOK /\ attempt[Latest(local[w].key)].flagged
    BY DEF IInv, TablesInv, HoldFlagged, Held
  <2>2. FlagsOK'
    BY <1>a, <2>1 DEF FlagsOK
  <2> QED BY <1>3, <1>a, <2>2 DEF IInv, TablesInv, SuccessCountsOnce,
     ConfirmedIsBacked, IntentsHaveAttempts
<1>6. \A v \in Workers : WorkerInv(v)'
  BY <1>1, <1>2, <1>3, ConcludeFacts, ReturnKeeps
<1> QED BY <1>4, <1>5, <1>6 DEF IInv

LEMMA ApplySuccessStep ==
  ASSUME IInv, NEW w \in Workers, ApplySuccess(w)
  PROVE  IInv'
<1> DEFINE ref == sent[call[w].event].ref
<1>1. TypeOK /\ WorkerInv(w) /\ "processed" \in Final /\ "succeeded" \in Outcomes
  BY DEF IInv, Final, Outcomes
<1>2. Handling(w) /\ ~Held(w) /\ Conclude(w, "processed", "confirmed")
  BY DEF ApplySuccess, Handles
<1>3. local[w].key \in Keys /\ attempt[local[w].key].status # "none" /\ ref \in Refs
  BY <1>2, HandledIntent DEF Message
<1>4. intent' = Saved(local[w].key, local[w].status, "succeeded")
  BY DEF ApplySuccess
<1>5. local[w].recorded = (payments[ref] > 0) /\ pc[w] = "locked"
  BY <1>1, <1>2 DEF Handling, WorkerInv, HoldsOrder
<1>6. Succeed(w, ref, local[w].recorded)
  BY DEF ApplySuccess
<1> HIDE DEF ref
<1>7. /\ order' \in Order /\ order'.shipments <= 1
      /\ payments' \in [Refs -> Nat] /\ \A r \in Refs : payments'[r] <= 1
      /\ \E r \in Refs : payments'[r] = 1
      /\ credited' = TRUE
  BY <1>3, <1>5, <1>6, SucceedFacts
<1>8. TypeOK'
  <2>1. intent' \in [Keys -> [status: IntentStatuses, ref: Refs \cup {NoRef}]]
    BY <1>1, <1>3, <1>4, SavedFacts
  <2>2. /\ event' \in [EventIds -> EventStatuses]
        /\ attempt' \in [Keys -> [status: AttemptStatuses, gateway: Gateways \cup {""},
                                  flagged: BOOLEAN, rank: Nat]]
        /\ acked' \in SUBSET EventIds /\ UNCHANGED <<charged, sent>>
        /\ Return(w)
    BY <1>1, <1>2, ConcludeFacts
  <2>3. /\ orderLock' \in Workers \cup {NoWorker}
        /\ eventLock' \in [EventIds -> Workers \cup {NoWorker}]
        /\ pc' \in [Workers -> Pcs]
        /\ call' \in [Workers -> Calls \cup {NoCall}]
        /\ local' \in [Workers -> Copy]
    BY <1>1, <2>2, ReturnTypes
  <2> QED BY <1>1, <1>7, <2>1, <2>2, <2>3 DEF TypeOK
<1>a. /\ \A k \in Keys : attempt'[k].flagged = attempt[k].flagged
      /\ \A k \in Keys : attempt'[k].status = attempt[k].status
           \/ (/\ attempt'[k].status = "confirmed" /\ attempt[k].status # "none"
               /\ k = Latest(local[w].key))
  BY <1>1, <1>2, ConcludeFacts
<1>9. TablesInv'
  <2>1. SuccessCountsOnce' /\ ConfirmedIsBacked'
    BY <1>7 DEF SuccessCountsOnce, ConfirmedIsBacked
  <2>2. FlagsOK'
    BY <1>2, <1>a DEF IInv, TablesInv, FlagsOK, Held
  <2>3. IntentsHaveAttempts'
    <3>1. \A k \in Keys : attempt[k].status = "none" => intent'[k] = intent[k]
      BY <1>1, <1>3, <1>4, SavedFacts
    <3> QED BY <1>a, <3>1 DEF IInv, TablesInv, IntentsHaveAttempts
  <2> QED BY <2>1, <2>2, <2>3 DEF TablesInv
<1>10. \A v \in Workers : WorkerInv(v)'
  <2>1. \A k \in Keys : intent'[k].ref = intent[k].ref
    BY <1>1, <1>3, <1>4, SavedFacts
  <2>2. \A k \in Keys : attempt[k].status # "none" => attempt'[k].status # "none"
    BY <1>a
  <2>3. /\ Return(w) /\ orderLock = w /\ sent' = sent
        /\ \A e \in EventIds : event'[e] = event[e] \/ eventLock[e] = w
    BY <1>1, <1>2, ConcludeFacts
  <2> QED BY <2>1, <2>2, <2>3, ReturnKeeps
<1> QED BY <1>8, <1>9, <1>10 DEF IInv

\* A failure or a pending outcome records no payment and ships nothing.
LEMMA ApplyOtherStep ==
  ASSUME IInv, NEW w \in Workers, Handling(w), NEW as \in {"failed", "pending"},
         Conclude(w, "processed", as), UNCHANGED <<payments, credited>>,
         order' \in Order, order'.shipments = order.shipments,
         NEW s \in Outcomes,
         intent' = intent \/ intent' = Saved(local[w].key, local[w].status, s)
  PROVE  IInv'
<1>1. TypeOK /\ "processed" \in Final
  BY DEF IInv, Final
<1>2. local[w].key \in Keys /\ attempt[local[w].key].status # "none"
  BY HandledIntent
<1>3. /\ intent' \in [Keys -> [status: IntentStatuses, ref: Refs \cup {NoRef}]]
      /\ \A k \in Keys : intent'[k].ref = intent[k].ref
      /\ \A k \in Keys : attempt[k].status = "none" => intent'[k] = intent[k]
  <2>1. CASE intent' = intent
    BY <1>1, <2>1 DEF TypeOK
  <2>2. CASE intent' = Saved(local[w].key, local[w].status, s)
    BY <1>1, <1>2, <2>2, SavedFacts
  <2> QED BY <2>1, <2>2
<1>b. /\ event' \in [EventIds -> EventStatuses]
      /\ attempt' \in [Keys -> [status: AttemptStatuses, gateway: Gateways \cup {""},
                                flagged: BOOLEAN, rank: Nat]]
      /\ acked' \in SUBSET EventIds /\ UNCHANGED <<charged, sent>>
      /\ Return(w) /\ orderLock = w
      /\ \A e \in EventIds : event'[e] = event[e] \/ eventLock[e] = w
      /\ \A k \in Keys : attempt'[k].flagged = attempt[k].flagged
      /\ \A k \in Keys : attempt'[k].status = attempt[k].status
                          \/ (attempt'[k].status = as /\ attempt[k].status # "none")
  <2>1. CASE as = "failed"
    <3>1. Conclude(w, "processed", "failed")
      BY <2>1
    <3> QED BY <1>1, <2>1, <3>1, ConcludeFacts
  <2>2. CASE as = "pending"
    <3>1. Conclude(w, "processed", "pending")
      BY <2>2
    <3> QED BY <1>1, <2>2, <3>1, ConcludeFacts
  <2> QED BY <2>1, <2>2
<1>4. TypeOK'
  BY <1>1, <1>3, <1>b, ReturnTypes DEF TypeOK
<1>5. TablesInv'
  <2>1. FlagsOK
    BY DEF IInv, TablesInv
  <2>2. FlagsOK'
    <3>1. as # "flagged" /\ as # "confirmed"
      OBVIOUS
    <3> QED BY <1>b, <2>1, <3>1 DEF FlagsOK
  <2> QED BY <1>3, <1>b, <2>2 DEF IInv, TablesInv, SuccessCountsOnce,
     ConfirmedIsBacked, IntentsHaveAttempts
<1>6. \A v \in Workers : WorkerInv(v)'
  <2>1. \A k \in Keys : attempt[k].status # "none" => attempt'[k].status # "none"
    BY <1>b
  <2> QED BY <1>3, <1>b, <2>1, ReturnKeeps
<1> QED BY <1>4, <1>5, <1>6 DEF IInv

LEMMA ApplyFailureStep ==
  ASSUME IInv, NEW w \in Workers, ApplyFailure(w)
  PROVE  IInv'
<1>1. order \in Order /\ "failed" \in Outcomes
  BY DEF IInv, TypeOK, Outcomes
<1>2. order' = order \/ order' = [order EXCEPT !.payment = "failed"]
  BY DEF ApplyFailure
<1>3. order' \in Order /\ order'.shipments = order.shipments
  BY <1>1, <1>2 DEF Order
<1>4. intent' = intent \/ intent' = Saved(local[w].key, local[w].status, "failed")
  BY DEF ApplyFailure
<1> QED BY <1>1, <1>3, <1>4, ApplyOtherStep DEF ApplyFailure, Handles

LEMMA ApplyPendingStep ==
  ASSUME IInv, NEW w \in Workers, ApplyPending(w)
  PROVE  IInv'
<1>1. order \in Order /\ order' = order
  BY DEF IInv, TypeOK, ApplyPending
<1>2. sent[call[w].event].outcome \in Outcomes
  BY HandledIntent DEF ApplyPending, Handles, Message
<1> QED BY <1>1, <1>2, ApplyOtherStep DEF ApplyPending, Handles

-----------------------------------------------------------------------------
(* The theorems *)

LEMMA Initialisation == Init => IInv
<1> SUFFICES ASSUME Init PROVE IInv
  OBVIOUS
<1>1. Nothing \in Copy /\ NewOrder \in Order
  BY DEF Nothing, Copy, NewOrder, Order, IntentStatuses
<1>2. TypeOK
  BY <1>1 DEF Init, TypeOK, IntentStatuses, AttemptStatuses, EventStatuses, Pcs
<1>3. TablesInv
  <2>1. SuccessCountsOnce
    <3>1. order.shipments = 0 /\ \A r \in Refs : payments[r] = 0
      BY DEF Init, NewOrder
    <3> QED BY <3>1 DEF SuccessCountsOnce
  <2>2. ConfirmedIsBacked /\ FlagsOK
    BY DEF Init, ConfirmedIsBacked, FlagsOK
  <2>3. IntentsHaveAttempts
    BY DEF Init, IntentsHaveAttempts
  <2> QED BY <2>1, <2>2, <2>3 DEF TablesInv
<1>4. \A w \in Workers : WorkerInv(w)
  BY DEF Init, WorkerInv, IdleIsClear, KnowsIntent, HoldsEvent, HoldsOrder, KeyIsNew,
         KeyIsKnown
<1> QED BY <1>2, <1>3, <1>4 DEF IInv

LEMMA Consecution == IInv /\ [Next]_vars => IInv'
<1> SUFFICES ASSUME IInv, [Next]_vars PROVE IInv'
  OBVIOUS
<1>1. CASE ApproveBnpl
  BY <1>1, BnplStep
<1>2. CASE \E k \in Keys : Reject(k)
  BY <1>2, RejectStep
<1>3. CASE \E e \in EventIds, r \in Refs, o \in Reported : Send(e, r, o)
  BY <1>3, SendStep
<1>4. ASSUME NEW w \in Workers, Handle(w) PROVE IInv'
  BY <1>4, AnswerStep, LockEventStep, LockOrderStep, HoldFlaggedStep, ApplySuccessStep,
     ApplyFailureStep, ApplyPendingStep DEF Handle, RefuseSuccess
<1>5. ASSUME NEW w \in Workers, Abort(w) \/ Repeat(w) PROVE IInv'
  BY <1>5, AnswerStep DEF Abort, Repeat
<1>6. ASSUME NEW w \in Workers,
             \/ StartLifecycle(w) \/ FinishLifecycle(w) \/ FlagAttempt(w) \/ Charge(w)
             \/ CommitInitiation(w) \/ CommitDummyPayment(w) \/ FinishApprove(w)
      PROVE  IInv'
  BY <1>6, LifecycleStep, FinishLifecycleStep, FlagAttemptStep, ChargeStep,
     CommitInitiationStep, CommitDummyStep, FinishApproveStep
<1>7. ASSUME NEW w \in Workers,
             \/ \E k \in Keys, g \in Gateways : Initiate(w, k, g)
             \/ \E k \in Keys : StartApprove(w, k)
             \/ \E e \in EventIds : Deliver(w, e)
      PROVE  IInv'
  BY <1>7, InitiateStep, ApproveStep, DeliverStep
<1>8. CASE UNCHANGED vars
  <2>1. TypeOK' /\ TablesInv'
    BY <1>8 DEF IInv, TypeOK, TablesInv, SuccessCountsOnce, ConfirmedIsBacked,
       FlagsOK, IntentsHaveAttempts, vars
  <2>2. \A w \in Workers : WorkerInv(w)'
    BY <1>8, OthersKeep DEF vars
  <2> QED BY <2>1, <2>2 DEF IInv
<1> QED BY <1>1, <1>2, <1>3, <1>4, <1>5, <1>6, <1>7, <1>8 DEF Next

LEMMA Invariance == Spec => []IInv
BY Initialisation, Consecution, PTL DEF Spec

\* Every reachable state of the payments of an order is well typed.
THEOREM TypeSafety == Spec => []TypeOK
<1>1. IInv => TypeOK
  BY DEF IInv
<1> QED BY <1>1, Invariance, PTL

\* However often a charge is reported, it is recorded as one payment and the order
\* is shipped once: what the handler checked under the order's lock is still so
\* when it commits.
THEOREM PaymentsCountOnce == Spec => []SuccessCountsOnce
<1>1. IInv => SuccessCountsOnce
  BY DEF IInv, TablesInv
<1> QED BY <1>1, Invariance, PTL

\* A confirmed attempt always has a recorded payment and a credited order.
THEOREM ConfirmationsAreBacked == Spec => []ConfirmedIsBacked
<1>1. IInv => ConfirmedIsBacked
  BY DEF IInv, TablesInv
<1> QED BY <1>1, Invariance, PTL

\* No webhook confirms an attempt that was flagged, even when a reviewer approved it:
\* approval leaves is_flagged set, so that the next event sends the attempt back.
THEOREM ApprovalConfirmsNothing ==
  Spec => [](\A k \in Keys : attempt[k].flagged => attempt[k].status # "confirmed")
<1>1. IInv => \A k \in Keys : attempt[k].flagged => attempt[k].status # "confirmed"
  BY DEF IInv, TablesInv, FlagsOK
<1> QED BY <1>1, Invariance, PTL

-----------------------------------------------------------------------------
(* Events are applied once *)

LEMMA NothingApplied ==
  ASSUME event' = event,
         \A k \in Keys : intent'[k] = intent[k] \/ intent[k].status = "none"
  PROVE  AppliesEvents
BY DEF AppliesEvents

LEMMA EventApplied ==
  ASSUME IInv, NEW w \in Workers, Handling(w),
         event' = [event EXCEPT ![call[w].event] = "processed"],
         event[call[w].event] = "none",
         \/ intent' = intent
         \/ intent' = Saved(local[w].key, local[w].status, sent[call[w].event].outcome)
  PROVE  AppliesEvents
<1> DEFINE e == call[w].event
           l == local[w].key
<1>1. TypeOK /\ e \in EventIds /\ l \in Keys /\ sent[e] \in Message /\ intent[l].ref = sent[e].ref
  BY HandledIntent DEF IInv
<1>2. event'[e] = "processed" /\ \A d \in EventIds : d # e => event'[d] = event[d]
  BY <1>1 DEF TypeOK
<1>3. \A d \in EventIds : event[d] \in Final => event'[d] = event[d]
  BY <1>2 DEF Final
<1>4. sent[e] = [ref |-> sent[e].ref, outcome |-> sent[e].outcome] /\ sent[e].outcome \in Outcomes
  BY <1>1 DEF Message
<1>5. ASSUME NEW k \in Keys, intent[k].status \notin {"none", intent'[k].status}
      PROVE  \E d \in EventIds :
               /\ event[d] = "none" /\ event'[d] = "processed"
               /\ sent[d] = [ref |-> intent[k].ref, outcome |-> intent'[k].status]
  <2>1. intent' = Saved(l, local[w].status, sent[e].outcome)
    BY <1>5
  <2>2. k = l /\ intent'[l].status = sent[e].outcome
    <3>1. k = l
      BY <1>1, <1>4, <1>5, <2>1, SavedFacts
    <3>2. intent'[l].status \in {sent[e].outcome, intent[l].status}
      BY <1>1, <1>4, <2>1, SavedFacts
    <3> QED BY <1>5, <3>1, <3>2
  <2> QED BY <1>1, <1>2, <1>4, <2>2
<1> QED BY <1>3, <1>5 DEF AppliesEvents

LEMMA StepApplies == IInv /\ [Next]_vars => [AppliesEvents]_vars
<1> SUFFICES ASSUME IInv, Next PROVE AppliesEvents
  OBVIOUS
<1>1. ASSUME NEW w \in Workers, ApplySuccess(w) \/ ApplyFailure(w) \/ ApplyPending(w)
      PROVE  AppliesEvents
  <2>1. Handling(w)
    BY <1>1 DEF ApplySuccess, ApplyFailure, ApplyPending, Handles
  <2>2. event' = [event EXCEPT ![call[w].event] = "processed"]
    BY <1>1 DEF ApplySuccess, ApplyFailure, ApplyPending, Conclude
  <2>3. event[call[w].event] = "none"
    BY <2>1 DEF IInv, WorkerInv, HoldsEvent, Handling
  <2>4. \/ intent' = intent
        \/ intent' = Saved(local[w].key, local[w].status, sent[call[w].event].outcome)
    BY <1>1 DEF ApplySuccess, ApplyFailure, ApplyPending, Handles
  <2> QED BY <2>1, <2>2, <2>3, <2>4, EventApplied
<1>2. ASSUME NEW w \in Workers, HoldFlagged(w) PROVE AppliesEvents
  <2>1. Handling(w) /\ event' = [event EXCEPT ![call[w].event] = "ignored"] /\ intent' = intent
    BY <1>2 DEF HoldFlagged, Conclude
  <2>2. event[call[w].event] = "none"
    BY <2>1 DEF IInv, WorkerInv, HoldsEvent, Handling
  <2> QED BY <2>1, <2>2 DEF AppliesEvents, Final, IInv, TypeOK
<1>3. ASSUME NEW w \in Workers, CommitInitiation(w) PROVE AppliesEvents
  <2>1. /\ Initiating(w, "charged") /\ Initiated(w, "pending")
        /\ event' = event /\ "pending" \in Outcomes
    BY <1>3 DEF CommitInitiation, Outcomes
  <2>2. ASSUME NEW k \in Keys PROVE intent'[k] = intent[k] \/ intent[k].status = "none"
    <3>1. CASE attempt[k].status = "none"
      BY <3>1 DEF IInv, TablesInv, IntentsHaveAttempts
    <3>2. CASE attempt[k].status # "none"
      BY <2>1, <3>2, InitiatedFacts
    <3> QED BY <3>1, <3>2
  <2> QED BY <2>1, <2>2, NothingApplied
<1>4. ASSUME NEW w \in Workers, CommitDummyPayment(w) PROVE AppliesEvents
  <2>1. /\ Initiating(w, "charged") /\ Initiated(w, "succeeded")
        /\ event' = event /\ "succeeded" \in Outcomes
    BY <1>4 DEF CommitDummyPayment, Outcomes
  <2>2. ASSUME NEW k \in Keys PROVE intent'[k] = intent[k] \/ intent[k].status = "none"
    <3>1. CASE attempt[k].status = "none"
      BY <3>1 DEF IInv, TablesInv, IntentsHaveAttempts
    <3>2. CASE attempt[k].status # "none"
      BY <2>1, <3>2, InitiatedFacts
    <3> QED BY <3>1, <3>2
  <2> QED BY <2>1, <2>2, NothingApplied
<1>5. CASE UNCHANGED <<intent, event>>
  BY <1>5, NothingApplied
<1>6. ASSUME NEW w \in Workers,
             \/ IntentNotFound(w) \/ AlreadyHandled(w) \/ LockEvent(w) \/ LockOrder(w)
             \/ RefuseSuccess(w) \/ Abort(w) \/ Repeat(w)
             \/ StartLifecycle(w) \/ FinishLifecycle(w) \/ FlagAttempt(w) \/ Charge(w)
             \/ FinishApprove(w)
             \/ \E k \in Keys, g \in Gateways : Initiate(w, k, g)
             \/ \E k \in Keys : StartApprove(w, k)
             \/ \E e \in EventIds : Deliver(w, e)
      PROVE  UNCHANGED <<intent, event>>
  BY <1>6 DEF IntentNotFound, AlreadyHandled, LockEvent, LockOrder, RefuseSuccess, NoEffect,
     Abort, Repeat, StartLifecycle, FinishLifecycle, FlagAttempt, Charge, FinishApprove,
     Initiate, StartApprove, Deliver, Begin, Step, tables
<1>7. ApproveBnpl \/ (\E k \in Keys : Reject(k))
        \/ (\E e \in EventIds, r \in Refs, o \in Reported : Send(e, r, o))
        => UNCHANGED <<intent, event>>
  BY DEF ApproveBnpl, Reject, Send, tables
<1> QED BY <1>1, <1>2, <1>3, <1>4, <1>5, <1>6, <1>7 DEF Next, Handle

\* An event changes its intent once, to what it reports, and nothing else changes
\* an intent that was stored.
THEOREM EventsAreAppliedOnce == Spec => AppliedOnce
BY Invariance, StepApplies, PTL DEF Spec, AppliedOnce

-----------------------------------------------------------------------------
(* What takes an intent out of succeeded *)

\* The provider reports no other outcomes than it can.
ReportsOnly == \A e \in EventIds : sent[e] # NoEvent => sent[e].outcome \in Reported

LEMMA SentStays ==
  ASSUME [Next]_vars, ~ \E e \in EventIds, r \in Refs, o \in Reported : Send(e, r, o)
  PROVE  sent' = sent
<1>1. ASSUME NEW w \in Workers, Handle(w) PROVE sent' = sent
  <2>1. CASE IntentNotFound(w) \/ AlreadyHandled(w) \/ LockEvent(w) \/ LockOrder(w) \/ RefuseSuccess(w)
    BY <2>1 DEF IntentNotFound, AlreadyHandled, LockEvent, LockOrder, RefuseSuccess,
       NoEffect, Acknowledge, Step, provider
  <2>2. CASE HoldFlagged(w) \/ ApplySuccess(w) \/ ApplyFailure(w) \/ ApplyPending(w)
    BY <2>2 DEF HoldFlagged, ApplySuccess, ApplyFailure, ApplyPending, Conclude, Acknowledge
  <2> QED BY <1>1, <2>1, <2>2 DEF Handle
<1>2. ASSUME NEW w \in Workers,
             \/ Abort(w) \/ StartLifecycle(w) \/ FinishLifecycle(w)
             \/ Repeat(w) \/ FlagAttempt(w) \/ Charge(w)
             \/ CommitInitiation(w) \/ CommitDummyPayment(w) \/ FinishApprove(w)
             \/ \E k \in Keys, g \in Gateways : Initiate(w, k, g)
             \/ \E k \in Keys : StartApprove(w, k)
             \/ \E e \in EventIds : Deliver(w, e)
      PROVE  sent' = sent
  BY <1>2 DEF Abort, StartLifecycle, FinishLifecycle, Repeat, FlagAttempt, Charge,
     CommitInitiation, CommitDummyPayment, FinishApprove, Initiate, StartApprove, Deliver,
     NoEffect, Begin, Step, provider
<1>3. ApproveBnpl \/ (\E k \in Keys : Reject(k)) \/ UNCHANGED vars => sent' = sent
  BY DEF ApproveBnpl, Reject, vars, provider
<1> QED BY <1>1, <1>2, <1>3 DEF Next

LEMMA ReportsStay == TypeOK /\ ReportsOnly /\ [Next]_vars => ReportsOnly'
<1> SUFFICES ASSUME TypeOK, ReportsOnly, [Next]_vars PROVE ReportsOnly'
  OBVIOUS
<1>1. CASE \E e \in EventIds, r \in Refs, o \in Reported : Send(e, r, o)
  <2>1. PICK e \in EventIds, r \in Refs, o \in Reported :
          sent' = [sent EXCEPT ![e] = [ref |-> r, outcome |-> o]]
    BY <1>1 DEF Send
  <2>2. sent'[e].outcome = o /\ \A d \in EventIds : d # e => sent'[d] = sent[d]
    BY <2>1 DEF TypeOK
  <2> QED BY <2>2 DEF ReportsOnly
<1>2. CASE ~ \E e \in EventIds, r \in Refs, o \in Reported : Send(e, r, o)
  BY <1>2, SentStays DEF ReportsOnly
<1> QED BY <1>1, <1>2

\* An intent that succeeded becomes pending through an event that reports it pending, and
\* in no other way: not by a late transaction, not by an initiation that is repeated.
THEOREM OnlyPendingEventsRegress ==
  ASSUME "pending" \notin Reported
  PROVE  Spec => IntentNeverRegresses
<1> DEFINE Stays == \A k \in Keys : intent[k].status = "succeeded" => intent'[k].status # "pending"
<1>1. Init => ReportsOnly
  BY DEF Init, ReportsOnly
<1>2. TypeOK /\ ReportsOnly /\ [Next]_vars => ReportsOnly'
  BY ReportsStay
<1>3. TypeOK /\ ReportsOnly /\ [AppliesEvents]_vars => [Stays]_vars
  <2> SUFFICES ASSUME TypeOK, ReportsOnly, AppliesEvents, NEW k \in Keys,
                      intent[k].status = "succeeded", intent'[k].status = "pending"
               PROVE  FALSE
    OBVIOUS
  <2>1. PICK e \in EventIds : sent[e] = [ref |-> intent[k].ref, outcome |-> "pending"]
                              /\ event[e] = "none" /\ event'[e] = "processed"
    BY DEF AppliesEvents
  <2>2. sent[e] # NoEvent
    <3>1. intent[k].ref \in Refs \cup {NoRef} /\ "pending" \in Outcomes
      BY DEF TypeOK, Outcomes
    <3>2. sent[e] \in [ref: Refs \cup {NoRef}, outcome: Outcomes]
      BY <2>1, <3>1
    <3> QED BY <3>2, NoEventAssumption
  <2> QED BY <2>1, <2>2 DEF ReportsOnly
<1>4. Spec => []TypeOK /\ [][AppliesEvents]_vars
  BY TypeSafety, EventsAreAppliedOnce DEF AppliedOnce
<1>5. Spec => [][Stays]_vars
  BY <1>1, <1>2, <1>3, <1>4, PTL DEF Spec
<1> QED BY <1>5 DEF IntentNeverRegresses

-----------------------------------------------------------------------------
(* Payments implements PaymentContract *)

\* An attempt that was not made has no gateway and no flag.
UnusedIsClean ==
  \A k \in Keys : attempt[k].status = "none" => attempt[k].gateway = "" /\ ~attempt[k].flagged

\* The state of the contract, by its parts.
Reports == {sent[e].ref : e \in {d \in EventIds : sent[d] # NoEvent /\ sent[d].outcome = "succeeded"}}
Recorded == {r \in Refs : payments[r] > 0}
Confirmed == {k \in Keys : attempt[k].status = "confirmed"}
Tests == {k \in Keys : attempt[k].gateway = "dummy"}

ContractStep == [Contract!Next]_Contract!contractVars

LEMMA SameContract ==
  ASSUME UNCHANGED <<Reports, Recorded, credited, order.shipments > 0, Confirmed, Waiting, Tests>>
  PROVE  ContractStep
BY DEF ContractStep, Contract!contractVars, Reports, Recorded, Confirmed, Waiting, Tests

LEMMA ReportStep ==
  ASSUME NEW r \in Refs, Reports' = Reports \cup {r},
         UNCHANGED <<Recorded, credited, order.shipments > 0, Confirmed, Waiting, Tests>>
  PROVE  ContractStep
<1>1. Contract!Report(r)
  BY DEF Contract!Report, Reports, Recorded, Confirmed, Waiting, Tests
<1> QED BY <1>1 DEF ContractStep, Contract!Next

LEMMA HoldStep ==
  ASSUME NEW k \in Keys, k \notin Confirmed, Waiting' = Waiting \cup {k},
         Tests' \in {Tests, Tests \cup {k}},
         UNCHANGED <<Reports, Recorded, credited, order.shipments > 0, Confirmed>>
  PROVE  ContractStep
<1>1. Contract!Hold(k)
  BY DEF Contract!Hold, Reports, Recorded, Confirmed, Waiting, Tests
<1> QED BY <1>1 DEF ContractStep, Contract!Next

LEMMA ReviewStep ==
  ASSUME NEW k \in Keys, Confirmed' = Confirmed \ {k}, Waiting' = Waiting \ {k},
         UNCHANGED <<Reports, Recorded, credited, order.shipments > 0, Tests>>
  PROVE  ContractStep
<1>1. Contract!Review(k)
  BY DEF Contract!Review, Reports, Recorded, Confirmed, Waiting, Tests
<1> QED BY <1>1 DEF ContractStep, Contract!Next

\* What is recorded, credited and shipped together.
Pays(r) ==
  /\ Recorded' = Recorded \cup {r}
  /\ credited' = TRUE
  /\ (order.shipments > 0)' \in {order.shipments > 0, TRUE}

LEMMA ApplyStep ==
  ASSUME NEW r \in Refs, r \in Reports, Pays(r),
         Confirmed' = Confirmed \/ \E k \in Keys \ Waiting : Confirmed' = Confirmed \cup {k},
         UNCHANGED <<Reports, Waiting, Tests>>
  PROVE  ContractStep
<1>1. Contract!Succeed(r)
  BY DEF Pays, Contract!Succeed, Recorded
<1>2. Contract!Apply(r)
  BY <1>1 DEF Contract!Apply, Reports, Confirmed, Waiting, Tests
<1> QED BY <1>2 DEF ContractStep, Contract!Next

LEMMA PayTestStep ==
  ASSUME NEW k \in Keys, NEW r \in Refs, Pays(r), k \notin Tests, Tests' = Tests \cup {k},
         UNCHANGED <<Reports, Confirmed, Waiting>>
  PROVE  ContractStep
<1>1. Contract!Succeed(r)
  BY DEF Pays, Contract!Succeed, Recorded
<1>2. Contract!PayTest(k, r)
  BY <1>1 DEF Contract!PayTest, Reports, Confirmed, Waiting, Tests
<1> QED BY <1>2 DEF ContractStep, Contract!Next

\* A success is recorded for its reference, and shipped what was not.
LEMMA SuccessPays ==
  ASSUME IInv, NEW w \in Workers, pc[w] \in {"locked", "charged"}, NEW r \in Refs,
         NEW recorded, recorded = (payments[r] > 0), Succeed(w, r, recorded)
  PROVE  Pays(r)
<1>1. payments \in [Refs -> Nat] /\ order \in Order /\ local[w].order = order
  BY DEF IInv, TypeOK, WorkerInv, HoldsOrder
<1>2. Recorded' = Recorded \cup {r}
  <2>1. CASE payments[r] > 0
    BY <2>1 DEF Succeed, Recorded
  <2>2. CASE ~(payments[r] > 0)
    <3>1. payments' = [payments EXCEPT ![r] = @ + 1]
      BY <2>2 DEF Succeed
    <3>2. payments'[r] = payments[r] + 1 /\ payments[r] \in Nat
          /\ \A q \in Refs : q # r => payments'[q] = payments[q]
      BY <1>1, <3>1
    <3> QED BY <3>2 DEF Recorded
  <2> QED BY <2>1, <2>2
<1>3. (order.shipments > 0)' \in {order.shipments > 0, TRUE}
  <2>1. order' = order \/ order' = [order EXCEPT !.status = "shipped", !.shipments = @ + 1]
    BY <1>1 DEF Succeed, Shipped
  <2>2. order'.shipments = order.shipments \/ order'.shipments = order.shipments + 1
    BY <1>1, <2>1 DEF Order
  <2>3. order.shipments \in Nat
    BY <1>1 DEF Order
  <2>4. CASE order'.shipments = order.shipments
    BY <2>4
  <2>5. CASE order'.shipments = order.shipments + 1
    <3>1. order'.shipments > 0
      BY <2>3, <2>5
    <3>2. (order'.shipments > 0) = TRUE
      BY <3>1
    <3> QED BY <3>2
  <2> QED BY <2>2, <2>4, <2>5
<1> QED BY <1>2, <1>3 DEF Pays, Succeed

\* A webhook's conclusion moves no attempt but the latest, and keeps its gateway and flag.
LEMMA ConclusionMoves ==
  ASSUME IInv, NEW w \in Workers, Handling(w), NEW es \in Final,
         NEW as \in {"confirmed", "failed", "pending", "flagged"}, Conclude(w, es, as)
  PROVE  /\ \A k \in Keys : attempt'[k].gateway = attempt[k].gateway
                            /\ attempt'[k].flagged = attempt[k].flagged
         /\ \A k \in Keys : attempt'[k].status = attempt[k].status
              \/ (/\ attempt'[k].status = as /\ attempt[k].status \notin {"none", "confirmed"}
                  /\ k = Latest(local[w].key))
         /\ UnusedIsClean => UnusedIsClean'
         /\ Reports' = Reports /\ Tests' = Tests
         /\ as # "confirmed" => Confirmed' = Confirmed
         /\ as # "flagged" /\ ~Held(w) => Waiting' = Waiting
         /\ as = "flagged" =>
              Waiting' = Waiting \/ \E k \in Keys \ Confirmed : Waiting' = Waiting \cup {k}
<1> DEFINE l == Latest(local[w].key)
<1>1. attempt' = [attempt EXCEPT ![l].status = Moved(@, as)] /\ sent' = sent
  BY DEF Conclude, Acknowledge
<1>2. attempt \in [Keys -> [status: AttemptStatuses, gateway: Gateways \cup {""},
                            flagged: BOOLEAN, rank: Nat]]
  BY DEF IInv, TypeOK
<1> HIDE DEF l
<1>3. \A k \in Keys : k # l => attempt'[k] = attempt[k]
  BY <1>1, <1>2
<1>4. ASSUME l \in Keys
      PROVE  /\ attempt'[l].gateway = attempt[l].gateway /\ attempt'[l].flagged = attempt[l].flagged
             /\ attempt'[l].status = Moved(attempt[l].status, as)
  BY <1>1, <1>2, <1>4
<1>5. /\ Moved("confirmed", as) = "confirmed" /\ Moved("none", as) = "none"
      /\ \A from : Moved(from, as) \in {from, as}
  BY DEF Moved, Allowed
<1>6. \A k \in Keys : attempt'[k].gateway = attempt[k].gateway
                      /\ attempt'[k].flagged = attempt[k].flagged
  BY <1>3, <1>4
<1>7. \A k \in Keys : attempt'[k].status = attempt[k].status
        \/ (attempt'[k].status = as /\ attempt[k].status \notin {"none", "confirmed"} /\ k = l)
  BY <1>3, <1>4, <1>5
<1>8. UnusedIsClean => UnusedIsClean'
  BY <1>6, <1>7 DEF UnusedIsClean
<1>9. Reports' = Reports /\ Tests' = Tests
  BY <1>1, <1>6 DEF Reports, Tests
<1>10. as # "confirmed" => Confirmed' = Confirmed
  BY <1>7 DEF Confirmed
<1>11. ASSUME as # "flagged", ~attempt[l].flagged PROVE Waiting' = Waiting
  <2>1. FlagsOK
    BY DEF IInv, TablesInv
  <2>2. \A k \in Keys : k = l => attempt[k].status # "flagged"
    BY <1>11, <2>1 DEF FlagsOK
  <2>3. \A k \in Keys : attempt'[k].status = "flagged" <=> attempt[k].status = "flagged"
    BY <1>7, <1>11, <2>2
  <2> QED BY <2>3 DEF Waiting
<1>12. ASSUME as = "flagged"
       PROVE  Waiting' = Waiting \/ \E k \in Keys \ Confirmed : Waiting' = Waiting \cup {k}
  <2>1. CASE \A k \in Keys : attempt'[k].status = attempt[k].status
    BY <2>1 DEF Waiting
  <2>2. CASE \E k \in Keys : attempt'[k].status # attempt[k].status
    <3>1. /\ l \in Keys /\ attempt'[l].status = "flagged" /\ attempt[l].status # "confirmed"
          /\ \A k \in Keys : k # l => attempt'[k].status = attempt[k].status
      BY <1>7, <1>12, <2>2
    <3>2. l \in Keys \ Confirmed
      BY <3>1 DEF Confirmed
    <3>3. Waiting' = Waiting \cup {l}
      BY <3>1 DEF Waiting
    <3> QED BY <3>2, <3>3
  <2> QED BY <2>1, <2>2
<1> QED BY <1>6, <1>7, <1>8, <1>9, <1>10, <1>11, <1>12 DEF l, Held

\* An attempt is made where there was none.
LEMMA AttemptMade ==
  ASSUME TypeOK, UnusedIsClean, NEW k \in Keys, attempt[k].status = "none",
         NEW a, a \in [status: AttemptStatuses, gateway: Gateways \cup {""}, flagged: BOOLEAN, rank: Nat],
         a.status \in {"pending", "flagged"}, attempt' = [attempt EXCEPT ![k] = a]
  PROVE  /\ UnusedIsClean'
         /\ Confirmed' = Confirmed /\ k \notin Confirmed
         /\ k \notin Tests /\ k \notin Waiting
         /\ Waiting' = IF a.status = "flagged" THEN Waiting \cup {k} ELSE Waiting
         /\ Tests' = IF a.gateway = "dummy" THEN Tests \cup {k} ELSE Tests
<1>1. attempt'[k] = a /\ \A l \in Keys : l # k => attempt'[l] = attempt[l]
  BY DEF TypeOK
<1>2. attempt[k].gateway = "" /\ ~attempt[k].flagged
  BY DEF UnusedIsClean
<1>3. UnusedIsClean'
  BY <1>1 DEF UnusedIsClean
<1>4. Confirmed' = Confirmed /\ k \notin Confirmed /\ k \notin Tests /\ k \notin Waiting
  BY <1>1, <1>2 DEF Confirmed, Tests, Waiting
<1>5. Waiting' = IF a.status = "flagged" THEN Waiting \cup {k} ELSE Waiting
  BY <1>1, <1>2 DEF Waiting
<1>6. Tests' = IF a.gateway = "dummy" THEN Tests \cup {k} ELSE Tests
  BY <1>1, <1>2 DEF Tests
<1> QED BY <1>3, <1>4, <1>5, <1>6

LEMMA FlagAttemptContract ==
  ASSUME IInv, UnusedIsClean, NEW w \in Workers, FlagAttempt(w)
  PROVE  UnusedIsClean' /\ ContractStep
<1> DEFINE k == call[w].key
           a == [status |-> "flagged", gateway |-> call[w].gateway,
                 flagged |-> TRUE, rank |-> NextRank]
<1>1. TypeOK /\ k \in Keys /\ call[w].gateway \in Gateways /\ attempt[k].status = "none"
  BY CallFields DEF IInv, FlagAttempt, Proceeds, Initiating
<1>2. /\ a \in [status: AttemptStatuses, gateway: Gateways \cup {""}, flagged: BOOLEAN, rank: Nat]
      /\ a.status = "flagged" /\ a.flagged
  BY <1>1, NextRankType DEF AttemptStatuses
<1>3. attempt' = [attempt EXCEPT ![k] = a]
  BY DEF FlagAttempt
<1>4. UNCHANGED <<Reports, Recorded, credited, order.shipments > 0>>
  BY DEF FlagAttempt, provider, Reports, Recorded
<1> HIDE DEF k, a
<1> QED BY <1>1, <1>2, <1>3, <1>4, AttemptMade, HoldStep

\* A new attempt is neither confirmed nor held; the test gateway's is marked as such.
LEMMA InitiationMakes ==
  ASSUME IInv, UnusedIsClean, NEW w \in Workers, NEW s \in Outcomes,
         Initiating(w, "charged"), Initiated(w, s)
  PROVE  /\ UnusedIsClean' /\ Confirmed' = Confirmed /\ Waiting' = Waiting
         /\ call[w].key \in Keys /\ call[w].key \notin Tests
         /\ Tests' = IF call[w].gateway = "dummy" THEN Tests \cup {call[w].key} ELSE Tests
<1> DEFINE k == call[w].key
           a == [status |-> "pending", gateway |-> call[w].gateway,
                 flagged |-> FALSE, rank |-> NextRank]
<1>1. TypeOK /\ k \in Keys /\ call[w].gateway \in Gateways /\ attempt[k].status = "none"
  BY CallFields DEF IInv, Initiating, WorkerInv, KeyIsNew
<1>2. /\ a \in [status: AttemptStatuses, gateway: Gateways \cup {""}, flagged: BOOLEAN, rank: Nat]
      /\ a.status = "pending" /\ ~a.flagged /\ a.gateway = call[w].gateway
  BY <1>1, NextRankType DEF AttemptStatuses
<1>3. attempt' = [attempt EXCEPT ![k] = a]
  BY DEF Initiated
<1> HIDE DEF a
<1>4. /\ UnusedIsClean' /\ Confirmed' = Confirmed /\ k \notin Tests
      /\ Waiting' = IF a.status = "flagged" THEN Waiting \cup {k} ELSE Waiting
      /\ Tests' = IF a.gateway = "dummy" THEN Tests \cup {k} ELSE Tests
  BY <1>1, <1>2, <1>3, AttemptMade
<1> QED BY <1>1, <1>2, <1>4

LEMMA CommitContract ==
  ASSUME IInv, UnusedIsClean, NEW w \in Workers, CommitInitiation(w)
  PROVE  UnusedIsClean' /\ ContractStep
<1>1. "pending" \in Outcomes /\ Initiating(w, "charged") /\ Initiated(w, "pending")
      /\ call[w].gateway # "dummy"
  BY DEF Outcomes, CommitInitiation
<1>2. UNCHANGED <<Reports, Recorded, credited, order.shipments > 0>>
  BY DEF CommitInitiation, provider, Reports, Recorded
<1> QED BY <1>1, <1>2, InitiationMakes, SameContract

LEMMA DummyContract ==
  ASSUME IInv, UnusedIsClean, NEW w \in Workers, CommitDummyPayment(w)
  PROVE  UnusedIsClean' /\ ContractStep
<1>1. "succeeded" \in Outcomes /\ Initiating(w, "charged") /\ Initiated(w, "succeeded")
      /\ call[w].gateway = "dummy" /\ pc[w] = "charged"
  BY DEF Outcomes, CommitDummyPayment, Initiating
<1>2. call[w].ref \in Refs
  BY <1>1, InitiatedFacts
<1>3. Pays(call[w].ref)
  BY <1>1, <1>2, SuccessPays DEF CommitDummyPayment
<1>4. Reports' = Reports
  BY DEF CommitDummyPayment, provider, Reports
<1> QED BY <1>1, <1>2, <1>3, <1>4, InitiationMakes, PayTestStep

\* A success is applied to a charge whose success was reported, and confirms an attempt
\* that is not held.
LEMMA SuccessContract ==
  ASSUME IInv, UnusedIsClean, NEW w \in Workers, ApplySuccess(w)
  PROVE  UnusedIsClean' /\ ContractStep
<1> DEFINE e == call[w].event
           r == sent[e].ref
           l == Latest(local[w].key)
<1>1. /\ Handling(w) /\ ~Held(w) /\ ~attempt[l].flagged /\ sent[e].outcome = "succeeded"
      /\ Conclude(w, "processed", "confirmed") /\ "processed" \in Final
      /\ Succeed(w, r, local[w].recorded)
  BY DEF ApplySuccess, Handles, Held, Final
<1>2. e \in EventIds /\ sent[e] \in Message /\ sent[e] # NoEvent
  BY <1>1, HandledIntent, NoEventAssumption DEF Message
<1>3. r \in Refs /\ r \in Reports
  BY <1>1, <1>2 DEF Message, Reports
<1>4. pc[w] = "locked" /\ local[w].recorded = (payments[r] > 0)
  BY <1>1 DEF Handling, IInv, WorkerInv, HoldsOrder
<1> HIDE DEF r, e
<1>5. Pays(r)
  BY <1>1, <1>3, <1>4, SuccessPays
<1>6. /\ UnusedIsClean' /\ Reports' = Reports /\ Waiting' = Waiting /\ Tests' = Tests
      /\ \A k \in Keys : attempt'[k].status = attempt[k].status
           \/ (attempt'[k].status = "confirmed" /\ k = l)
  BY <1>1, ConclusionMoves
<1> HIDE DEF l
<1>7. Confirmed' = Confirmed \/ \E k \in Keys \ Waiting : Confirmed' = Confirmed \cup {k}
  <2>1. CASE \A k \in Keys : attempt'[k].status = attempt[k].status
    BY <2>1 DEF Confirmed
  <2>2. CASE \E k \in Keys : attempt'[k].status # attempt[k].status
    <3>1. l \in Keys /\ attempt'[l].status = "confirmed"
          /\ \A k \in Keys : k # l => attempt'[k].status = attempt[k].status
      BY <1>6, <2>2
    <3>2. l \in Keys \ Waiting
      <4>1. FlagsOK
        BY DEF IInv, TablesInv
      <4>2. attempt[l].status # "flagged"
        BY <1>1, <3>1, <4>1 DEF FlagsOK
      <4> QED BY <3>1, <4>2 DEF Waiting
    <3>3. Confirmed' = Confirmed \cup {l}
      BY <3>1 DEF Confirmed
    <3> QED BY <3>2, <3>3
  <2> QED BY <2>1, <2>2
<1> QED BY <1>3, <1>5, <1>6, <1>7, ApplyStep

\* The other conclusions record nothing, ship nothing and confirm nothing.
LEMMA OtherConclusions ==
  ASSUME IInv, UnusedIsClean, NEW w \in Workers, HoldFlagged(w) \/ ApplyFailure(w) \/ ApplyPending(w)
  PROVE  UnusedIsClean' /\ ContractStep
<1>1. order' = order \/ order' = [order EXCEPT !.payment = "failed"]
  BY DEF HoldFlagged, ApplyFailure, ApplyPending
<1>2. order'.shipments = order.shipments
  BY <1>1 DEF IInv, TypeOK, Order
<1>3. UNCHANGED <<Recorded, credited, order.shipments > 0>>
  BY <1>2 DEF HoldFlagged, ApplyFailure, ApplyPending, Recorded
<1>4. "processed" \in Final /\ "ignored" \in Final
  BY DEF Final
<1>5. CASE HoldFlagged(w)
  <2>1. Handling(w) /\ Conclude(w, "ignored", "flagged")
    BY <1>5 DEF HoldFlagged
  <2>2. /\ UnusedIsClean' /\ Reports' = Reports /\ Tests' = Tests /\ Confirmed' = Confirmed
        /\ Waiting' = Waiting \/ \E k \in Keys \ Confirmed : Waiting' = Waiting \cup {k}
    BY <1>4, <2>1, ConclusionMoves
  <2>3. CASE Waiting' = Waiting
    BY <1>3, <2>2, <2>3, SameContract
  <2>4. CASE \E k \in Keys \ Confirmed : Waiting' = Waiting \cup {k}
    <3>1. PICK k \in Keys \ Confirmed : Waiting' = Waiting \cup {k}
      BY <2>4
    <3> QED BY <1>3, <2>2, <3>1, HoldStep
  <2> QED BY <2>2, <2>3, <2>4
<1>6. CASE ApplyFailure(w) \/ ApplyPending(w)
  <2>1. /\ Handling(w) /\ ~Held(w)
        /\ Conclude(w, "processed", "failed") \/ Conclude(w, "processed", "pending")
    BY <1>6 DEF ApplyFailure, ApplyPending, Handles
  <2>2. UnusedIsClean' /\ UNCHANGED <<Reports, Tests, Confirmed, Waiting>>
    BY <1>4, <2>1, ConclusionMoves
  <2> QED BY <1>3, <2>2, SameContract
<1> QED BY <1>5, <1>6

\* A reviewer's decision changes the status of one attempt that was made.
LEMMA ReviewContract ==
  ASSUME IInv, UnusedIsClean, NEW k \in Keys, attempt[k].status # "none",
         NEW s \in {"pending", "failed"}, attempt' = [attempt EXCEPT ![k].status = s],
         UNCHANGED <<order, payments, credited, sent>>
  PROVE  UnusedIsClean' /\ ContractStep
<1>1. /\ attempt'[k].status = s /\ attempt'[k].gateway = attempt[k].gateway
      /\ attempt'[k].flagged = attempt[k].flagged
      /\ \A l \in Keys : l # k => attempt'[l] = attempt[l]
  BY DEF IInv, TypeOK
<1>2. UnusedIsClean'
  BY <1>1 DEF UnusedIsClean
<1>3. Confirmed' = Confirmed \ {k}
  BY <1>1 DEF Confirmed
<1>4. Waiting' = Waiting \ {k} /\ Tests' = Tests
  BY <1>1 DEF Waiting, Tests
<1>5. UNCHANGED <<Reports, Recorded, credited, order.shipments > 0>>
  BY DEF Reports, Recorded
<1> QED BY <1>2, <1>3, <1>4, <1>5, ReviewStep

\* The provider reports a success, or something else.
LEMMA SendContract ==
  ASSUME IInv, UnusedIsClean, NEW e \in EventIds, NEW r \in Refs, NEW o \in Reported, Send(e, r, o)
  PROVE  UnusedIsClean' /\ ContractStep
<1>1. UNCHANGED <<attempt, payments, credited, order>>
  BY DEF Send, tables
<1>2. UnusedIsClean' /\ UNCHANGED <<Recorded, credited, order.shipments > 0, Confirmed, Waiting, Tests>>
  BY <1>1 DEF UnusedIsClean, Recorded, Confirmed, Waiting, Tests
<1>3. /\ sent[e] = NoEvent /\ sent'[e] = [ref |-> r, outcome |-> o]
      /\ \A d \in EventIds : d # e => sent'[d] = sent[d]
  BY DEF Send, IInv, TypeOK
<1>4. sent'[e] # NoEvent /\ sent'[e].ref = r /\ sent'[e].outcome = o
  BY <1>3, NoEventAssumption, ReportedAssumption
<1>5. CASE o = "succeeded"
  <2>1. Reports' = Reports \cup {r}
    BY <1>3, <1>4, <1>5 DEF Reports
  <2> QED BY <1>2, <2>1, ReportStep
<1>6. CASE o # "succeeded"
  <2>1. Reports' = Reports
    BY <1>3, <1>4, <1>6 DEF Reports
  <2> QED BY <1>2, <2>1, SameContract
<1> QED BY <1>5, <1>6

\* The steps that write none of it.
LEMMA OthersContract ==
  ASSUME UnusedIsClean, UNCHANGED <<attempt, payments, credited, sent>>,
         order'.shipments = order.shipments
  PROVE  UnusedIsClean' /\ ContractStep
<1>1. UNCHANGED <<Reports, Recorded, credited, order.shipments > 0, Confirmed, Waiting, Tests>>
  BY DEF Reports, Recorded, Confirmed, Waiting, Tests
<1> QED BY <1>1, SameContract DEF UnusedIsClean

LEMMA NextContract ==
  ASSUME IInv, UnusedIsClean, [Next]_vars
  PROVE  UnusedIsClean' /\ ContractStep
<1>1. ASSUME NEW w \in Workers, Handle(w) PROVE UnusedIsClean' /\ ContractStep
  <2>1. CASE IntentNotFound(w) \/ AlreadyHandled(w) \/ LockEvent(w) \/ LockOrder(w) \/ RefuseSuccess(w)
    <3>1. UNCHANGED <<attempt, payments, credited, sent, order>>
      BY <2>1 DEF IntentNotFound, AlreadyHandled, LockEvent, LockOrder, RefuseSuccess,
         NoEffect, Acknowledge, Step, tables, provider
    <3> QED BY <3>1, OthersContract
  <2> QED BY <1>1, <2>1, SuccessContract, OtherConclusions DEF Handle
<1>2. ASSUME NEW w \in Workers,
             \/ Abort(w) \/ StartLifecycle(w) \/ Repeat(w) \/ Charge(w)
             \/ \E k \in Keys, g \in Gateways : Initiate(w, k, g)
             \/ \E k \in Keys : StartApprove(w, k)
             \/ \E e \in EventIds : Deliver(w, e)
      PROVE  UnusedIsClean' /\ ContractStep
  <2>1. UNCHANGED <<attempt, payments, credited, sent, order>>
    BY <1>2 DEF Abort, StartLifecycle, Repeat, Charge, Initiate, StartApprove, Deliver,
       NoEffect, Begin, Step, tables, provider
  <2> QED BY <2>1, OthersContract
<1>3. ASSUME NEW w \in Workers, FinishLifecycle(w) PROVE UnusedIsClean' /\ ContractStep
  <2>1. UNCHANGED <<attempt, payments, credited, sent>>
        /\ order' = [order EXCEPT !.status = "paid"]
    BY <1>3 DEF FinishLifecycle, provider
  <2>2. order'.shipments = order.shipments
    BY <2>1 DEF IInv, TypeOK, Order
  <2> QED BY <2>1, <2>2, OthersContract
<1>4. CASE ApproveBnpl
  <2>1. UNCHANGED <<attempt, payments, credited, sent>>
        /\ order' = [order EXCEPT !.status = "processing", !.payment = "confirmed"]
    BY <1>4 DEF ApproveBnpl, provider
  <2>2. order'.shipments = order.shipments
    BY <2>1 DEF IInv, TypeOK, Order
  <2> QED BY <2>1, <2>2, OthersContract
<1>5. ASSUME NEW k \in Keys, Reject(k) PROVE UnusedIsClean' /\ ContractStep
  BY <1>5, ReviewContract DEF Reject, provider
<1>6. ASSUME NEW w \in Workers, FinishApprove(w) PROVE UnusedIsClean' /\ ContractStep
  <2>1. call[w].key \in Keys /\ attempt[call[w].key].status # "none"
    BY <1>6, CallFields DEF FinishApprove, IInv, WorkerInv, KeyIsKnown
  <2> QED BY <1>6, <2>1, ReviewContract DEF FinishApprove, provider
<1>7. CASE UNCHANGED vars
  BY <1>7, OthersContract DEF vars, tables, provider
<1> QED BY <1>1, <1>2, <1>3, <1>4, <1>5, <1>6, <1>7, SendContract, FlagAttemptContract,
        CommitContract, DummyContract DEF Next

LEMMA InitContract == Init => Contract!Init /\ UnusedIsClean
<1> SUFFICES ASSUME Init PROVE Contract!Init /\ UnusedIsClean
  OBVIOUS
<1>1. UnusedIsClean
  BY DEF Init, UnusedIsClean
<1>2. order.shipments = 0
  BY DEF Init, NewOrder
<1>3. /\ \A e \in EventIds : sent[e] = NoEvent
      /\ \A r \in Refs : payments[r] = 0
  BY DEF Init
<1>4. \A k \in Keys : attempt[k].status = "none" /\ attempt[k].gateway = "" /\ attempt[k].flagged = FALSE
  BY DEF Init
<1>5. Reports = {}
  BY <1>3 DEF Reports
<1>6. Recorded = {}
  BY <1>3 DEF Recorded
<1>7. Confirmed = {}
  BY <1>4 DEF Confirmed
<1>8. Waiting = {}
  BY <1>4 DEF Waiting
<1>9. Tests = {}
  BY <1>4 DEF Tests
<1>10. (order.shipments > 0) = FALSE
  <2>1. ~(order.shipments > 0)
    BY <1>2
  <2> QED BY <2>1
<1>11. credited = FALSE
  BY DEF Init
<1> QED
  BY <1>1, <1>5, <1>6, <1>7, <1>8, <1>9, <1>10, <1>11
  DEF Contract!Init, Reports, Recorded, Confirmed, Waiting, Tests

\* Whatever threads, providers, reviewers and crashes do: money is recorded for charges
\* whose success was reported, or once for a key of the test gateway, together with the
\* credit of the order, for good; and only what was recorded is shown confirmed.
THEOREM PaymentsImplementContract == Spec => KeepsContract
<1>1. UnusedIsClean /\ IInv /\ [Next]_vars =>
        UnusedIsClean' /\ [Contract!Next]_Contract!contractVars
  BY NextContract DEF ContractStep
<1> QED BY <1>1, InitContract, Invariance, PTL DEF Spec, KeepsContract, Contract!Spec

-----------------------------------------------------------------------------
(* Flagged attempts wait for their review *)

\* A step that processes no event, and releases no attempt that waits.
LEMMA NothingReleased ==
  ASSUME \A e \in EventIds : event'[e] = event[e] \/ event'[e] = "ignored",
         Waiting \subseteq Waiting'
  PROVE  ReviewReleases
BY DEF ReviewReleases

\* An attempt that waits is flagged: a webhook that goes on has found none that waits.
LEMMA ConclusionReleases ==
  ASSUME IInv, NEW w \in Workers, ApplySuccess(w) \/ ApplyFailure(w) \/ ApplyPending(w)
  PROVE  ReviewReleases
<1> DEFINE e == call[w].event
           l == Latest(local[w].key)
<1>1. /\ Handling(w) /\ ~attempt[l].flagged
      /\ \/ Conclude(w, "processed", "confirmed")
         \/ Conclude(w, "processed", "failed")
         \/ Conclude(w, "processed", "pending")
      /\ "processed" \in Final
  BY DEF ApplySuccess, ApplyFailure, ApplyPending, Handles, Held, Final
<1>2. local[w].key \in Keys /\ intent[local[w].key].ref = sent[e].ref
  BY <1>1, HandledIntent
<1>3. FlagsOK /\ event \in [EventIds -> EventStatuses]
  BY DEF IInv, TablesInv, TypeOK
<1>4. \A k \in Keys : attempt'[k].status = attempt[k].status \/ k = l
  BY <1>1, ConclusionMoves
<1>5. \A d \in EventIds : d # e => event'[d] = event[d]
  BY <1>1, <1>3 DEF Conclude
<1>6. l \notin Waiting
  BY <1>1, <1>3 DEF Waiting, FlagsOK
<1> HIDE DEF e, l
<1>7. Waiting \subseteq Waiting'
  BY <1>4, <1>6 DEF Waiting
<1>8. \A d \in EventIds : event[d] # "processed" /\ event'[d] = "processed" =>
        \E k \in Keys : intent[k].ref = sent[d].ref /\ Latest(k) \notin Waiting
  BY <1>2, <1>5, <1>6 DEF l
<1> QED BY <1>7, <1>8 DEF ReviewReleases

\* A webhook that holds a flagged attempt ignores its event.
LEMMA HoldReleases ==
  ASSUME IInv, NEW w \in Workers, HoldFlagged(w)
  PROVE  ReviewReleases
<1>1. Handling(w) /\ Conclude(w, "ignored", "flagged") /\ "ignored" \in Final
  BY DEF HoldFlagged, Final
<1>2. \A e \in EventIds : event'[e] = event[e] \/ event'[e] = "ignored"
  BY <1>1 DEF Conclude, IInv, TypeOK
<1>3. Waiting \subseteq Waiting'
  BY <1>1, ConclusionMoves
<1> QED BY <1>2, <1>3, NothingReleased

\* An attempt that is made did not wait.
LEMMA NewReleases ==
  ASSUME IInv, event' = event,
         \A k \in Keys : attempt[k].status # "none" => attempt'[k] = attempt[k]
  PROVE  ReviewReleases
<1>1. Waiting \subseteq Waiting'
  BY DEF Waiting
<1> QED BY <1>1, NothingReleased

LEMMA StepReleases == IInv /\ [Next]_vars => [ReviewReleases]_vars
<1> SUFFICES ASSUME IInv, Next PROVE ReviewReleases
  BY DEF vars
<1>1. TypeOK
  BY DEF IInv
<1>2. ASSUME NEW w \in Workers, FlagAttempt(w) PROVE ReviewReleases
  <2>1. attempt[call[w].key].status = "none" /\ event' = event
    BY <1>2 DEF FlagAttempt, Proceeds
  <2>2. \A k \in Keys : attempt[k].status # "none" => attempt'[k] = attempt[k]
    BY <1>1, <1>2, <2>1 DEF FlagAttempt, TypeOK
  <2> QED BY <2>1, <2>2, NewReleases
<1>3. ASSUME NEW w \in Workers, CommitInitiation(w) \/ CommitDummyPayment(w)
      PROVE  ReviewReleases
  <2>1. /\ "pending" \in Outcomes /\ "succeeded" \in Outcomes /\ event' = event
        /\ Initiating(w, "charged")
        /\ Initiated(w, "pending") \/ Initiated(w, "succeeded")
    BY <1>3 DEF CommitInitiation, CommitDummyPayment, Outcomes, Initiating
  <2>2. \A k \in Keys : attempt[k].status # "none" => attempt'[k] = attempt[k]
    BY <1>3, <2>1, InitiatedFacts DEF CommitInitiation, CommitDummyPayment
  <2> QED BY <2>1, <2>2, NewReleases
<1>4. CASE UNCHANGED <<order, intent, event, payments, credited>>
  BY <1>4 DEF ReviewReleases
<1>5. ASSUME NEW w \in Workers, FinishApprove(w)
      PROVE  UNCHANGED <<order, intent, event, payments, credited>>
  BY <1>5 DEF FinishApprove
<1>6. ASSUME NEW k \in Keys, Reject(k)
      PROVE  UNCHANGED <<order, intent, event, payments, credited>>
  BY <1>6 DEF Reject
<1>7. ASSUME UNCHANGED <<attempt, event>> PROVE ReviewReleases
  BY <1>7, NewReleases
<1>8. ASSUME NEW w \in Workers,
             \/ IntentNotFound(w) \/ AlreadyHandled(w) \/ LockEvent(w) \/ LockOrder(w)
             \/ RefuseSuccess(w) \/ Abort(w) \/ Repeat(w)
             \/ StartLifecycle(w) \/ FinishLifecycle(w) \/ Charge(w)
             \/ \E k \in Keys, g \in Gateways : Initiate(w, k, g)
             \/ \E k \in Keys : StartApprove(w, k)
             \/ \E e \in EventIds : Deliver(w, e)
      PROVE  UNCHANGED <<attempt, event>>
  BY <1>8 DEF IntentNotFound, AlreadyHandled, LockEvent, LockOrder, RefuseSuccess, NoEffect,
     Abort, Repeat, StartLifecycle, FinishLifecycle, Charge, Initiate, StartApprove, Deliver,
     Begin, Step, tables
<1>9. ApproveBnpl \/ (\E e \in EventIds, r \in Refs, o \in Reported : Send(e, r, o))
        => UNCHANGED <<attempt, event>>
  BY DEF ApproveBnpl, Send, tables
<1> QED BY <1>2, <1>3, <1>4, <1>5, <1>6, <1>7, <1>8, <1>9, ConclusionReleases, HoldReleases
        DEF Next, Handle

\* An attempt that was flagged is released by a reviewer only, and until then no event of
\* its provider is applied, for any threads, keys, charges and events.
THEOREM FlaggedAttemptsAreHeld == Spec => FlaggedIsHeld
BY Invariance, StepReleases, PTL DEF Spec, FlaggedIsHeld
=============================================================================
