---------------------------- MODULE EmailProofs ----------------------------
(***************************************************************************)
(* What EmailDelivery guarantees for any processes, keys and number of     *)
(* retries.  The argument follows an e-mail: the web process that recorded *)
(* it carries it, and so does at most one task, which is in the queue or   *)
(* with a worker; each of the two may still make a gateway accept once.    *)
(***************************************************************************)
EXTENDS EmailDelivery, TLAPS

Working == {"enqueue", "read", "mark", "send", "sent", "failed", "retry"}

\* p has e-mail k in its hands, or the queue has.
Carries(p, k) == pc[p] \in Working /\ job[p].key = k
Queued(k) == \E t \in queue : t.key = k

\* What the web process, or the task, may still have sent.
WebPending(k) == \E w \in Web : Carries(w, k) /\ pc[w] # "sent"
TaskPending(k) == Queued(k) \/ \E v \in Workers : Carries(v, k) /\ pc[v] # "sent"

One(condition) == IF condition THEN 1 ELSE 0

-----------------------------------------------------------------------------
(* The inductive invariant *)

\* Only a web process records and hands over, only a worker retries.
Placed ==
  /\ \A w \in Web : pc[w] # "retry"
  /\ \A v \in Workers : pc[v] \notin {"refuse", "record", "enqueue"}
  /\ \A p \in Processes : pc[p] # "idle" => job[p] \in Tasks

\* Nobody carries what was not recorded.
Fresh ==
  \A k \in Keys : log[k] = "none" =>
    /\ accepted[k] = 0
    /\ k \notin doubled
    /\ ~Queued(k)
    /\ \A p \in Processes : ~Carries(p, k)

OneWebProcess ==
  \A k \in Keys : \A w, x \in Web : Carries(w, k) /\ Carries(x, k) => w = x

OneTask ==
  \A k \in Keys :
    /\ \A v, x \in Workers : Carries(v, k) /\ Carries(x, k) => v = x
    /\ \A t, u \in queue : t.key = k /\ u.key = k => t = u
    /\ \A v \in Workers : Carries(v, k) => ~Queued(k)

\* Until the broker's answer is lost there is the one or the other.
Apart ==
  /\ \A k \in Keys : k \notin doubled =>
       \A w \in Web : Carries(w, k) => ~Queued(k) /\ \A v \in Workers : ~Carries(v, k)
  /\ \A w \in Web : pc[w] = "enqueue" => job[w].key \notin doubled

Budget ==
  \A k \in Keys :
    accepted[k] + One(WebPending(k)) + One(TaskPending(k))
      <= 1 + unconfirmed[k] + One(k \in doubled)

\* What is recorded as sent was accepted, and nobody carries it any more, a second task
\* and the sender whose mark_sent raised after its commit excepted.
SentIsAccepted ==
  /\ \A k \in Keys : log[k] = "sent" => accepted[k] > 0
  /\ \A p \in Processes : pc[p] = "sent" => accepted[job[p].key] > 0

SentIsLast ==
  \A k \in Keys : log[k] = "sent" /\ k \notin doubled \cup disputed =>
    ~Queued(k) /\ \A p \in Processes : ~Carries(p, k)

IInv ==
  /\ TypeOK
  /\ Placed
  /\ Fresh
  /\ OneWebProcess
  /\ OneTask
  /\ Apart
  /\ Budget
  /\ SentIsAccepted
  /\ SentIsLast

-----------------------------------------------------------------------------
(* Every step keeps the invariant *)

LEMMA SendEmailKeeps ==
  ASSUME NEW w \in Web, NEW k \in Keys, IInv, SendEmail(w, k)
  PROVE  IInv'
<1>1. TypeOK'
  BY MaxRetriesAssumption DEF IInv, TypeOK, Tasks, Processes, SendEmail, Goto, history
<1>2. Placed'
  BY ProcessesAssumption, MaxRetriesAssumption DEF IInv, TypeOK, Placed, Tasks, SendEmail,
       Goto, history
<1>3. Fresh'
  BY DEF IInv, TypeOK, Fresh, Carries, Queued, Working, SendEmail, Goto, history
<1>4. OneWebProcess'
  BY DEF IInv, TypeOK, OneWebProcess, Carries, Working, SendEmail, Goto, history
<1>5. OneTask'
  BY DEF IInv, TypeOK, OneTask, Carries, Queued, Working, SendEmail, Goto, history
<1>6. Apart'
  BY DEF IInv, TypeOK, Apart, Carries, Queued, Working, SendEmail, Goto, history
<1>7. Budget'
  BY DEF IInv, TypeOK, Budget, One, WebPending, TaskPending, Carries, Queued, Working,
       SendEmail, Goto, history
<1>8. SentIsAccepted'
  BY DEF IInv, TypeOK, SentIsAccepted, SendEmail, Goto, history
<1>9. SentIsLast'
  BY DEF IInv, TypeOK, SentIsLast, Carries, Queued, Working, SendEmail, Goto, history
<1> QED  BY <1>1, <1>2, <1>3, <1>4, <1>5, <1>6, <1>7, <1>8, <1>9 DEF IInv

LEMMA RecordRefusedKeeps ==
  ASSUME NEW w \in Web, IInv, RecordRefused(w)
  PROVE  IInv'
<1>1. TypeOK'
  BY DEF IInv, TypeOK, Statuses, RecordRefused, Done, Goto, history
<1>2. Placed'
  BY DEF IInv, TypeOK, Placed, RecordRefused, Done, Goto, history
<1>3. Fresh'
  BY DEF IInv, TypeOK, Fresh, Carries, Queued, Working, RecordRefused, Done, Goto, history
<1>4. OneWebProcess'
  BY DEF IInv, TypeOK, OneWebProcess, Carries, Working, RecordRefused, Done, Goto, history
<1>5. OneTask'
  BY DEF IInv, TypeOK, OneTask, Carries, Queued, Working, RecordRefused, Done, Goto, history
<1>6. Apart'
  BY DEF IInv, TypeOK, Apart, Carries, Queued, Working, RecordRefused, Done, Goto, history
<1>7. Budget'
  BY DEF IInv, TypeOK, Budget, One, WebPending, TaskPending, Carries, Queued, Working,
       RecordRefused, Done, Goto, history
<1>8. SentIsAccepted'
  BY DEF IInv, TypeOK, SentIsAccepted, RecordRefused, Done, Goto, history
<1>9. SentIsLast'
  BY DEF IInv, TypeOK, SentIsLast, Carries, Queued, Working, RecordRefused, Done, Goto, history
<1> QED  BY <1>1, <1>2, <1>3, <1>4, <1>5, <1>6, <1>7, <1>8, <1>9 DEF IInv

LEMMA RecordKeeps ==
  ASSUME NEW w \in Web, IInv, Record(w)
  PROVE  IInv'
<1>1. TypeOK'
  BY DEF IInv, TypeOK, Statuses, Record, Done, Goto, history
<1>2. Placed'
  BY DEF IInv, TypeOK, Placed, Processes, Record, Done, Goto, history
<1>3. Fresh'
  BY DEF IInv, TypeOK, Fresh, Carries, Queued, Working, Record, Done, Goto, history
<1>4. OneWebProcess'
  BY DEF IInv, TypeOK, OneWebProcess, Fresh, Carries, Working, Processes, Record, Done,
       Goto, Unknown, history
<1>5. OneTask'
  BY DEF IInv, TypeOK, Placed, OneTask, Carries, Queued, Processes, Record, Done, Goto, history
<1>6. Apart'
  BY DEF IInv, TypeOK, Placed, Apart, Fresh, Carries, Queued, Working, Processes, Record,
       Done, Goto, Unknown, history
<1>7. Budget'
  BY DEF IInv, TypeOK, Placed, Fresh, Budget, One, WebPending, TaskPending, Carries, Queued,
       Working, Processes, Record, Done, Goto, Unknown, history
<1>8. SentIsAccepted'
  BY DEF IInv, TypeOK, SentIsAccepted, Record, Done, Goto, history
<1>9. SentIsLast'
  BY DEF IInv, TypeOK, SentIsLast, Carries, Queued, Working, Record, Done, Goto, history
<1> QED  BY <1>1, <1>2, <1>3, <1>4, <1>5, <1>6, <1>7, <1>8, <1>9 DEF IInv

LEMMA EnqueueKeeps ==
  ASSUME NEW w \in Web, IInv, Enqueue(w)
  PROVE  IInv'
<1>1. TypeOK'
  BY DEF IInv, TypeOK, Placed, Processes, Enqueue, Done, Goto, history
<1>2. Placed'
  BY DEF IInv, TypeOK, Placed, Enqueue, Done, Goto, history
<1>3. Fresh'
  BY DEF IInv, TypeOK, Fresh, Carries, Queued, Working, Processes, Enqueue, Done, Goto, history
<1>4. OneWebProcess'
  BY DEF IInv, TypeOK, OneWebProcess, Carries, Working, Enqueue, Done, Goto, history
<1>5. OneTask'
  BY DEF IInv, TypeOK, OneTask, Apart, Carries, Queued, Working, Enqueue, Done, Goto, history
<1>6. Apart'
  BY DEF IInv, TypeOK, Apart, OneWebProcess, Carries, Queued, Working, Processes, Enqueue,
       Done, Goto, history
<1>7. Budget'
  BY DEF IInv, TypeOK, OneWebProcess, Budget, One, WebPending, TaskPending, Carries, Queued,
       Working, Processes, Enqueue, Done, Goto, history
<1>8. SentIsAccepted'
  BY DEF IInv, TypeOK, SentIsAccepted, Enqueue, Done, Goto, history
<1>9. SentIsLast'
  BY DEF IInv, TypeOK, SentIsLast, Carries, Queued, Working, Processes, Enqueue, Done, Goto,
       history
<1> QED  BY <1>1, <1>2, <1>3, <1>4, <1>5, <1>6, <1>7, <1>8, <1>9 DEF IInv

LEMMA FallBackKeeps ==
  ASSUME NEW w \in Web, NEW took \in BOOLEAN, IInv, FallBack(w, took)
  PROVE  IInv'
<1>1. TypeOK'
  BY DEF IInv, TypeOK, Placed, Tasks, Processes, FallBack, Goto, history
<1>2. Placed'
  BY DEF IInv, TypeOK, Placed, FallBack, Goto, history
<1>3. Fresh'
  BY DEF IInv, TypeOK, Fresh, Carries, Queued, Working, Processes, FallBack, Goto, history
<1>4. OneWebProcess'
  BY DEF IInv, TypeOK, OneWebProcess, Carries, Working, FallBack, Goto, history
<1>5. OneTask'
  BY DEF IInv, TypeOK, OneTask, Apart, Carries, Queued, Working, FallBack, Goto, history
<1>6. Apart'
  BY DEF IInv, TypeOK, Placed, Apart, OneWebProcess, Carries, Queued, Working, Tasks,
       Processes, FallBack, Goto, history
<1>7. Budget'
  BY DEF IInv, TypeOK, Apart, Budget, One, WebPending, TaskPending, Carries, Queued,
       Working, FallBack, Goto, history
<1>8. SentIsAccepted'
  BY DEF IInv, TypeOK, SentIsAccepted, FallBack, Goto, history
<1>9. SentIsLast'
  BY DEF IInv, TypeOK, SentIsLast, Carries, Queued, Working, FallBack, Goto, history
<1> QED  BY <1>1, <1>2, <1>3, <1>4, <1>5, <1>6, <1>7, <1>8, <1>9 DEF IInv

LEMMA ReadLogKeeps ==
  ASSUME NEW p \in Processes, IInv, ReadLog(p)
  PROVE  IInv'
<1>1. TypeOK'
  BY DEF IInv, TypeOK, ReadLog, Done, Goto, history
<1>2. Placed'
  BY DEF IInv, TypeOK, Placed, Processes, ReadLog, Done, Goto, history
<1>3. Fresh'
  BY DEF IInv, TypeOK, Fresh, Carries, Queued, Working, ReadLog, Done, Goto, history
<1>4. OneWebProcess'
  BY DEF IInv, TypeOK, OneWebProcess, Carries, Working, Processes, ReadLog, Done, Goto, history
<1>5. OneTask'
  BY DEF IInv, TypeOK, OneTask, Carries, Queued, Working, Processes, ReadLog, Done, Goto,
       history
<1>6. Apart'
  BY DEF IInv, TypeOK, Apart, Carries, Queued, Working, Processes, ReadLog, Done, Goto, history
<1>7. Budget'
  BY DEF IInv, TypeOK, Budget, One, WebPending, TaskPending, Carries, Queued, Working,
       Processes, ReadLog, Done, Goto, history
<1>8. SentIsAccepted'
  BY DEF IInv, TypeOK, SentIsAccepted, ReadLog, Done, Goto, history
<1>9. SentIsLast'
  BY DEF IInv, TypeOK, SentIsLast, Carries, Queued, Working, ReadLog, Done, Goto, history
<1> QED  BY <1>1, <1>2, <1>3, <1>4, <1>5, <1>6, <1>7, <1>8, <1>9 DEF IInv

LEMMA MarkSendingKeeps ==
  ASSUME NEW p \in Processes, IInv, MarkSending(p)
  PROVE  IInv'
<1>1. TypeOK'
  BY DEF IInv, TypeOK, Statuses, MarkSending, Goto, history
<1>2. Placed'
  BY DEF IInv, TypeOK, Placed, MarkSending, Goto, history
<1>3. Fresh'
  BY DEF IInv, TypeOK, Fresh, Carries, Queued, Working, MarkSending, Goto, history
<1>4. OneWebProcess'
  BY DEF IInv, TypeOK, OneWebProcess, Carries, Working, MarkSending, Goto, history
<1>5. OneTask'
  BY DEF IInv, TypeOK, OneTask, Carries, Queued, Working, MarkSending, Goto, history
<1>6. Apart'
  BY DEF IInv, TypeOK, Apart, Carries, Queued, Working, MarkSending, Goto, history
<1>7. Budget'
  BY DEF IInv, TypeOK, Budget, One, WebPending, TaskPending, Carries, Queued, Working,
       MarkSending, Goto, history
<1>8. SentIsAccepted'
  BY DEF IInv, TypeOK, SentIsAccepted, MarkSending, Goto, history
<1>9. SentIsLast'
  BY DEF IInv, TypeOK, SentIsLast, Carries, Queued, Working, MarkSending, Goto, history
<1> QED  BY <1>1, <1>2, <1>3, <1>4, <1>5, <1>6, <1>7, <1>8, <1>9 DEF IInv

LEMMA RaisesKeeps ==
  ASSUME NEW p \in Processes, IInv, Raises(p)
  PROVE  IInv'
<1>1. TypeOK'
  BY DEF IInv, TypeOK, Placed, Tasks, Raises, Goto, history
<1>2. Placed'
  BY DEF IInv, TypeOK, Placed, Raises, Goto, history
<1>3. Fresh'
  BY DEF IInv, TypeOK, Fresh, Carries, Queued, Working, Raises, Goto, history
<1>4. OneWebProcess'
  BY DEF IInv, TypeOK, OneWebProcess, Carries, Working, Raises, Goto, history
<1>5. OneTask'
  BY DEF IInv, TypeOK, OneTask, Carries, Queued, Working, Raises, Goto, history
<1>6. Apart'
  BY DEF IInv, TypeOK, Apart, Carries, Queued, Working, Raises, Goto, history
<1>7. Budget'
  BY DEF IInv, TypeOK, Budget, One, WebPending, TaskPending, Carries, Queued, Working,
       Raises, Goto, history
<1>8. SentIsAccepted'
  BY DEF IInv, TypeOK, SentIsAccepted, Raises, Goto, history
<1>9. SentIsLast'
  BY DEF IInv, TypeOK, SentIsLast, Carries, Queued, Working, Raises, Goto, history
<1> QED  BY <1>1, <1>2, <1>3, <1>4, <1>5, <1>6, <1>7, <1>8, <1>9 DEF IInv

LEMMA SendKeeps ==
  ASSUME NEW p \in Processes, IInv, Send(p)
  PROVE  IInv'
<1>1. TypeOK'
  BY DEF IInv, TypeOK, Placed, Tasks, Send, Accepts, Goto, history
<1>2. Placed'
  BY DEF IInv, TypeOK, Placed, Send, Accepts, Goto, history
<1>3. Fresh'
  BY DEF IInv, TypeOK, Fresh, Carries, Queued, Working, Send, Accepts, Goto, history
<1>4. OneWebProcess'
  BY DEF IInv, TypeOK, OneWebProcess, Carries, Working, Send, Accepts, Goto, history
<1>5. OneTask'
  BY DEF IInv, TypeOK, OneTask, Carries, Queued, Working, Send, Accepts, Goto, history
<1>6. Apart'
  BY DEF IInv, TypeOK, Apart, Carries, Queued, Working, Send, Accepts, Goto, history
<1>7. Budget'
  BY DEF IInv, TypeOK, OneWebProcess, OneTask, Budget, One, WebPending, TaskPending,
       Carries, Queued, Working, Processes, Send, Accepts, Goto, history
<1>8. SentIsAccepted'
  BY DEF IInv, TypeOK, Placed, SentIsAccepted, Tasks, Send, Accepts, Goto, history
<1>9. SentIsLast'
  BY DEF IInv, TypeOK, SentIsLast, Carries, Queued, Working, Send, Accepts, Goto, history
<1> QED  BY <1>1, <1>2, <1>3, <1>4, <1>5, <1>6, <1>7, <1>8, <1>9 DEF IInv

LEMMA SendTimesOutKeeps ==
  ASSUME NEW p \in Processes, IInv, SendTimesOut(p)
  PROVE  IInv'
<1>1. TypeOK'
  BY DEF IInv, TypeOK, Placed, Tasks, SendTimesOut, Accepts, Unconfirmed, Goto, history
<1>2. Placed'
  BY DEF IInv, TypeOK, Placed, SendTimesOut, Accepts, Unconfirmed, Goto, history
<1>3. Fresh'
  BY DEF IInv, TypeOK, Fresh, Carries, Queued, Working, SendTimesOut, Accepts, Unconfirmed,
       Goto, history
<1>4. OneWebProcess'
  BY DEF IInv, TypeOK, OneWebProcess, Carries, Working, SendTimesOut, Accepts, Unconfirmed,
       Goto, history
<1>5. OneTask'
  BY DEF IInv, TypeOK, OneTask, Carries, Queued, Working, SendTimesOut, Accepts, Unconfirmed,
       Goto, history
<1>6. Apart'
  BY DEF IInv, TypeOK, Apart, Carries, Queued, Working, SendTimesOut, Accepts, Unconfirmed,
       Goto, history
<1>7. Budget'
  BY DEF IInv, TypeOK, Budget, One, WebPending, TaskPending, Carries, Queued, Working,
       SendTimesOut, Accepts, Unconfirmed, Goto, history
<1>8. SentIsAccepted'
  BY DEF IInv, TypeOK, SentIsAccepted, SendTimesOut, Accepts, Unconfirmed, Goto, history
<1>9. SentIsLast'
  BY DEF IInv, TypeOK, SentIsLast, Carries, Queued, Working, SendTimesOut, Accepts,
       Unconfirmed, Goto,
       history
<1> QED  BY <1>1, <1>2, <1>3, <1>4, <1>5, <1>6, <1>7, <1>8, <1>9 DEF IInv

LEMMA MarkSentKeeps ==
  ASSUME NEW p \in Processes, IInv, MarkSent(p)
  PROVE  IInv'
<1>1. TypeOK'
  BY DEF IInv, TypeOK, Statuses, MarkSent, Done, Goto, history
<1>2. Placed'
  BY DEF IInv, TypeOK, Placed, MarkSent, Done, Goto, history
<1>3. Fresh'
  BY DEF IInv, TypeOK, Fresh, Carries, Queued, Working, MarkSent, Done, Goto, history
<1>4. OneWebProcess'
  BY DEF IInv, TypeOK, OneWebProcess, Carries, Working, MarkSent, Done, Goto, history
<1>5. OneTask'
  BY DEF IInv, TypeOK, OneTask, Carries, Queued, Working, MarkSent, Done, Goto, history
<1>6. Apart'
  BY DEF IInv, TypeOK, Apart, Carries, Queued, Working, MarkSent, Done, Goto, history
<1>7. Budget'
  BY DEF IInv, TypeOK, Budget, One, WebPending, TaskPending, Carries, Queued, Working,
       MarkSent, Done, Goto, history
<1>8. SentIsAccepted'
  BY DEF IInv, TypeOK, SentIsAccepted, MarkSent, Done, Goto, history
<1>9. SentIsLast'
  BY DEF IInv, TypeOK, SentIsLast, Apart, OneWebProcess, OneTask, Carries, Queued, Working,
       Processes, MarkSent, Done, Goto, history
<1> QED  BY <1>1, <1>2, <1>3, <1>4, <1>5, <1>6, <1>7, <1>8, <1>9 DEF IInv

LEMMA MarkSentRaisesKeeps ==
  ASSUME NEW p \in Processes, NEW committed \in BOOLEAN, IInv, MarkSentRaises(p, committed)
  PROVE  IInv'
<1>1. TypeOK'
  BY DEF IInv, TypeOK, Placed, Statuses, Tasks, MarkSentRaises, Unconfirmed, Goto, history
<1>2. Placed'
  BY DEF IInv, TypeOK, Placed, MarkSentRaises, Unconfirmed, Goto, history
<1>3. Fresh'
  BY DEF IInv, TypeOK, Fresh, Carries, Queued, Working, MarkSentRaises, Unconfirmed, Goto,
       history
<1>4. OneWebProcess'
  BY DEF IInv, TypeOK, OneWebProcess, Carries, Working, MarkSentRaises, Unconfirmed, Goto,
       history
<1>5. OneTask'
  BY DEF IInv, TypeOK, OneTask, Carries, Queued, Working, MarkSentRaises, Unconfirmed, Goto,
       history
<1>6. Apart'
  BY DEF IInv, TypeOK, Apart, Carries, Queued, Working, MarkSentRaises, Unconfirmed, Goto,
       history
<1>7. Budget'
  BY ProcessesAssumption DEF IInv, TypeOK, Budget, One, WebPending, TaskPending, Carries,
       Queued, Working,
       Processes, MarkSentRaises, Unconfirmed, Goto, history
<1>8. SentIsAccepted'
  BY DEF IInv, TypeOK, Placed, SentIsAccepted, Tasks, MarkSentRaises, Unconfirmed, Goto,
       history
<1>9. SentIsLast'
  BY DEF IInv, TypeOK, SentIsLast, Apart, OneWebProcess, OneTask, Carries, Queued, Working,
       Processes, MarkSentRaises, Unconfirmed, Goto, history
<1> QED  BY <1>1, <1>2, <1>3, <1>4, <1>5, <1>6, <1>7, <1>8, <1>9 DEF IInv

LEMMA MarkFailedKeeps ==
  ASSUME NEW p \in Processes, IInv, MarkFailed(p)
  PROVE  IInv'
<1>1. TypeOK'
  BY DEF IInv, TypeOK, Statuses, MarkFailed, Reraise, Done, Goto, history
<1>2. Placed'
  BY DEF IInv, TypeOK, Placed, Processes, MarkFailed, Reraise, Done, Goto, history
<1>3. Fresh'
  BY DEF IInv, TypeOK, Fresh, Carries, Queued, Working, MarkFailed, Reraise, Done, Goto,
       history
<1>4. OneWebProcess'
  BY DEF IInv, TypeOK, OneWebProcess, Carries, Working, Processes, MarkFailed, Reraise, Done,
       Goto,
       history
<1>5. OneTask'
  BY DEF IInv, TypeOK, OneTask, Carries, Queued, Working, Processes, MarkFailed, Reraise,
       Done, Goto,
       history
<1>6. Apart'
  BY DEF IInv, TypeOK, Apart, Carries, Queued, Working, Processes, MarkFailed, Reraise, Done,
       Goto,
       history
<1>7. Budget'
  BY DEF IInv, TypeOK, Budget, One, WebPending, TaskPending, Carries, Queued, Working,
       Processes, MarkFailed, Reraise, Done, Goto, history
<1>8. SentIsAccepted'
  BY DEF IInv, TypeOK, SentIsAccepted, MarkFailed, Reraise, Done, Goto, history
<1>9. SentIsLast'
  BY DEF IInv, TypeOK, SentIsLast, Carries, Queued, Working, MarkFailed, Reraise, Done, Goto,
       history
<1> QED  BY <1>1, <1>2, <1>3, <1>4, <1>5, <1>6, <1>7, <1>8, <1>9 DEF IInv

LEMMA MarkFailedRaisesKeeps ==
  ASSUME NEW p \in Processes, IInv, MarkFailedRaises(p)
  PROVE  IInv'
<1>1. TypeOK'
  BY DEF IInv, TypeOK, Placed, Tasks, MarkFailedRaises, Reraise, Done, Goto, history
<1>2. Placed'
  BY DEF IInv, TypeOK, Placed, Processes, MarkFailedRaises, Reraise, Done, Goto, history
<1>3. Fresh'
  BY DEF IInv, TypeOK, Fresh, Carries, Queued, Working, MarkFailedRaises, Reraise, Done, Goto,
       history
<1>4. OneWebProcess'
  BY DEF IInv, TypeOK, OneWebProcess, Carries, Working, Processes, MarkFailedRaises, Reraise,
       Done, Goto,
       history
<1>5. OneTask'
  BY DEF IInv, TypeOK, OneTask, Carries, Queued, Working, Processes, MarkFailedRaises,
       Reraise, Done, Goto,
       history
<1>6. Apart'
  BY DEF IInv, TypeOK, Apart, Carries, Queued, Working, Processes, MarkFailedRaises, Reraise,
       Done, Goto,
       history
<1>7. Budget'
  BY DEF IInv, TypeOK, Budget, One, WebPending, TaskPending, Carries, Queued, Working,
       Processes, MarkFailedRaises, Reraise, Done, Goto, history
<1>8. SentIsAccepted'
  BY DEF IInv, TypeOK, SentIsAccepted, MarkFailedRaises, Reraise, Done, Goto, history
<1>9. SentIsLast'
  BY DEF IInv, TypeOK, SentIsLast, Carries, Queued, Working, MarkFailedRaises, Reraise, Done,
       Goto, history
<1> QED  BY <1>1, <1>2, <1>3, <1>4, <1>5, <1>6, <1>7, <1>8, <1>9 DEF IInv

LEMMA TakeKeeps ==
  ASSUME NEW v \in Workers, NEW t \in Tasks, IInv, Take(v, t)
  PROVE  IInv'
<1>1. TypeOK'
  BY DEF IInv, TypeOK, Take, Goto, history
<1>2. Placed'
  BY DEF IInv, TypeOK, Placed, Take, Goto, history
<1>3. Fresh'
  BY DEF IInv, TypeOK, Fresh, Carries, Queued, Take, Goto, history
<1>4. OneWebProcess'
  BY ProcessesAssumption DEF IInv, TypeOK, OneWebProcess, Carries, Take, Goto, history
<1>5. OneTask'
  BY DEF IInv, TypeOK, OneTask, Carries, Queued, Take, Goto, history
<1>6. Apart'
  BY ProcessesAssumption DEF IInv, TypeOK, Apart, Carries, Queued, Take, Goto, history
<1>7. Budget'
  BY ProcessesAssumption DEF IInv, TypeOK, Budget, One, WebPending, TaskPending, Carries,
       Queued, Take, Goto, history
<1>8. SentIsAccepted'
  BY DEF IInv, TypeOK, SentIsAccepted, Take, Goto, history
<1>9. SentIsLast'
  BY DEF IInv, TypeOK, SentIsLast, Carries, Queued, Take, Goto, history
<1> QED  BY <1>1, <1>2, <1>3, <1>4, <1>5, <1>6, <1>7, <1>8, <1>9 DEF IInv

LEMMA RetryKeeps ==
  ASSUME NEW v \in Workers, IInv, Retry(v)
  PROVE  IInv'
<1>1. TypeOK'
  BY MaxRetriesAssumption DEF IInv, TypeOK, Placed, Tasks, Processes, Retry, Done, Goto,
       history
<1>2. Placed'
  BY DEF IInv, TypeOK, Placed, Retry, Done, Goto, history
<1>3. Fresh'
  BY DEF IInv, TypeOK, Placed, Fresh, Carries, Queued, Working, Tasks, Processes, Retry,
       Done, Goto, history
<1>4. OneWebProcess'
  BY DEF IInv, TypeOK, OneWebProcess, Carries, Working, Retry, Done, Goto, history
<1>5. OneTask'
  BY DEF IInv, TypeOK, Placed, OneTask, Carries, Queued, Working, Tasks, Processes, Retry,
       Done, Goto, history
<1>6. Apart'
  BY DEF IInv, TypeOK, Placed, Apart, Carries, Queued, Working, Tasks, Processes, Retry,
       Done, Goto, history
<1>7. Budget'
  BY DEF IInv, TypeOK, Placed, Budget, One, WebPending, TaskPending, Carries, Queued,
       Working, Tasks, Processes, Retry, Done, Goto, history
<1>8. SentIsAccepted'
  BY DEF IInv, TypeOK, SentIsAccepted, Retry, Done, Goto, history
<1>9. SentIsLast'
  BY DEF IInv, TypeOK, Placed, SentIsLast, Carries, Queued, Working, Tasks, Processes,
       Retry, Done, Goto, history
<1> QED  BY <1>1, <1>2, <1>3, <1>4, <1>5, <1>6, <1>7, <1>8, <1>9 DEF IInv

LEMMA CrashKeeps ==
  ASSUME NEW p \in Processes, IInv, Crash(p)
  PROVE  IInv'
<1>1. TypeOK'
  BY DEF IInv, TypeOK, Placed, Tasks, Crash, Done, Goto, history
<1>2. Placed'
  BY DEF IInv, TypeOK, Placed, Crash, Done, Goto, history
<1>3. Fresh'
  BY DEF IInv, TypeOK, Fresh, Carries, Queued, Working, Crash, Done, Goto, history
<1>4. OneWebProcess'
  BY DEF IInv, TypeOK, OneWebProcess, Carries, Working, Crash, Done, Goto, history
<1>5. OneTask'
  BY DEF IInv, TypeOK, OneTask, Carries, Queued, Working, Crash, Done, Goto, history
<1>6. Apart'
  BY DEF IInv, TypeOK, Apart, Carries, Queued, Working, Crash, Done, Goto, history
<1>7. Budget'
  BY DEF IInv, TypeOK, Budget, One, WebPending, TaskPending, Carries, Queued, Working,
       Crash, Done, Goto, history
<1>8. SentIsAccepted'
  BY DEF IInv, TypeOK, SentIsAccepted, Crash, Done, Goto, history
<1>9. SentIsLast'
  BY DEF IInv, TypeOK, SentIsLast, Carries, Queued, Working, Crash, Done, Goto, history
<1> QED  BY <1>1, <1>2, <1>3, <1>4, <1>5, <1>6, <1>7, <1>8, <1>9 DEF IInv

LEMMA ConfigureKeeps ==
  ASSUME IInv, Configure
  PROVE  IInv'
BY DEF IInv, TypeOK, Placed, Fresh, OneWebProcess, OneTask, Apart, Budget, SentIsAccepted,
       SentIsLast, WebPending, TaskPending, Carries, Queued, Configure, history

LEMMA StutterKeeps ==
  ASSUME IInv, UNCHANGED vars
  PROVE  IInv'
BY DEF IInv, TypeOK, Placed, Fresh, OneWebProcess, OneTask, Apart, Budget, SentIsAccepted,
       SentIsLast, WebPending, TaskPending, Carries, Queued, vars

LEMMA InitHolds ==
  ASSUME Init
  PROVE  IInv
<1>1. TypeOK /\ Placed
  BY MaxRetriesAssumption DEF Init, TypeOK, Placed, Statuses, NoJob, Tasks, Processes
<1>2. Fresh /\ OneWebProcess /\ OneTask /\ Apart /\ SentIsAccepted /\ SentIsLast
  BY DEF Init, Fresh, OneWebProcess, OneTask, Apart, SentIsAccepted, SentIsLast, Carries,
         Queued, Working, Processes
<1>3. Budget
  BY DEF Init, Budget, One, WebPending, TaskPending, Carries, Queued, Working, Processes
<1> QED  BY <1>1, <1>2, <1>3 DEF IInv

LEMMA NextKeeps ==
  ASSUME IInv, [Next]_vars
  PROVE  IInv'
<1>1. CASE \E w \in Web : \E k \in Keys : SendEmail(w, k)
  BY <1>1, SendEmailKeeps
<1>2. CASE \E w \in Web : WebStep(w)
  BY <1>2, RecordRefusedKeeps, RecordKeeps, EnqueueKeeps, FallBackKeeps DEF WebStep
<1>3. CASE \E p \in Processes : SendStep(p)
  BY <1>3, ReadLogKeeps, MarkSendingKeeps, RaisesKeeps, SendKeeps, SendTimesOutKeeps,
     MarkSentKeeps, MarkSentRaisesKeeps, MarkFailedKeeps, MarkFailedRaisesKeeps DEF SendStep
<1>4. CASE \E p \in Processes : Crash(p)
  BY <1>4, CrashKeeps
<1>5. CASE \E v \in Workers : TaskStep(v)
  BY <1>5, TakeKeeps, RetryKeeps DEF TaskStep
<1>6. CASE Configure
  BY <1>6, ConfigureKeeps
<1>7. CASE UNCHANGED vars
  BY <1>7, StutterKeeps
<1> QED  BY <1>1, <1>2, <1>3, <1>4, <1>5, <1>6, <1>7 DEF Next

\* The invariant holds in every reachable state.
THEOREM Invariance == Spec => []IInv
<1>1. Init => IInv
  BY InitHolds
<1>2. IInv /\ [Next]_vars => IInv'
  BY NextKeeps
<1> QED  BY <1>1, <1>2, PTL DEF Spec

-----------------------------------------------------------------------------
(* The properties *)

\* Every reachable state is well typed; with it, that no task is retried more often than
\* max_retries.
THEOREM TypesHold == Spec => []TypeOK
<1>1. IInv => TypeOK
  BY DEF IInv
<1> QED  BY <1>1, Invariance, PTL

\* The idempotency key does its work: no e-mail is accepted twice but for a sending that
\* raised with the message out, or a task the broker took although delay() raised.
THEOREM KeysPreventDuplicates == Spec => []DuplicatesAreExplained
<1>1. IInv => DuplicatesAreExplained
  BY DEF IInv, TypeOK, Budget, One, DuplicatesAreExplained
<1> QED  BY <1>1, Invariance, PTL

\* The condition SentIsTrue puts on a step.
Truthful ==
  \A k \in Keys :
    /\ log'[k] = "sent" => accepted[k] > 0
    /\ log[k] = "sent" /\ log'[k] # "sent" => k \in doubled \cup disputed

LEMMA StepsAreTruthful ==
  ASSUME IInv, [Next]_vars
  PROVE  Truthful
<1>1. CASE \E w \in Web : RecordRefused(w) \/ Record(w)
  BY <1>1 DEF Truthful, IInv, TypeOK, Placed, SentIsAccepted, RecordRefused, Record, Unknown,
              Tasks, Processes
<1>2. CASE \E p \in Processes : MarkSending(p)
  BY <1>2 DEF Truthful, IInv, TypeOK, Placed, SentIsAccepted, MarkSending, Tasks
<1>3. CASE \E p \in Processes : MarkSent(p)
  BY <1>3 DEF Truthful, IInv, TypeOK, Placed, SentIsAccepted, MarkSent, Tasks
<1>4. CASE \E p \in Processes : MarkFailed(p)
  BY <1>4 DEF Truthful, IInv, TypeOK, Placed, SentIsAccepted, SentIsLast, MarkFailed, Tasks,
              Carries, Working
<1>5. CASE \E p \in Processes : \E committed \in BOOLEAN : MarkSentRaises(p, committed)
  BY <1>5 DEF Truthful, IInv, TypeOK, Placed, SentIsAccepted, MarkSentRaises, Tasks
<1>6. CASE UNCHANGED log
  BY <1>6 DEF Truthful, IInv, SentIsAccepted
<1>7. \/ \E w \in Web : RecordRefused(w) \/ Record(w)
      \/ \E p \in Processes : \/ MarkSending(p) \/ MarkSent(p) \/ MarkFailed(p)
                              \/ \E committed \in BOOLEAN : MarkSentRaises(p, committed)
      \/ UNCHANGED log
  BY DEF Next, WebStep, SendStep, TaskStep, SendEmail, Enqueue, FallBack, ReadLog, Raises,
         Send, Accepts, SendTimesOut, MarkFailedRaises, Take, Retry, Crash, Configure, vars
<1> QED  BY <1>1, <1>2, <1>3, <1>4, <1>5, <1>6, <1>7

\* A log says sent only of an e-mail a gateway took, and takes it back only if the
\* broker's answer was lost or mark_sent raised after its commit.
THEOREM LogsAreTruthful == Spec => SentIsTrue
<1>1. IInv /\ [Next]_vars => [Truthful]_vars
  BY StepsAreTruthful
<1>2. Spec => [][Truthful]_vars
  BY <1>1, Invariance, PTL DEF Spec
<1> QED  BY <1>2, PTL DEF SentIsTrue, Truthful
=============================================================================
