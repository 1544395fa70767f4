--------------------------- MODULE EmailDelivery ---------------------------
(***************************************************************************)
(* The sending of e-mails: a web process records an EmailLog under an      *)
(* idempotency key and, once that is committed, hands a task to the broker *)
(* or sends by itself when it cannot; a worker sends and is retried.  The  *)
(* log is read and written without a lock on the way, any call may raise,  *)
(* processes die, and a gateway, the broker or the database may have done  *)
(* what its call did not confirm.                                          *)
(***************************************************************************)
EXTENDS Integers, FiniteSets

CONSTANTS
  Web,          \* processes that answer requests
  Workers,      \* processes that run tasks
  Keys,         \* idempotency keys of one tenant
  MaxRetries,   \* max_retries of the task
  NoKey

ASSUME MaxRetriesAssumption == MaxRetries \in Nat
ASSUME ProcessesAssumption == Web \cap Workers = {}
ASSUME KeysAssumption == NoKey \notin Keys

Processes == Web \cup Workers

VARIABLES
  log,         \* per key: the status of its EmailLog
  configured,  \* a provider is configured and enabled
  queue,       \* tasks the broker holds
  pc,          \* per process: where it is
  job,         \* per process: the key it works for and the retries behind it
  accepted,    \* history, per key: messages a gateway took
  unconfirmed, \* history, per key: messages it took although the call, or mark_sent
               \* after it, raised
  failures,    \* history, per key: attempts to send that raised
  doubled,     \* history: keys whose task the broker took although delay() raised
  disputed,    \* history: keys mark_sent was committed for although it raised
  unmarked,    \* history: keys mark_failed raised for
  fellBack,    \* history: keys whose web process sends by itself
  lost         \* history: keys a process died for

history == <<accepted, unconfirmed, failures, doubled, disputed, unmarked, fellBack, lost>>
vars == <<log, configured, queue, pc, job,
          accepted, unconfirmed, failures, doubled, disputed, unmarked, fellBack, lost>>

Statuses == {"none", "queued", "sending", "sent", "failed"}
Tasks == [key : Keys, retries : 0 .. MaxRetries]
NoJob == [key |-> NoKey, retries |-> 0]

Goto(p, where) == pc' = [pc EXCEPT ![p] = where]

Done(p) ==
  /\ Goto(p, "idle")
  /\ job' = [job EXCEPT ![p] = NoJob]

-----------------------------------------------------------------------------
(* SendEmailUseCase.execute *)

\* The provider is resolved before the transaction.
SendEmail(w, k) ==
  /\ pc[w] = "idle"
  /\ Goto(w, IF configured THEN "record" ELSE "refuse")
  /\ job' = [job EXCEPT ![w] = [key |-> k, retries |-> 0]]
  /\ UNCHANGED <<log, configured, queue, history>>

\* Fault: a log that failed is recorded anew.
UnknownOrFailed(k) == log[k] \in {"none", "failed"}

\* The key is looked up and, by its unique constraint, inserted once.
Unknown(k) == log[k] = "none"

\* Without a provider the log is failed from the start; no task will ever send it.
RecordRefused(w) ==
  LET k == job[w].key IN
  /\ pc[w] = "refuse"
  /\ log' = IF Unknown(k) THEN [log EXCEPT ![k] = "failed"] ELSE log
  /\ Done(w)
  /\ UNCHANGED <<configured, queue, history>>

Record(w) ==
  LET k == job[w].key IN
  /\ pc[w] = "record"
  /\ \/ /\ Unknown(k)
        /\ log' = [log EXCEPT ![k] = "queued"]
        /\ Goto(w, "enqueue")
        /\ UNCHANGED job
     \/ /\ ~Unknown(k)
        /\ Done(w)
        /\ UNCHANGED log
  /\ UNCHANGED <<configured, queue, history>>

-----------------------------------------------------------------------------
(* enqueue_send_email, after the commit *)

Enqueue(w) ==
  /\ pc[w] = "enqueue"
  /\ queue' = queue \cup {job[w]}
  /\ Done(w)
  /\ UNCHANGED <<log, configured, history>>

\* delay() raises, or there is no broker: the web process sends.  The broker may have
\* taken the task before the exception.
FallBack(w, took) ==
  /\ pc[w] = "enqueue"
  /\ queue' = IF took THEN queue \cup {job[w]} ELSE queue
  /\ doubled' = IF took THEN doubled \cup {job[w].key} ELSE doubled
  /\ fellBack' = fellBack \cup {job[w].key}
  /\ Goto(w, "read")
  /\ UNCHANGED <<log, configured, job, accepted, unconfirmed, failures, disputed, unmarked,
                 lost>>

-----------------------------------------------------------------------------
(* _send_email_now, in a web process or a worker *)

ReadLog(p) ==
  /\ pc[p] = "read"
  /\ IF log[job[p].key] = "sent" THEN Done(p) ELSE Goto(p, "mark") /\ UNCHANGED job
  /\ UNCHANGED <<log, configured, queue, history>>

\* Fault: the log says sent before the gateway is called.
MarkSentFirst(p) ==
  /\ pc[p] = "mark"
  /\ log' = [log EXCEPT ![job[p].key] = "sent"]
  /\ Goto(p, "send")
  /\ UNCHANGED <<configured, queue, job, history>>

MarkSending(p) ==
  LET k == job[p].key IN
  /\ pc[p] = "mark"
  /\ log' = IF log[k] = "queued" THEN [log EXCEPT ![k] = "sending"] ELSE log
  /\ Goto(p, "send")
  /\ UNCHANGED <<configured, queue, job, history>>

\* What is raised before the message is out: the database fails, the provider is not
\* configured any more, the gateway refuses, the soft time limit is reached.
Raises(p) ==
  /\ pc[p] \in {"read", "mark", "send"}
  /\ Goto(p, "failed")
  /\ failures' = [failures EXCEPT ![job[p].key] = @ + 1]
  /\ UNCHANGED <<log, configured, queue, job, accepted, unconfirmed, doubled, disputed,
                 unmarked, fellBack, lost>>

Accepts(p) ==
  /\ pc[p] = "send"
  /\ configured
  /\ accepted' = [accepted EXCEPT ![job[p].key] = @ + 1]

Send(p) ==
  /\ Accepts(p)
  /\ Goto(p, "sent")
  /\ UNCHANGED <<log, configured, queue, job, unconfirmed, failures, doubled, disputed,
                 unmarked, fellBack, lost>>

\* A message is out and its sender runs into the except clause all the same.
Unconfirmed(p) ==
  LET k == job[p].key IN
  /\ Goto(p, "failed")
  /\ unconfirmed' = [unconfirmed EXCEPT ![k] = @ + 1]
  /\ failures' = [failures EXCEPT ![k] = @ + 1]

\* The gateway took the message and its answer did not arrive.
SendTimesOut(p) ==
  /\ Accepts(p)
  /\ Unconfirmed(p)
  /\ UNCHANGED <<log, configured, queue, job, doubled, disputed, unmarked, fellBack, lost>>

MarkSent(p) ==
  /\ pc[p] = "sent"
  /\ log' = [log EXCEPT ![job[p].key] = "sent"]
  /\ Done(p)
  /\ UNCHANGED <<configured, queue, history>>

\* The database fails, or the soft time limit is reached, before or after mark_sent is
\* committed.
MarkSentRaises(p, committed) ==
  LET k == job[p].key IN
  /\ pc[p] = "sent"
  /\ log' = IF committed THEN [log EXCEPT ![k] = "sent"] ELSE log
  /\ disputed' = IF committed THEN disputed \cup {k} ELSE disputed
  /\ Unconfirmed(p)
  /\ UNCHANGED <<configured, queue, job, accepted, doubled, unmarked, fellBack, lost>>

\* A task raises its exception again, a web process is through with the e-mail.
Reraise(p) ==
  IF p \in Web THEN Done(p) ELSE Goto(p, "retry") /\ UNCHANGED job

\* Whatever the log says by now.
MarkFailed(p) ==
  /\ pc[p] = "failed"
  /\ log' = [log EXCEPT ![job[p].key] = "failed"]
  /\ Reraise(p)
  /\ UNCHANGED <<configured, queue, history>>

\* The except clause raises itself: a task is retried for that exception as well.
MarkFailedRaises(p) ==
  /\ pc[p] = "failed"
  /\ unmarked' = unmarked \cup {job[p].key}
  /\ Reraise(p)
  /\ UNCHANGED <<log, configured, queue, accepted, unconfirmed, failures, doubled, disputed,
                 fellBack, lost>>

-----------------------------------------------------------------------------
(* The task *)

\* Tasks are acknowledged when a worker takes them.
Take(v, t) ==
  /\ pc[v] = "idle"
  /\ t \in queue
  /\ queue' = queue \ {t}
  /\ job' = [job EXCEPT ![v] = t]
  /\ Goto(v, "read")
  /\ UNCHANGED <<log, configured, history>>

\* Fault: the attempts are limited to max_retries, the first one included.
RetryOnceLess(v) ==
  /\ pc[v] = "retry"
  /\ queue' = IF job[v].retries + 1 < MaxRetries
              THEN queue \cup {[job[v] EXCEPT !.retries = @ + 1]} ELSE queue
  /\ Done(v)
  /\ UNCHANGED <<log, configured, history>>

\* Fault: the exception is retried for ever.
RetryForEver(v) ==
  /\ pc[v] = "retry"
  /\ queue' = queue \cup {[job[v] EXCEPT !.retries = @ + 1]}
  /\ Done(v)
  /\ UNCHANGED <<log, configured, history>>

\* autoretry_for: a new task, until max_retries is reached.
Retry(v) ==
  /\ pc[v] = "retry"
  /\ queue' = IF job[v].retries < MaxRetries
              THEN queue \cup {[job[v] EXCEPT !.retries = @ + 1]} ELSE queue
  /\ Done(v)
  /\ UNCHANGED <<log, configured, history>>

-----------------------------------------------------------------------------
(* The environment *)

\* A process is killed, by its hard time limit too, or hangs in a call without a time-out
\* for good, or its retry does not reach the broker: nothing more is written for the key.
Crash(p) ==
  /\ pc[p] \notin {"idle", "refuse", "record"}
  /\ lost' = lost \cup {job[p].key}
  /\ Done(p)
  /\ UNCHANGED <<log, configured, queue, accepted, unconfirmed, failures, doubled, disputed,
                 unmarked, fellBack>>

\* An administrator edits the global e-mail settings.
Configure ==
  /\ configured' = ~configured
  /\ UNCHANGED <<log, queue, pc, job, history>>

-----------------------------------------------------------------------------
Init ==
  /\ log = [k \in Keys |-> "none"]
  /\ configured \in BOOLEAN
  /\ queue = {}
  /\ pc = [p \in Processes |-> "idle"]
  /\ job = [p \in Processes |-> NoJob]
  /\ accepted = [k \in Keys |-> 0]
  /\ unconfirmed = [k \in Keys |-> 0]
  /\ failures = [k \in Keys |-> 0]
  /\ doubled = {}
  /\ disputed = {}
  /\ unmarked = {}
  /\ fellBack = {}
  /\ lost = {}

WebStep(w) ==
  \/ RecordRefused(w) \/ Record(w)
  \/ Enqueue(w) \/ \E took \in BOOLEAN : FallBack(w, took)

SendStep(p) ==
  \/ ReadLog(p) \/ MarkSending(p) \/ Raises(p)
  \/ Send(p) \/ SendTimesOut(p)
  \/ MarkSent(p) \/ \E committed \in BOOLEAN : MarkSentRaises(p, committed)
  \/ MarkFailed(p) \/ MarkFailedRaises(p)

TaskStep(v) == (\E t \in Tasks : Take(v, t)) \/ Retry(v)

Next ==
  \/ \E w \in Web : WebStep(w) \/ \E k \in Keys : SendEmail(w, k)
  \/ \E p \in Processes : SendStep(p) \/ Crash(p)
  \/ \E v \in Workers : TaskStep(v)
  \/ Configure

Spec == Init /\ [][Next]_vars

\* A process that was scheduled goes on, and some worker takes what is in the queue.
Fairness ==
  /\ \A w \in Web : WF_vars(WebStep(w) \/ SendStep(w))
  /\ \A v \in Workers : WF_vars(TaskStep(v) \/ SendStep(v))

FairSpec == Spec /\ Fairness

-----------------------------------------------------------------------------
(* Properties *)

TypeOK ==
  /\ log \in [Keys -> Statuses]
  /\ configured \in BOOLEAN
  /\ queue \subseteq Tasks
  /\ pc \in [Processes -> {"idle", "refuse", "record", "enqueue", "read", "mark", "send",
                           "sent", "failed", "retry"}]
  /\ job \in [Processes -> Tasks \cup {NoJob}]
  /\ accepted \in [Keys -> Nat]
  /\ unconfirmed \in [Keys -> Nat]
  /\ failures \in [Keys -> Nat]
  /\ doubled \subseteq Keys /\ disputed \subseteq Keys /\ unmarked \subseteq Keys
  /\ fellBack \subseteq Keys /\ lost \subseteq Keys

\* The key is what keeps requests, retries and processes from sending an e-mail again:
\* each message beyond the first stands for one that was out when its sender's gateway
\* call or mark_sent raised, or for a task the broker took although delay() raised.
DuplicatesAreExplained ==
  \A k \in Keys : accepted[k] <= 1 + unconfirmed[k] + IF k \in doubled THEN 1 ELSE 0

\* A log says sent only of an e-mail that a gateway took, and it keeps saying so, unless
\* the broker's answer was lost and a second sender failed, or mark_sent was committed
\* and raised, so that its own sender takes it back.
SentIsTrue ==
  [][\A k \in Keys :
       /\ log'[k] = "sent" => accepted[k] > 0
       /\ log[k] = "sent" /\ log'[k] # "sent" => k \in doubled \cup disputed]_vars

\* A recorded e-mail is sent, unless a process died for it, every attempt the retries
\* allow has failed, or the one attempt of a web process without a broker has; the log
\* then says failed, unless the failure could not be written.
RetriesDeliver ==
  \A k \in Keys :
    log[k] = "queued" ~> \/ log[k] = "sent"
                         \/ k \in lost
                         \/ /\ log[k] = "failed" \/ k \in unmarked
                            /\ failures[k] > MaxRetries \/ k \in fellBack
=============================================================================
