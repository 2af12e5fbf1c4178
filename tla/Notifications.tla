---------------------------- MODULE Notifications ----------------------------
(***************************************************************************)
(* The queue of confirmation emails: the job an order gets when its        *)
(* shipment is confirmed (notification.service), and the workers that      *)
(* claim jobs, send the mail and record how it ended                       *)
(* (notification.worker, notification-job.service, mail.service).          *)
(*                                                                         *)
(* A worker runs without interruption from one await to the next; a job it *)
(* holds is only a PROCESSING row with a lock that expires.                *)
(***************************************************************************)
EXTENDS Naturals, Sequences

CONSTANTS
  Order,        \* orders whose shipment may be confirmed; a job is named by its order
  Worker,       \* worker processes (docker-compose.prod.yml runs one)
  None,         \* a worker holds no job
  MaxCounted,   \* a mail may be refused while its job counts at most so many attempts (a bound)
  MaxLost,      \* how many statements or SMTP answers may be lost (a bound)
  MaxExpired,   \* how many locks may expire under a worker (a bound)
  MaxCrashes    \* how many times a worker may die (a bound)

ASSUME NotificationsAssumption ==
  /\ None \notin Order
  /\ MaxCounted \in Nat
  /\ MaxLost \in Nat
  /\ MaxExpired \in Nat
  /\ MaxCrashes \in Nat

VARIABLES
  job,      \* NotificationJob rows of type SHIPMENT_CREATED_EMAIL by orderId
  queue,    \* the jobs by runAt, oldest first
  mails,    \* how many mails of the order the SMTP server has accepted
  worker,   \* the workers
  lost,     \* statements and answers lost so far
  expired,  \* locks that expired under a worker so far
  crashes   \* workers that died so far

vars == <<job, queue, mails, worker, lost, expired, crashes>>

-------------------------------------------------------------------------------
MaxAttempts == 3

JobStatus == {"PENDING", "PROCESSING", "SENT", "FAILED"}

\* lockedAt is NULL, recent, or older than NOTIFICATION_JOB_LOCK_TIMEOUT_MS.
Lock == {"none", "fresh", "stale"}

Job == [status: JobStatus \cup {"absent"}, attempts: Nat, lock: Lock]

NoJob == [status |-> "absent", attempts |-> 0, lock |-> "none"]

Step == {"idle", "find", "claim", "send", "sent", "fail", "giveUp"}

\* seen: how many jobs are old enough for the query of this round (runAt <= now).
Loop == [pc: Step, job: Order \cup {None}, seen: Nat]

Idle == [pc |-> "idle", job |-> None, seen |-> 0]

\* A round begins: now is read, before the two statements that use it.
Round == [pc |-> "find", job |-> None, seen |-> Len(queue)]

TypeOK ==
  /\ job \in [Order -> Job]
  /\ queue \in Seq(Order)
  /\ mails \in [Order -> Nat]
  /\ worker \in [Worker -> Loop]
  /\ lost \in 0..MaxLost
  /\ expired \in 0..MaxExpired
  /\ crashes \in 0..MaxCrashes

Init ==
  /\ job = [o \in Order |-> NoJob]
  /\ queue = <<>>
  /\ mails = [o \in Order |-> 0]
  /\ worker = [w \in Worker |-> Idle]
  /\ lost = 0
  /\ expired = 0
  /\ crashes = 0

-------------------------------------------------------------------------------
At(w, pc) == worker[w].pc = pc

Become(w, loop) == worker' = [worker EXCEPT ![w] = loop]

Goto(w, pc) == worker' = [worker EXCEPT ![w].pc = pc]

\* The row of the job that w holds.
Held(w) == job[worker[w].job]

\* The row of w's job is written.
Write(w, status, attempts, lock) ==
  job' = [job EXCEPT ![worker[w].job] =
            [status |-> status, attempts |-> attempts, lock |-> lock]]

LoseOne == lost < MaxLost /\ lost' = lost + 1

\* w has claimed its job and has not yet said how it went.
Working(w) == worker[w].pc \in {"send", "sent", "fail"}

-------------------------------------------------------------------------------
\* enqueueShipmentCreatedEmail: an upsert with an empty update.

\* Mutant: the upsert puts an existing job back to PENDING.
EnqueueAgain(o) ==
  /\ IF job[o].status = "absent"
     THEN /\ job' = [job EXCEPT ![o].status = "PENDING"]
          /\ queue' = Append(queue, o)
     ELSE /\ job' = [job EXCEPT ![o].status = "PENDING"]
          /\ queue' = queue
  /\ UNCHANGED <<mails, worker, lost, expired, crashes>>

Enqueue(o) ==
  /\ IF job[o].status = "absent"
     THEN /\ job' = [job EXCEPT ![o].status = "PENDING"]
          /\ queue' = Append(queue, o)
     ELSE UNCHANGED <<job, queue>>
  /\ UNCHANGED <<mails, worker, lost, expired, crashes>>

-------------------------------------------------------------------------------
\* claimNextNotificationJob

Stale(row) == row.status = "PROCESSING" /\ row.lock = "stale"

\* Mutants: stale locks are left alone; every lock counts as stale.
RequeueNothing(w) ==
  /\ At(w, "idle")
  /\ Become(w, Round)
  /\ UNCHANGED <<job, queue, mails, lost, expired, crashes>>
RequeueLocked(w) ==
  /\ At(w, "idle")
  /\ job' = [o \in Order |-> IF job[o].status = "PROCESSING"
                             THEN [job[o] EXCEPT !.status = "PENDING", !.lock = "none"]
                             ELSE job[o]]
  /\ Become(w, Round)
  /\ UNCHANGED <<queue, mails, lost, expired, crashes>>

\* requeueStaleProcessingNotificationJobs; attempts stays as it is.
Requeue(w) ==
  /\ At(w, "idle")
  /\ job' = [o \in Order |-> IF Stale(job[o])
                             THEN [job[o] EXCEPT !.status = "PENDING", !.lock = "none"]
                             ELSE job[o]]
  /\ Become(w, Round)
  /\ UNCHANGED <<queue, mails, lost, expired, crashes>>

\* A job enqueued since the round began is left to the next one.
Due(w) == {i \in 1..Len(queue) : i <= worker[w].seen /\ job[queue[i]].status = "PENDING"}

FindJob(w) ==
  /\ At(w, "find")
  /\ \E i \in Due(w) :
       /\ \A k \in Due(w) : i <= k
       /\ Become(w, [pc |-> "claim", job |-> queue[i], seen |-> 0])
  /\ UNCHANGED <<job, queue, mails, lost, expired, crashes>>

FindNothing(w) ==
  /\ At(w, "find") /\ Due(w) = {}
  /\ Become(w, Idle)
  /\ UNCHANGED <<job, queue, mails, lost, expired, crashes>>

\* Mutant: the claim forgets to ask that the job is still PENDING.
ClaimAnyway(w) ==
  /\ At(w, "claim")
  /\ Write(w, "PROCESSING", Held(w).attempts, "fresh")
  /\ Goto(w, "send")
  /\ UNCHANGED <<queue, mails, lost, expired, crashes>>

Claim(w) ==
  /\ At(w, "claim") /\ Held(w).status = "PENDING"
  /\ Write(w, "PROCESSING", Held(w).attempts, "fresh")
  /\ Goto(w, "send")
  /\ UNCHANGED <<queue, mails, lost, expired, crashes>>

ClaimMissed(w) ==
  /\ At(w, "claim") /\ Held(w).status # "PENDING"
  /\ Become(w, Idle)
  /\ UNCHANGED <<job, queue, mails, lost, expired, crashes>>

\* An error is recorded against the job, whoever holds it.  A lost answer leaves
\* open whether the statement took effect.
ClaimErrs(w) ==
  /\ At(w, "claim") /\ LoseOne
  /\ \/ UNCHANGED job
     \/ Held(w).status = "PENDING" /\ Write(w, "PROCESSING", Held(w).attempts, "fresh")
  /\ Goto(w, "fail")
  /\ UNCHANGED <<queue, mails, expired, crashes>>

-------------------------------------------------------------------------------
\* processNotificationJob, sendConfirmationOrderMail

SendSucceeds(w) ==
  /\ At(w, "send")
  /\ mails' = [mails EXCEPT ![worker[w].job] = @ + 1]
  /\ Goto(w, "sent")
  /\ UNCHANGED <<job, queue, lost, expired, crashes>>

\* Mutant: a rejected recipient is not an error.
SendRefusedIsSent(w) ==
  /\ At(w, "send")
  /\ Goto(w, "sent")
  /\ UNCHANGED <<job, queue, mails, lost, expired, crashes>>

\* No order, items, shipment or address, a rejected recipient, no SMTP server.
SendRefused(w) ==
  /\ At(w, "send") /\ Held(w).attempts <= MaxCounted
  /\ Goto(w, "fail")
  /\ UNCHANGED <<job, queue, mails, lost, expired, crashes>>

\* The server took the mail and its answer is lost (SMTP_TIMEOUT_MS).
SendUnanswered(w) ==
  /\ At(w, "send") /\ LoseOne
  /\ mails' = [mails EXCEPT ![worker[w].job] = @ + 1]
  /\ Goto(w, "fail")
  /\ UNCHANGED <<job, queue, expired, crashes>>

-------------------------------------------------------------------------------
\* markNotificationJobSent, markNotificationJobFailed: updates by id alone

MarkSent(w) ==
  /\ At(w, "sent")
  /\ Write(w, "SENT", Held(w).attempts, "none")
  /\ Become(w, Idle)
  /\ UNCHANGED <<queue, mails, lost, expired, crashes>>

\* The catch calls markNotificationJobFailed, though SENT may have been stored.
MarkSentErrs(w) ==
  /\ At(w, "sent") /\ LoseOne
  /\ UNCHANGED job \/ Write(w, "SENT", Held(w).attempts, "none")
  /\ Goto(w, "fail")
  /\ UNCHANGED <<queue, mails, expired, crashes>>

MarkFailed(w) ==
  /\ At(w, "fail")
  /\ Write(w, "PENDING", Held(w).attempts + 1, "none")
  /\ IF Held(w).attempts + 1 >= MaxAttempts
     THEN Goto(w, "giveUp")
     ELSE Become(w, Idle)
  /\ UNCHANGED <<queue, mails, lost, expired, crashes>>

GiveUp(w) ==
  /\ At(w, "giveUp")
  /\ Write(w, "FAILED", Held(w).attempts, "none")
  /\ Become(w, Idle)
  /\ UNCHANGED <<queue, mails, lost, expired, crashes>>

\* Errors of these two updates are logged and forgotten, stored or not.
MarkErrs(w) ==
  /\ LoseOne
  /\ \/ (At(w, "fail") \/ At(w, "giveUp")) /\ UNCHANGED job
     \/ At(w, "fail") /\ Write(w, "PENDING", Held(w).attempts + 1, "none")
     \/ At(w, "giveUp") /\ Write(w, "FAILED", Held(w).attempts, "none")
  /\ Become(w, Idle)
  /\ UNCHANGED <<queue, mails, expired, crashes>>

-------------------------------------------------------------------------------
\* Time and crashes

WorkedOn(o) == \E w \in Worker : Working(w) /\ worker[w].job = o

\* Fifteen minutes pass since the job was claimed, and nobody works on it.
LockAges(o) ==
  /\ job[o].lock = "fresh" /\ ~WorkedOn(o)
  /\ job' = [job EXCEPT ![o].lock = "stale"]
  /\ UNCHANGED <<queue, mails, worker, lost, expired, crashes>>

\* Fifteen minutes pass while a worker is still at it.
LockExpires(o) ==
  /\ job[o].lock = "fresh" /\ WorkedOn(o)
  /\ expired < MaxExpired /\ expired' = expired + 1
  /\ job' = [job EXCEPT ![o].lock = "stale"]
  /\ UNCHANGED <<queue, mails, worker, lost, crashes>>

\* The process dies and its container is started again.
WorkerDies(w) ==
  /\ ~At(w, "idle") /\ crashes < MaxCrashes
  /\ crashes' = crashes + 1
  /\ Become(w, Idle)
  /\ UNCHANGED <<job, queue, mails, lost, expired>>

-------------------------------------------------------------------------------
Continue(w) ==
  \/ Requeue(w) \/ FindJob(w) \/ FindNothing(w)
  \/ Claim(w) \/ ClaimMissed(w) \/ ClaimErrs(w)
  \/ SendSucceeds(w) \/ SendRefused(w) \/ SendUnanswered(w)
  \/ MarkSent(w) \/ MarkSentErrs(w) \/ MarkFailed(w) \/ GiveUp(w) \/ MarkErrs(w)

Next ==
  \/ \E w \in Worker : Continue(w) \/ WorkerDies(w)
  \/ \E o \in Order : Enqueue(o) \/ LockAges(o) \/ LockExpires(o)

Spec == Init /\ [][Next]_vars

\* The worker loops for ever and is restarted when it dies; time passes.
FairSpec ==
  /\ Spec
  /\ \A w \in Worker : WF_vars(Continue(w))
  /\ \A o \in Order : WF_vars(LockAges(o))

-------------------------------------------------------------------------------
\* Properties

\* No statement failed, no answer was lost, no lock expired under a worker.
Undisturbed == lost = 0 /\ expired = 0

\* ... and no worker died.
Calm == Undisturbed /\ crashes = 0

Exclusive ==
  \A v, w \in Worker :
    Working(v) /\ Working(w) /\ worker[v].job = worker[w].job => v = w

\* Undisturbed, a job is in the hands of one worker, whichever of them die and
\* are restarted (claimNextNotificationJob, requeueStaleProcessingNotificationJobs).
OneWorkerPerJob == Undisturbed => Exclusive

\* A job says SENT only if the SMTP server took the mail (markNotificationJobSent).
SentWasMailed == \A o \in Order : job[o].status = "SENT" => mails[o] > 0

\* As long as nothing dies either, a customer gets at most one mail, whatever the
\* number of workers and of repeated enqueues (enqueueShipmentCreatedEmail).
OneMailPerOrder == Calm => \A o \in Order : mails[o] <= 1

\* A job that failed for good, or was sent before any answer was lost.
Settled(o) == job[o].status = "FAILED" \/ (job[o].status = "SENT" /\ lost = 0)

\* With one worker, FAILED stands, and SENT does until an answer is lost: no repeated
\* enqueue, requeue or late update reopens the job.  After a lost answer to the
\* update to SENT the catch writes PENDING over it (markNotificationJobSent).
OutcomeIsFinal ==
  [][\A o \in Order : Settled(o) => job'[o] = job[o]]_vars

Outcome(o) ==
  CASE job[o].status = "absent" -> "none"
    [] job[o].status \in {"PENDING", "PROCESSING"} -> "open"
    [] job[o].status = "SENT" -> "sent"
    [] job[o].status = "FAILED" -> "failed"

Contract == INSTANCE Outbox WITH
  outcome  <- [o \in Order |-> Outcome(o)],
  calm     <- Calm,
  answered <- lost = 0

\* One worker keeps the contract of an outbox: whatever dies or expires, no mail
\* goes out after the outcome; SENT and FAILED say what the customer got; and only
\* a lost answer makes it open a job again that was sent (notification.worker,
\* notification-job.service).
ImplementsOutbox == Contract!Spec

\* Every job is finished: a refused, interrupted or forgotten attempt is made
\* again, and a job that fails for ever does not hold up the ones behind it.
EveryJobEnds ==
  \A o \in Order :
    job[o].status \in {"PENDING", "PROCESSING"} ~> job[o].status \in {"SENT", "FAILED"}

\* The test of markNotificationJobFailed: "after the third error marks failed".
AtMostThreeAttempts == \A o \in Order : job[o].attempts <= MaxAttempts

-------------------------------------------------------------------------------
\* The inductive invariant behind SentWasMailed and OneWorkerPerJob

QueueInv ==
  /\ \A i \in 1..Len(queue) : job[queue[i]].status # "absent"
  /\ \A o \in Order : job[o].status # "absent" => \E i \in 1..Len(queue) : queue[i] = o

WorkerInv(w) ==
  /\ worker[w].pc \notin {"idle", "find"} =>
       worker[w].job \in Order /\ Held(w).status # "absent"
  /\ worker[w].pc = "sent" => mails[worker[w].job] > 0

\* A job being worked on is not up for grabs: its row is PROCESSING and its lock
\* is in force, or it was given up by a worker that had failed it before.
ClaimInv(w) ==
  Working(w) => Held(w).status \in {"PROCESSING", "FAILED"} /\ Held(w).lock # "stale"

RowsInv ==
  /\ TypeOK
  /\ QueueInv
  /\ \A w \in Worker : WorkerInv(w)
  /\ SentWasMailed

IInv ==
  /\ RowsInv
  /\ Undisturbed => Exclusive /\ \A w \in Worker : ClaimInv(w)

\* What OneMailPerOrder adds: a job is open to a claim, or to another attempt, only
\* while its mail has not gone out, and PROCESSING while somebody is at it.
MailsInv ==
  /\ \A o \in Order :
       /\ mails[o] <= 1
       /\ job[o].status \in {"absent", "PENDING"} => mails[o] = 0
       /\ job[o].status = "PROCESSING" => WorkedOn(o)
  /\ \A w \in Worker : worker[w].pc \in {"send", "fail"} => mails[worker[w].job] = 0

\* w has heard that the update to SENT failed, and it had not.
Misled(w) == At(w, "fail") /\ lost > 0 /\ Held(w).status = "SENT"

\* What the outcomes rest on: a lock is on a PROCESSING row only, and a worker that
\* is alone holds a job that has not ended, unless it was misled.
OneWorker == \A v, w \in Worker : v = w
OutcomeInv ==
  /\ \A o \in Order : job[o].lock # "none" => job[o].status = "PROCESSING"
  /\ OneWorker => \A w \in Worker :
       /\ worker[w].pc \notin {"idle", "find"} =>
            Held(w).status \in {"PENDING", "PROCESSING"} \/ Misled(w)
       /\ worker[w].pc = "giveUp" => Held(w).status = "PENDING"

\* A mail goes out once and an outcome stays, each for its reason: nobody else may
\* take the job, or nobody else is there to take it (claimNextNotificationJob).
MailInv ==
  /\ IInv
  /\ Calm => MailsInv
  /\ OutcomeInv
===============================================================================
