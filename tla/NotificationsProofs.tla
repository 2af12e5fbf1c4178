------------------------- MODULE NotificationsProofs -------------------------
(***************************************************************************)
(* IInv of module Notifications is an inductive invariant for any number   *)
(* of orders and workers: RowsInv whatever is lost, dies or expires, and   *)
(* the exclusive claims until a statement fails or a lock expires under    *)
(* a worker.  MailInv adds what the exclusive claims are for: until then,  *)
(* and as long as no worker died, a job that may be claimed has no mail    *)
(* behind it; and a worker that is the only one holds no job that ended,   *)
(* unless the answer to its update to SENT was lost.                       *)
(*                                                                         *)
(* From MailInv and a single worker follows the refinement of Outbox: what *)
(* the worker holds is open, so that a mail and an outcome are steps of an *)
(* open entry (SendMaps, WorkMaps), while claims, failures and requeues    *)
(* leave it open; and the job of a worker that was misled is opened again, *)
(* which Outbox allows after a lost answer (JobMaps).                      *)
(***************************************************************************)
EXTENDS Notifications, TLAPS

USE NotificationsAssumption

\* Rows are never made or removed by the workers, and no mail is unsent.
Steady ==
  \A o \in Order : /\ job'[o].status = "absent" <=> job[o].status = "absent"
                   /\ mails'[o] >= mails[o]

LEMMA QueueStays ==
  ASSUME RowsInv, queue' = queue,
         \A o \in Order : job'[o].status = "absent" <=> job[o].status = "absent"
  PROVE  QueueInv'
<1>1. \A i \in 1..Len(queue) : queue[i] \in Order /\ job[queue[i]].status # "absent"
  BY DEF RowsInv, TypeOK, QueueInv
<1>2. \A i \in 1..Len(queue') : job'[queue'[i]].status # "absent"
  BY <1>1
<1>3. ASSUME NEW o \in Order, job'[o].status # "absent"
      PROVE  \E i \in 1..Len(queue') : queue'[i] = o
  BY <1>3 DEF RowsInv, QueueInv
<1>. QED
  BY <1>2, <1>3 DEF QueueInv

\* A worker that moves keeps the invariant if what it now relies on is there.
LEMMA WorkerMoves ==
  ASSUME RowsInv, NEW w \in Worker, NEW l \in Loop, Become(w, l),
         job' \in [Order -> Job], mails' \in [Order -> Nat],
         lost' \in 0..MaxLost, expired' \in 0..MaxExpired, crashes' \in 0..MaxCrashes,
         queue' = queue, Steady,
         l.pc \notin {"idle", "find"} => l.job \in Order /\ job[l.job].status # "absent",
         l.pc = "sent" => mails'[l.job] > 0,
         \A o \in Order : job'[o].status = "SENT" => job[o].status = "SENT" \/ mails[o] > 0
  PROVE  RowsInv'
<1>1. /\ worker' \in [Worker -> Loop] /\ worker'[w] = l
      /\ \A v \in Worker : v # w => worker'[v] = worker[v]
  BY DEF Become, RowsInv, TypeOK
<1>2. TypeOK'
  BY <1>1 DEF RowsInv, TypeOK
<1>3. QueueInv'
  BY QueueStays DEF Steady
<1>4. ASSUME NEW v \in Worker PROVE WorkerInv(v)'
  <2>1. CASE v = w
    BY <2>1, <1>1 DEF WorkerInv, Held, Steady
  <2>2. CASE v # w
    <3>1. WorkerInv(v) /\ worker'[v] = worker[v] /\ worker[v] \in Loop
      BY <2>2, <1>1 DEF RowsInv, TypeOK
    <3>2. CASE worker[v].job \in Order
      <4>1. mails[worker[v].job] \in Nat /\ mails'[worker[v].job] \in Nat
        BY <3>2 DEF RowsInv, TypeOK
      <4>. QED
        BY <3>1, <3>2, <4>1 DEF WorkerInv, Held, Steady
    <3>3. CASE worker[v].job \notin Order
      BY <3>1, <3>3 DEF WorkerInv, Loop, Step
    <3>. QED
      BY <3>2, <3>3
  <2>. QED
    BY <2>1, <2>2
<1>5. SentWasMailed'
  <2>. SUFFICES ASSUME NEW o \in Order, job'[o].status = "SENT" PROVE mails'[o] > 0
    BY DEF SentWasMailed
  <2>1. mails[o] \in Nat /\ mails'[o] \in Nat /\ mails'[o] >= mails[o]
    BY DEF RowsInv, TypeOK, Steady
  <2>2. mails[o] > 0
    BY DEF RowsInv, SentWasMailed
  <2>. QED
    BY <2>1, <2>2
<1>. QED
  BY <1>2, <1>3, <1>4, <1>5 DEF RowsInv

LEMMA IdleLoop == Idle \in Loop
BY DEF Idle, Loop, Step

\* What a worker that holds a job may rely on.
LEMMA AtWork ==
  ASSUME RowsInv, NEW w \in Worker, worker[w].pc \notin {"idle", "find"}
  PROVE  /\ worker[w].job \in Order
         /\ Held(w) \in Job /\ Held(w).status # "absent"
         /\ worker[w].pc = "sent" => mails[worker[w].job] > 0
BY DEF RowsInv, TypeOK, WorkerInv, Held

\* Goto is Become with the same job.
LEMMA GotoMoves ==
  ASSUME TypeOK, NEW w \in Worker, NEW pc \in Step, Goto(w, pc)
  PROVE  /\ [pc |-> pc, job |-> worker[w].job, seen |-> worker[w].seen] \in Loop
         /\ Become(w, [pc |-> pc, job |-> worker[w].job, seen |-> worker[w].seen])
<1>1. worker[w] \in Loop /\ worker \in [Worker -> Loop]
  BY DEF TypeOK
<1>2. [worker[w] EXCEPT !.pc = pc] =
        [pc |-> pc, job |-> worker[w].job, seen |-> worker[w].seen]
  BY <1>1 DEF Loop
<1>. QED
  BY <1>1, <1>2 DEF Goto, Become, Loop

-------------------------------------------------------------------------------
LEMMA InitInv == Init => RowsInv
BY DEF Init, RowsInv, TypeOK, QueueInv, WorkerInv, SentWasMailed, NoJob, Job, JobStatus,
       Lock, Idle, Loop, Step

LEMMA EnqueueInv ==
  ASSUME RowsInv, NEW o \in Order, Enqueue(o)
  PROVE  RowsInv'
<1>1. CASE job[o].status = "absent"
  <2>1. /\ job' = [job EXCEPT ![o].status = "PENDING"] /\ queue' = Append(queue, o)
        /\ UNCHANGED <<mails, worker, lost, expired, crashes>>
    BY <1>1 DEF Enqueue
  <2>2. /\ job' \in [Order -> Job] /\ job'[o].status = "PENDING"
        /\ \A p \in Order : p # o => job'[p] = job[p]
    BY <2>1 DEF RowsInv, TypeOK, Job, JobStatus
  <2>3. queue \in Seq(Order) /\ queue' \in Seq(Order)
    BY <2>1 DEF RowsInv, TypeOK
  <2>4. TypeOK'
    BY <2>1, <2>2, <2>3 DEF RowsInv, TypeOK
  <2>5. QueueInv'
    <3>1. /\ Len(queue') = Len(queue) + 1 /\ queue'[Len(queue) + 1] = o
          /\ \A i \in 1..Len(queue) : queue'[i] = queue[i] /\ queue[i] \in Order
      BY <2>1, <2>3
    <3>2. \A i \in 1..Len(queue') : job'[queue'[i]].status # "absent"
      BY <3>1, <2>2, <2>3 DEF RowsInv, QueueInv
    <3>3. ASSUME NEW p \in Order, job'[p].status # "absent"
          PROVE  \E i \in 1..Len(queue') : queue'[i] = p
      <4>1. CASE p = o
        BY <4>1, <3>1, <2>3
      <4>2. CASE p # o
        <5>1. PICK i \in 1..Len(queue) : queue[i] = p
          BY <4>2, <3>3, <2>2 DEF RowsInv, QueueInv
        <5>. QED
          BY <5>1, <3>1, <2>3
      <4>. QED
        BY <4>1, <4>2
    <3>. QED
      BY <3>2, <3>3 DEF QueueInv
  <2>6. \A w \in Worker : WorkerInv(w)'
    BY <2>1, <2>2 DEF RowsInv, WorkerInv, Held
  <2>7. SentWasMailed'
    BY <2>1, <2>2 DEF RowsInv, SentWasMailed
  <2>. QED
    BY <2>4, <2>5, <2>6, <2>7 DEF RowsInv
<1>2. CASE job[o].status # "absent"
  BY <1>2 DEF Enqueue, RowsInv, TypeOK, QueueInv, WorkerInv, Held, SentWasMailed
<1>. QED
  BY <1>1, <1>2

\* Moves that touch neither the rows nor the mails.
LEMMA QuietStep ==
  ASSUME RowsInv, NEW w \in Worker,
         \/ FindJob(w) \/ FindNothing(w) \/ ClaimMissed(w)
         \/ SendRefused(w) \/ WorkerDies(w)
  PROVE  RowsInv'
<1>1. /\ job' = job /\ mails' = mails /\ queue' = queue
      /\ lost' \in 0..MaxLost /\ expired' \in 0..MaxExpired /\ crashes' \in 0..MaxCrashes
  BY DEF FindJob, FindNothing, ClaimMissed, SendRefused, WorkerDies, RowsInv, TypeOK
<1>2. /\ Steady /\ job' \in [Order -> Job] /\ mails' \in [Order -> Nat]
      /\ \A o \in Order : job'[o].status = "SENT" => job[o].status = "SENT" \/ mails[o] > 0
  BY <1>1 DEF Steady, RowsInv, TypeOK
<1>3. CASE FindJob(w)
  <2>1. PICK i \in 1..Len(queue) :
          /\ job[queue[i]].status = "PENDING"
          /\ Become(w, [pc |-> "claim", job |-> queue[i], seen |-> 0])
    BY <1>3 DEF FindJob, Due
  <2>2. queue[i] \in Order
    BY DEF RowsInv, TypeOK
  <2>3. [pc |-> "claim", job |-> queue[i], seen |-> 0] \in Loop
    BY <2>2 DEF Loop, Step
  <2>. QED
    BY <1>1, <1>2, <2>1, <2>2, <2>3, WorkerMoves
<1>4. CASE FindNothing(w) \/ ClaimMissed(w) \/ WorkerDies(w)
  <2>1. Become(w, Idle) /\ Idle.pc = "idle"
    BY <1>4 DEF FindNothing, ClaimMissed, WorkerDies, Idle
  <2>. QED
    BY <1>1, <1>2, <2>1, IdleLoop, WorkerMoves
<1>5. CASE SendRefused(w)
  <2>1. Goto(w, "fail") /\ worker[w].pc \notin {"idle", "find"} /\ "fail" \in Step
    BY <1>5 DEF SendRefused, At, Step
  <2>2. /\ [pc |-> "fail", job |-> worker[w].job, seen |-> worker[w].seen] \in Loop
        /\ Become(w, [pc |-> "fail", job |-> worker[w].job, seen |-> worker[w].seen])
    BY <2>1, GotoMoves DEF RowsInv
  <2>3. worker[w].job \in Order /\ job[worker[w].job].status # "absent"
    BY <2>1, AtWork DEF Held
  <2>. QED
    BY <1>1, <1>2, <2>2, <2>3, WorkerMoves
<1>. QED
  BY <1>3, <1>4, <1>5

\* Moves that write rows: none makes or removes one, none writes SENT but MarkSent.
LEMMA RequeueInv ==
  ASSUME RowsInv, NEW w \in Worker, Requeue(w)
  PROVE  RowsInv'
<1>1. /\ job' \in [Order -> Job] /\ mails' = mails
      /\ \A o \in Order : job'[o] = job[o] \/ (Stale(job[o]) /\ job'[o].status = "PENDING")
  BY DEF Requeue, RowsInv, TypeOK, Job, JobStatus, Lock
<1>2. Steady
  BY <1>1 DEF Steady, Stale, RowsInv, TypeOK
<1>3. Become(w, Round) /\ Round.pc = "find"
  BY DEF Requeue, Round
<1>4. Round \in Loop
  BY DEF Round, Loop, Step, RowsInv, TypeOK
<1>. QED
  BY <1>1, <1>2, <1>3, <1>4, WorkerMoves DEF Requeue, RowsInv, TypeOK

LEMMA ClaimStepInv ==
  ASSUME RowsInv, NEW w \in Worker, Claim(w)
  PROVE  RowsInv'
<1>. DEFINE l == [pc |-> "send", job |-> worker[w].job, seen |-> worker[w].seen]
<1>1. worker[w].job \in Order /\ Held(w) \in Job /\ Held(w).status = "PENDING"
  BY AtWork DEF Claim, At
<1>2. /\ job' \in [Order -> Job] /\ job'[worker[w].job].status = "PROCESSING"
      /\ \A o \in Order : o # worker[w].job => job'[o] = job[o]
  BY <1>1 DEF Claim, Write, Held, RowsInv, TypeOK, Job, JobStatus, Lock
<1>3. Steady
  BY <1>1, <1>2 DEF Steady, Claim, Write, Held, RowsInv, TypeOK
<1>4. l \in Loop /\ Become(w, l)
  BY GotoMoves DEF Claim, Step, RowsInv
<1>5. \A o \in Order : job'[o].status = "SENT" => job[o].status = "SENT"
  BY <1>2
<1>. QED
  BY <1>1, <1>2, <1>3, <1>4, <1>5, WorkerMoves DEF Claim, Held, RowsInv, TypeOK

LEMMA SendInv ==
  ASSUME RowsInv, NEW w \in Worker, SendSucceeds(w) \/ SendUnanswered(w)
  PROVE  RowsInv'
<1>1. PICK pc \in {"sent", "fail"} : Goto(w, pc)
  BY DEF SendSucceeds, SendUnanswered
<1>. DEFINE l == [pc |-> pc, job |-> worker[w].job, seen |-> worker[w].seen]
<1>2. worker[w].job \in Order /\ job[worker[w].job].status # "absent"
  BY AtWork DEF SendSucceeds, SendUnanswered, At, Held
<1>3. l \in Loop /\ Become(w, l)
  BY <1>1, GotoMoves DEF Step, RowsInv
<1>4. /\ mails' = [mails EXCEPT ![worker[w].job] = @ + 1] /\ job' = job /\ queue' = queue
      /\ lost' \in 0..MaxLost /\ expired' \in 0..MaxExpired /\ crashes' \in 0..MaxCrashes
  BY DEF SendSucceeds, SendUnanswered, LoseOne, RowsInv, TypeOK
<1>5. mails' \in [Order -> Nat] /\ mails'[worker[w].job] > 0
  BY <1>2, <1>4 DEF RowsInv, TypeOK
<1>6. Steady
  BY <1>2, <1>4 DEF Steady, RowsInv, TypeOK
<1>. QED
  BY <1>2, <1>3, <1>4, <1>5, <1>6, WorkerMoves DEF RowsInv, TypeOK

LEMMA MarkInv ==
  ASSUME RowsInv, NEW w \in Worker, MarkSent(w) \/ MarkFailed(w) \/ GiveUp(w)
  PROVE  RowsInv'
<1>1. /\ worker[w].job \in Order /\ Held(w) \in Job /\ Held(w).status # "absent"
      /\ worker[w].pc = "sent" => mails[worker[w].job] > 0
  BY AtWork DEF MarkSent, MarkFailed, GiveUp, At
<1>2. /\ job' \in [Order -> Job] /\ job'[worker[w].job].status # "absent"
      /\ \A o \in Order : o # worker[w].job => job'[o] = job[o]
  <2>1. PICK status \in JobStatus, attempts \in Nat : Write(w, status, attempts, "none")
    BY <1>1 DEF MarkSent, MarkFailed, GiveUp, Job, JobStatus
  <2>. QED
    BY <2>1, <1>1 DEF Write, RowsInv, TypeOK, Job, JobStatus, Lock
<1>3. job'[worker[w].job].status = "SENT" => worker[w].pc = "sent"
  BY <1>1 DEF MarkSent, MarkFailed, GiveUp, At, Write, RowsInv, TypeOK, Job
<1>4. /\ mails' = mails /\ queue' = queue
      /\ lost' = lost /\ expired' = expired /\ crashes' = crashes
      /\ mails' \in [Order -> Nat] /\ lost' \in 0..MaxLost
      /\ expired' \in 0..MaxExpired /\ crashes' \in 0..MaxCrashes
  BY DEF MarkSent, MarkFailed, GiveUp, RowsInv, TypeOK
<1>5. Steady
  BY <1>1, <1>2, <1>4 DEF Steady, Held
<1>6. \A o \in Order : job'[o].status = "SENT" => job[o].status = "SENT" \/ mails[o] > 0
  BY <1>1, <1>2, <1>3
<1>7. CASE Become(w, Idle)
  BY <1>2, <1>4, <1>5, <1>6, <1>7, IdleLoop, WorkerMoves DEF Idle
<1>8. CASE Goto(w, "giveUp")
  <2>1. /\ [pc |-> "giveUp", job |-> worker[w].job, seen |-> worker[w].seen] \in Loop
        /\ Become(w, [pc |-> "giveUp", job |-> worker[w].job, seen |-> worker[w].seen])
    BY <1>8, GotoMoves DEF Step, RowsInv
  <2>. QED
    BY <1>1, <1>2, <1>4, <1>5, <1>6, <2>1, WorkerMoves DEF Held
<1>. QED
  BY <1>7, <1>8 DEF MarkSent, MarkFailed, GiveUp

\* A lost answer: the statement took effect or did not.
LEMMA ErrsInv ==
  ASSUME RowsInv, NEW w \in Worker, ClaimErrs(w) \/ MarkSentErrs(w) \/ MarkErrs(w)
  PROVE  RowsInv'
<1>. DEFINE b == worker[w].job
<1>1. /\ b \in Order /\ Held(w) \in Job /\ Held(w).status # "absent"
      /\ worker[w].pc = "sent" => mails[b] > 0
      /\ worker[w].pc \notin {"idle", "find"}
  BY AtWork DEF ClaimErrs, MarkSentErrs, MarkErrs, At
<1>2. \/ UNCHANGED job
      \/ \E status \in JobStatus, attempts \in Nat, lock \in Lock :
           /\ Write(w, status, attempts, lock)
           /\ status = "SENT" => worker[w].pc = "sent"
  <2>1. Held(w).attempts \in Nat /\ Held(w).attempts + 1 \in Nat
    BY <1>1 DEF Job
  <2>2. {"PENDING", "PROCESSING", "SENT", "FAILED"} = JobStatus /\ {"none", "fresh"} \subseteq Lock
    BY DEF JobStatus, Lock
  <2>. QED
    BY <2>1, <2>2 DEF ClaimErrs, MarkSentErrs, MarkErrs, At
<1>3. /\ job' \in [Order -> Job] /\ job'[b].status # "absent"
      /\ \A o \in Order : o # b => job'[o] = job[o]
      /\ job'[b].status = "SENT" => job[b].status = "SENT" \/ mails[b] > 0
  <2>1. CASE UNCHANGED job
    BY <2>1, <1>1 DEF Held, RowsInv, TypeOK
  <2>2. CASE \E status \in JobStatus, attempts \in Nat, lock \in Lock :
               /\ Write(w, status, attempts, lock)
               /\ status = "SENT" => worker[w].pc = "sent"
    BY <2>2, <1>1 DEF Write, RowsInv, TypeOK, Job, JobStatus
  <2>. QED
    BY <1>2, <2>1, <2>2
<1>4. /\ mails' = mails /\ queue' = queue
      /\ mails' \in [Order -> Nat] /\ lost' \in 0..MaxLost
      /\ expired' \in 0..MaxExpired /\ crashes' \in 0..MaxCrashes
  BY DEF ClaimErrs, MarkSentErrs, MarkErrs, LoseOne, RowsInv, TypeOK
<1>5. Steady
  BY <1>1, <1>3, <1>4 DEF Steady, Held
<1>6. \A o \in Order : job'[o].status = "SENT" => job[o].status = "SENT" \/ mails[o] > 0
  BY <1>3
<1>7. CASE Become(w, Idle)
  BY <1>3, <1>4, <1>5, <1>6, <1>7, IdleLoop, WorkerMoves DEF Idle
<1>8. CASE Goto(w, "fail")
  <2>1. /\ [pc |-> "fail", job |-> b, seen |-> worker[w].seen] \in Loop
        /\ Become(w, [pc |-> "fail", job |-> b, seen |-> worker[w].seen])
    BY <1>8, GotoMoves DEF Step, RowsInv
  <2>. QED
    BY <1>1, <1>3, <1>4, <1>5, <1>6, <2>1, WorkerMoves DEF Held
<1>. QED
  BY <1>7, <1>8 DEF ClaimErrs, MarkSentErrs, MarkErrs

LEMMA AgeInv ==
  ASSUME RowsInv, NEW o \in Order, LockAges(o) \/ LockExpires(o)
  PROVE  RowsInv'
<1>1. /\ job' \in [Order -> Job] /\ \A p \in Order : job'[p].status = job[p].status
      /\ UNCHANGED <<queue, mails, worker, lost, crashes>> /\ expired' \in 0..MaxExpired
  <2>1. job' = [job EXCEPT ![o].lock = "stale"]
    BY DEF LockAges, LockExpires
  <2>2. job' \in [Order -> Job] /\ \A p \in Order : job'[p].status = job[p].status
    BY <2>1 DEF RowsInv, TypeOK, Job, Lock
  <2>3. UNCHANGED <<queue, mails, worker, lost, crashes>> /\ expired' \in 0..MaxExpired
    BY DEF LockAges, LockExpires, RowsInv, TypeOK
  <2>. QED
    BY <2>2, <2>3
<1>2. TypeOK' /\ SentWasMailed'
  BY <1>1 DEF RowsInv, TypeOK, SentWasMailed
<1>3. QueueInv'
  BY <1>1, QueueStays
<1>4. \A w \in Worker : WorkerInv(w)'
  BY <1>1 DEF RowsInv, WorkerInv, Held
<1>. QED
  BY <1>2, <1>3, <1>4 DEF RowsInv

LEMMA NextRows == RowsInv /\ [Next]_vars => RowsInv'
<1>. SUFFICES ASSUME RowsInv, [Next]_vars PROVE RowsInv'
  OBVIOUS
<1>1. ASSUME NEW w \in Worker, Continue(w) \/ WorkerDies(w) PROVE RowsInv'
  BY <1>1, QuietStep, RequeueInv, ClaimStepInv, SendInv, MarkInv, ErrsInv DEF Continue
<1>2. ASSUME NEW o \in Order, Enqueue(o) \/ LockAges(o) \/ LockExpires(o) PROVE RowsInv'
  BY <1>2, EnqueueInv, AgeInv
<1>3. CASE UNCHANGED vars
  BY <1>3 DEF vars, RowsInv, TypeOK, QueueInv, WorkerInv, Held, SentWasMailed
<1>. QED
  BY <1>1, <1>2, <1>3 DEF Next

-------------------------------------------------------------------------------
\* The exclusive claims, until a statement fails or a lock expires early.
Claims == \A w \in Worker : ClaimInv(w)

\* A worker that takes up no job leaves the others' claims alone as long as the
\* rows they work on are.
LEMMA ClaimsStay ==
  ASSUME RowsInv, Claims, Exclusive,
         \A v \in Worker : Working(v)' =>
           /\ Working(v) /\ worker'[v].job = worker[v].job
           /\ \/ job'[worker[v].job] = job[worker[v].job]
              \/ job'[worker[v].job].status = "FAILED" /\ job'[worker[v].job].lock = "none"
  PROVE  Claims' /\ Exclusive'
<1>1. \A v \in Worker : ClaimInv(v)'
  BY DEF Claims, ClaimInv, Held
<1>2. Exclusive'
  BY DEF Exclusive
<1>. QED
  BY <1>1, <1>2 DEF Claims

LEMMA ClaimExclusive ==
  ASSUME RowsInv, Claims, Exclusive, NEW w \in Worker, Claim(w)
  PROVE  Claims' /\ Exclusive'
<1>1. /\ worker[w].job \in Order /\ job[worker[w].job].status = "PENDING"
      /\ job[worker[w].job] \in Job
  BY AtWork DEF Claim, At, Held
<1>2. /\ worker'[w].job = worker[w].job /\ worker'[w].pc = "send"
      /\ \A v \in Worker : v # w => worker'[v] = worker[v]
  BY DEF Claim, Goto, RowsInv, TypeOK, Loop
<1>3. /\ job'[worker[w].job].status = "PROCESSING" /\ job'[worker[w].job].lock = "fresh"
      /\ \A o \in Order : o # worker[w].job => job'[o] = job[o]
  BY <1>1 DEF Claim, Write, RowsInv, TypeOK, Job
<1>4. \A v \in Worker : Working(v) => worker[v].job \in Order /\ worker[v].job # worker[w].job
  <2>. SUFFICES ASSUME NEW v \in Worker, Working(v)
                PROVE  worker[v].job \in Order /\ worker[v].job # worker[w].job
    OBVIOUS
  <2>1. worker[v].job \in Order
    BY AtWork DEF Working
  <2>2. Held(v).status # "PENDING"
    BY DEF Claims, ClaimInv
  <2>. QED
    BY <1>1, <2>1, <2>2 DEF Held
<1>5. ASSUME NEW v \in Worker PROVE ClaimInv(v)'
  BY <1>2, <1>3, <1>4 DEF Claims, ClaimInv, Working, Held
<1>6. Exclusive'
  BY <1>2, <1>4 DEF Exclusive, Working
<1>. QED
  BY <1>5, <1>6 DEF Claims

\* Requeue finds only rows nobody works on any more.
LEMMA RequeueExclusive ==
  ASSUME RowsInv, Claims, Exclusive, NEW w \in Worker, Requeue(w)
  PROVE  Claims' /\ Exclusive'
<1>1. /\ worker'[w].pc = "find"
      /\ \A v \in Worker : v # w => worker'[v] = worker[v]
  BY DEF Requeue, Become, Round, RowsInv, TypeOK, Loop
<1>2. ASSUME NEW v \in Worker, Working(v)'
      PROVE  /\ Working(v) /\ worker'[v].job = worker[v].job
             /\ job'[worker[v].job] = job[worker[v].job]
  <2>1. v # w /\ Working(v) /\ worker'[v].job = worker[v].job
    BY <1>1, <1>2 DEF Working
  <2>2. worker[v].job \in Order
    BY <2>1, AtWork DEF Working
  <2>3. ~Stale(job[worker[v].job])
    BY <2>1 DEF Claims, ClaimInv, Held, Stale
  <2>. QED
    BY <2>1, <2>2, <2>3 DEF Requeue
<1>. QED
  BY <1>2, ClaimsStay

\* A worker that moves on with its job, or puts it down, disturbs no other.
LEMMA WorkExclusive ==
  ASSUME RowsInv, Claims, Exclusive, NEW w \in Worker,
         \/ FindJob(w) \/ FindNothing(w) \/ ClaimMissed(w) \/ WorkerDies(w)
         \/ SendSucceeds(w) \/ SendRefused(w)
         \/ MarkSent(w) \/ MarkFailed(w) \/ GiveUp(w)
  PROVE  Claims' /\ Exclusive'
<1>1. \A v \in Worker : v # w => worker'[v] = worker[v]
  BY DEF FindJob, FindNothing, ClaimMissed, WorkerDies, SendSucceeds, SendRefused,
         MarkSent, MarkFailed, GiveUp, Become, Goto, RowsInv, TypeOK
<1>2. CASE FindJob(w) \/ FindNothing(w) \/ ClaimMissed(w) \/ WorkerDies(w)
  <2>1. job' = job /\ worker'[w].pc \notin {"send", "sent", "fail"}
    BY <1>2 DEF FindJob, FindNothing, ClaimMissed, WorkerDies, Become, Idle,
                 RowsInv, TypeOK
  <2>. QED
    BY <1>1, <2>1, ClaimsStay DEF Working
<1>3. CASE SendSucceeds(w) \/ SendRefused(w)
  <2>1. job' = job /\ Working(w) /\ worker'[w].job = worker[w].job
    BY <1>3 DEF SendSucceeds, SendRefused, Goto, At, Working, RowsInv, TypeOK, Loop
  <2>. QED
    BY <1>1, <2>1, ClaimsStay DEF Working
<1>4. CASE MarkSent(w) \/ MarkFailed(w)
  <2>1. /\ Working(w) /\ worker'[w].pc \notin {"send", "sent", "fail"}
        /\ \A o \in Order : o # worker[w].job => job'[o] = job[o]
    BY <1>4 DEF MarkSent, MarkFailed, Write, At, Working, Become, Goto, Idle,
                 RowsInv, TypeOK, Loop
  <2>2. ASSUME NEW v \in Worker, Working(v)'
        PROVE  /\ Working(v) /\ worker'[v].job = worker[v].job
               /\ job'[worker[v].job] = job[worker[v].job]
    <3>1. v # w /\ Working(v) /\ worker'[v].job = worker[v].job
      BY <1>1, <2>1, <2>2 DEF Working
    <3>2. worker[v].job \in Order
      BY <3>1, AtWork DEF Working
    <3>3. worker[v].job # worker[w].job
      BY <2>1, <3>1 DEF Exclusive
    <3>. QED
      BY <2>1, <3>1, <3>2, <3>3
  <2>. QED
    BY <2>2, ClaimsStay
<1>5. CASE GiveUp(w)
  <2>1. /\ worker'[w].pc = "idle" /\ worker[w].job \in Order
        /\ job'[worker[w].job].status = "FAILED" /\ job'[worker[w].job].lock = "none"
        /\ \A o \in Order : o # worker[w].job => job'[o] = job[o]
    <3>1. worker[w].job \in Order
      BY <1>5, AtWork DEF GiveUp, At
    <3>. QED
      BY <1>5, <3>1 DEF GiveUp, Write, Become, Idle, RowsInv, TypeOK, Job
  <2>2. ASSUME NEW v \in Worker, Working(v)'
        PROVE  v # w /\ Working(v) /\ worker'[v].job = worker[v].job /\ worker[v].job \in Order
    <3>1. v # w /\ Working(v) /\ worker'[v].job = worker[v].job
      BY <1>1, <2>1, <2>2 DEF Working
    <3>. QED
      BY <3>1, AtWork DEF Working
  <2>. QED
    BY <2>1, <2>2, ClaimsStay
<1>. QED
  BY <1>2, <1>3, <1>4, <1>5

LEMMA EnqueueExclusive ==
  ASSUME RowsInv, Claims, Exclusive, NEW o \in Order, Enqueue(o)
  PROVE  Claims' /\ Exclusive'
<1>1. ASSUME NEW v \in Worker, Working(v)'
      PROVE  /\ Working(v) /\ worker'[v].job = worker[v].job
             /\ job'[worker[v].job] = job[worker[v].job]
  <2>1. Working(v) /\ worker' = worker
    BY <1>1 DEF Enqueue, Working
  <2>2. worker[v].job \in Order /\ job[worker[v].job].status # "absent"
    BY <2>1, AtWork DEF Working, Held
  <2>. QED
    BY <2>1, <2>2 DEF Enqueue, RowsInv, TypeOK
<1>. QED
  BY <1>1, ClaimsStay

LEMMA AgeExclusive ==
  ASSUME RowsInv, Claims, Exclusive, NEW o \in Order, LockAges(o)
  PROVE  Claims' /\ Exclusive'
<1>1. ASSUME NEW v \in Worker, Working(v)'
      PROVE  /\ Working(v) /\ worker'[v].job = worker[v].job
             /\ job'[worker[v].job] = job[worker[v].job]
  <2>1. Working(v) /\ worker' = worker
    BY <1>1 DEF LockAges, Working
  <2>2. worker[v].job \in Order
    BY <2>1, AtWork DEF Working
  <2>3. worker[v].job # o
    BY <2>1 DEF LockAges, WorkedOn
  <2>. QED
    BY <2>1, <2>2, <2>3 DEF LockAges, RowsInv, TypeOK
<1>. QED
  BY <1>1, ClaimsStay

LEMMA NextExclusive ==
  ASSUME RowsInv, Claims, Exclusive, Undisturbed', [Next]_vars
  PROVE  Claims' /\ Exclusive'
<1>1. ~LoseOne /\ \A o \in Order : ~LockExpires(o)
  BY DEF LoseOne, LockExpires, Undisturbed, RowsInv, TypeOK
<1>2. ASSUME NEW w \in Worker, Continue(w) \/ WorkerDies(w)
      PROVE  Claims' /\ Exclusive'
  <2>1. ~ClaimErrs(w) /\ ~SendUnanswered(w) /\ ~MarkSentErrs(w) /\ ~MarkErrs(w)
    BY <1>1 DEF ClaimErrs, SendUnanswered, MarkSentErrs, MarkErrs
  <2>. QED
    BY <1>2, <2>1, ClaimExclusive, RequeueExclusive, WorkExclusive DEF Continue
<1>3. ASSUME NEW o \in Order, Enqueue(o) \/ LockAges(o)
      PROVE  Claims' /\ Exclusive'
  BY <1>3, EnqueueExclusive, AgeExclusive
<1>4. CASE UNCHANGED vars
  BY <1>4 DEF vars, Claims, ClaimInv, Working, Held, Exclusive
<1>. QED
  BY <1>1, <1>2, <1>3, <1>4 DEF Next

\* A disturbance is not forgotten.
LEMMA StaysDisturbed ==
  ASSUME RowsInv, [Next]_vars, Undisturbed' PROVE Undisturbed
<1>1. lost' \in {lost, lost + 1} /\ expired' \in {expired, expired + 1}
  BY DEF Next, Continue, Requeue, FindJob, FindNothing, Claim, ClaimMissed, ClaimErrs,
         SendSucceeds, SendRefused, SendUnanswered, MarkSent, MarkSentErrs, MarkFailed,
         GiveUp, MarkErrs, WorkerDies, Enqueue, LockAges, LockExpires, LoseOne, vars
<1>. QED
  BY <1>1 DEF Undisturbed, RowsInv, TypeOK

LEMMA NextInv == IInv /\ [Next]_vars => IInv'
<1>. SUFFICES ASSUME IInv, [Next]_vars
              PROVE  RowsInv' /\ (Undisturbed' => Claims' /\ Exclusive')
  BY DEF IInv, Claims
<1>1. RowsInv'
  BY NextRows DEF IInv
<1>2. ASSUME Undisturbed' PROVE Claims' /\ Exclusive'
  <2>1. RowsInv /\ Claims /\ Exclusive
    BY <1>2, StaysDisturbed DEF IInv, Claims
  <2>. QED
    BY <1>2, <2>1, NextExclusive
<1>. QED
  BY <1>1, <1>2

\* Every row has its place in the queue, every worker that holds a job holds a
\* row, and undisturbed claims exclude each other (notification-job.service).
THEOREM Invariance == Spec => []IInv
<1>1. Init => IInv
  <2>1. Init => \A w \in Worker : ~Working(w)
    BY DEF Init, Working, Idle
  <2>. QED
    BY <2>1, InitInv DEF IInv, ClaimInv, Exclusive
<1>2. IInv /\ [Next]_vars => IInv'
  BY NextInv
<1>. QED
  BY <1>1, <1>2, PTL DEF Spec

\* A job says SENT only if the mail was accepted (markNotificationJobSent), for
\* any number of workers, crashes and lost answers and also when locks expire.
THEOREM SentWasMailedTheorem == Spec => []SentWasMailed
<1>1. IInv => SentWasMailed
  BY DEF IInv, RowsInv
<1>. QED
  BY <1>1, Invariance, PTL

\* Undisturbed, a job is in the hands of one worker, for any number of workers
\* and crashes (the conditional update of claimNextNotificationJob and
\* requeueStaleProcessingNotificationJobs).
THEOREM OneWorkerPerJobTheorem == Spec => []OneWorkerPerJob
<1>1. IInv => OneWorkerPerJob
  BY DEF IInv, OneWorkerPerJob
<1>. QED
  BY <1>1, Invariance, PTL
-------------------------------------------------------------------------------
\* Calm: one mail per order

\* Who works on a job goes on, or the job's row is not PROCESSING any more; nobody
\* else is about to send its mail.
LEMMA MailsStay ==
  ASSUME MailsInv, UNCHANGED mails,
         \A o \in Order : job'[o].status \in {"absent", "PENDING"} => mails[o] = 0,
         \A o \in Order : job'[o].status = "PROCESSING" => WorkedOn(o)',
         \A v \in Worker : worker'[v].pc \in {"send", "fail"} =>
           mails[worker'[v].job] = 0
  PROVE  MailsInv'
BY DEF MailsInv

\* Moves that write no row.
LEMMA MailsQuiet ==
  ASSUME RowsInv, MailsInv, NEW w \in Worker,
         FindJob(w) \/ FindNothing(w) \/ ClaimMissed(w) \/ SendRefused(w)
  PROVE  MailsInv'
<1>1. UNCHANGED <<job, mails>> /\ \A v \in Worker : v # w => worker'[v] = worker[v]
  BY DEF FindJob, FindNothing, ClaimMissed, SendRefused, Become, Goto, RowsInv, TypeOK
<1>2. \/ ~Working(w) /\ worker'[w].pc \in {"idle", "claim"}
      \/ /\ worker[w].pc = "send" /\ worker'[w].pc = "fail"
         /\ worker'[w].job = worker[w].job
  BY DEF FindJob, FindNothing, ClaimMissed, SendRefused, Become, Goto, At, Working,
         Idle, RowsInv, TypeOK, Loop
<1>3. \A o \in Order : WorkedOn(o) => WorkedOn(o)'
  BY <1>1, <1>2 DEF WorkedOn, Working
<1>4. \A v \in Worker : worker'[v].pc \in {"send", "fail"} => mails[worker'[v].job] = 0
  BY <1>1, <1>2 DEF MailsInv
<1>. QED
  BY <1>1, <1>3, <1>4, MailsStay DEF MailsInv

LEMMA MailsClaimed ==
  ASSUME RowsInv, MailsInv, NEW w \in Worker, Claim(w)
  PROVE  MailsInv'
<1>1. /\ worker[w].job \in Order /\ job[worker[w].job].status = "PENDING"
      /\ worker[w].pc = "claim" /\ UNCHANGED mails
  BY AtWork DEF Claim, At, Held
<1>2. /\ worker'[w].job = worker[w].job /\ worker'[w].pc = "send"
      /\ \A v \in Worker : v # w => worker'[v] = worker[v]
  BY DEF Claim, Goto, RowsInv, TypeOK, Loop
<1>3. /\ job'[worker[w].job].status = "PROCESSING"
      /\ \A o \in Order : o # worker[w].job => job'[o] = job[o]
  BY <1>1 DEF Claim, Write, RowsInv, TypeOK, Job
<1>4. \A o \in Order : WorkedOn(o) \/ o = worker[w].job => WorkedOn(o)'
  BY <1>1, <1>2 DEF WorkedOn, Working
<1>5. \A v \in Worker : worker'[v].pc \in {"send", "fail"} => mails[worker'[v].job] = 0
  BY <1>1, <1>2 DEF MailsInv
<1>. QED
  BY <1>1, <1>3, <1>4, <1>5, MailsStay DEF MailsInv

\* The mail goes out: nobody else works on the job, and its row is not open.
LEMMA MailsSent ==
  ASSUME RowsInv, Claims, Exclusive, MailsInv, NEW w \in Worker, SendSucceeds(w)
  PROVE  MailsInv'
<1>. DEFINE b == worker[w].job
<1>1. /\ b \in Order /\ Working(w) /\ mails[b] = 0 /\ job' = job
      /\ job[b].status \in {"PROCESSING", "FAILED"}
  BY AtWork DEF SendSucceeds, At, Working, MailsInv, Claims, ClaimInv, Held
<1>2. /\ worker'[w].job = b /\ worker'[w].pc = "sent"
      /\ \A v \in Worker : v # w => worker'[v] = worker[v]
  BY DEF SendSucceeds, Goto, RowsInv, TypeOK, Loop
<1>3. mails'[b] = 1 /\ \A o \in Order : o # b => mails'[o] = mails[o]
  BY <1>1 DEF SendSucceeds, RowsInv, TypeOK
<1>4. \A o \in Order : WorkedOn(o) => WorkedOn(o)'
  BY <1>1, <1>2 DEF WorkedOn, Working
<1>5. ASSUME NEW v \in Worker, worker'[v].pc \in {"send", "fail"}
      PROVE  mails'[worker'[v].job] = 0
  <2>1. v # w /\ Working(v) /\ worker'[v] = worker[v]
    BY <1>2, <1>5 DEF Working
  <2>2. worker[v].job \in Order
    BY <2>1, AtWork DEF Working
  <2>3. worker[v].job # b
    BY <1>1, <2>1 DEF Exclusive
  <2>. QED
    BY <1>3, <1>5, <2>1, <2>2, <2>3 DEF MailsInv
<1>. QED
  BY <1>1, <1>3, <1>4, <1>5 DEF MailsInv

\* MarkSent and MarkFailed: the one worker of the job puts it down.
LEMMA MailsMarked ==
  ASSUME RowsInv, Claims, Exclusive, MailsInv, NEW w \in Worker,
         MarkSent(w) \/ MarkFailed(w)
  PROVE  MailsInv'
<1>. DEFINE b == worker[w].job
<1>1. b \in Order /\ Working(w) /\ UNCHANGED mails
  BY AtWork DEF MarkSent, MarkFailed, At, Working
<1>2. /\ worker'[w].pc \in {"idle", "giveUp"}
      /\ \A v \in Worker : v # w => worker'[v] = worker[v]
  BY DEF MarkSent, MarkFailed, Become, Goto, Idle, RowsInv, TypeOK, Loop
<1>3. /\ job'[b].status \in {"SENT", "PENDING"}
      /\ job'[b].status = "PENDING" => worker[w].pc = "fail"
      /\ \A o \in Order : o # b => job'[o] = job[o]
  BY <1>1 DEF MarkSent, MarkFailed, Write, At, RowsInv, TypeOK
<1>4. job'[b].status = "PENDING" => mails[b] = 0
  BY <1>3 DEF MailsInv
<1>5. ASSUME NEW o \in Order, o # b, WorkedOn(o) PROVE WorkedOn(o)'
  BY <1>1, <1>2, <1>5 DEF WorkedOn, Working
<1>6. \A v \in Worker : worker'[v].pc \in {"send", "fail"} => mails[worker'[v].job] = 0
  BY <1>2 DEF MailsInv
<1>. QED
  BY <1>1, <1>3, <1>4, <1>5, <1>6, MailsStay DEF MailsInv

LEMMA MailsGivenUp ==
  ASSUME RowsInv, MailsInv, NEW w \in Worker, GiveUp(w)
  PROVE  MailsInv'
<1>. DEFINE b == worker[w].job
<1>1. b \in Order /\ ~Working(w) /\ UNCHANGED mails
  BY AtWork DEF GiveUp, At, Working
<1>2. worker'[w].pc = "idle" /\ \A v \in Worker : v # w => worker'[v] = worker[v]
  BY DEF GiveUp, Become, Idle, RowsInv, TypeOK
<1>3. job'[b].status = "FAILED" /\ \A o \in Order : o # b => job'[o] = job[o]
  BY <1>1 DEF GiveUp, Write, RowsInv, TypeOK
<1>4. \A o \in Order : WorkedOn(o) => WorkedOn(o)'
  BY <1>1, <1>2 DEF WorkedOn, Working
<1>5. \A v \in Worker : worker'[v].pc \in {"send", "fail"} => mails[worker'[v].job] = 0
  BY <1>2 DEF MailsInv
<1>. QED
  BY <1>1, <1>3, <1>4, <1>5, MailsStay DEF MailsInv

\* Somebody works on every PROCESSING row, so that none is stale.
LEMMA MailsRequeued ==
  ASSUME RowsInv, Claims, MailsInv, NEW w \in Worker, Requeue(w)
  PROVE  MailsInv'
<1>1. \A o \in Order : ~Stale(job[o])
  <2>. SUFFICES ASSUME NEW o \in Order, Stale(job[o]) PROVE FALSE
    OBVIOUS
  <2>1. PICK v \in Worker : Working(v) /\ worker[v].job = o
    BY DEF Stale, MailsInv, WorkedOn
  <2>. QED
    BY <2>1 DEF Stale, Claims, ClaimInv, Held
<1>2. \A o \in Order : job'[o] = job[o]
  BY <1>1 DEF Requeue
<1>3. /\ UNCHANGED mails /\ ~Working(w) /\ worker'[w].pc = "find"
      /\ \A v \in Worker : v # w => worker'[v] = worker[v]
  BY DEF Requeue, At, Working, Become, Round, RowsInv, TypeOK
<1>4. \A o \in Order : WorkedOn(o) => WorkedOn(o)'
  BY <1>3 DEF WorkedOn, Working
<1>5. \A v \in Worker : worker'[v].pc \in {"send", "fail"} => mails[worker'[v].job] = 0
  BY <1>3 DEF MailsInv
<1>. QED
  BY <1>2, <1>3, <1>4, <1>5, MailsStay DEF MailsInv

\* The storefront's enqueue makes a PENDING row; an ageing lock changes no status.
LEMMA MailsOutside ==
  ASSUME RowsInv, MailsInv, NEW b \in Order, Enqueue(b) \/ LockAges(b)
  PROVE  MailsInv'
<1>1. UNCHANGED <<mails, worker>>
  BY DEF Enqueue, LockAges
<1>2. \A o \in Order : \/ job'[o].status = job[o].status
                       \/ job[o].status = "absent" /\ job'[o].status = "PENDING"
  <2>1. CASE job' = job
    BY <2>1
  <2>2. CASE job[b].status = "absent" /\ job' = [job EXCEPT ![b].status = "PENDING"]
    BY <2>2 DEF RowsInv, TypeOK, Job
  <2>3. CASE job' = [job EXCEPT ![b].lock = "stale"]
    BY <2>3 DEF RowsInv, TypeOK, Job
  <2>. QED
    BY <2>1, <2>2, <2>3 DEF Enqueue, LockAges
<1>3. \A o \in Order : WorkedOn(o) => WorkedOn(o)'
  BY <1>1 DEF WorkedOn, Working
<1>. QED
  BY <1>1, <1>2, <1>3, MailsStay DEF MailsInv

LEMMA StaysCalm ==
  ASSUME RowsInv, [Next]_vars, Calm' PROVE Calm
<1>1. crashes' \in {crashes, crashes + 1}
  BY DEF Next, Continue, Requeue, FindJob, FindNothing, Claim, ClaimMissed, ClaimErrs,
         SendSucceeds, SendRefused, SendUnanswered, MarkSent, MarkSentErrs, MarkFailed,
         GiveUp, MarkErrs, WorkerDies, Enqueue, LockAges, LockExpires, vars
<1>2. crashes = 0
  BY <1>1 DEF Calm, RowsInv, TypeOK
<1>. QED
  BY <1>2, StaysDisturbed DEF Calm

LEMMA NextMails ==
  ASSUME RowsInv, Claims, Exclusive, MailsInv, Calm', [Next]_vars
  PROVE  MailsInv'
<1>1. ~LoseOne /\ (\A o \in Order : ~LockExpires(o)) /\ (\A w \in Worker : ~WorkerDies(w))
  BY DEF LoseOne, LockExpires, WorkerDies, Calm, Undisturbed, RowsInv, TypeOK
<1>2. ASSUME NEW w \in Worker, Continue(w) PROVE MailsInv'
  <2>1. ~ClaimErrs(w) /\ ~SendUnanswered(w) /\ ~MarkSentErrs(w) /\ ~MarkErrs(w)
    BY <1>1 DEF ClaimErrs, SendUnanswered, MarkSentErrs, MarkErrs
  <2>. QED
    BY <1>2, <2>1, MailsQuiet, MailsClaimed, MailsSent, MailsMarked, MailsGivenUp,
       MailsRequeued DEF Continue
<1>3. ASSUME NEW o \in Order, Enqueue(o) \/ LockAges(o) PROVE MailsInv'
  BY <1>3, MailsOutside
<1>4. CASE UNCHANGED vars
  BY <1>4 DEF vars, MailsInv, WorkedOn, Working
<1>. QED
  BY <1>1, <1>2, <1>3, <1>4 DEF Next

-------------------------------------------------------------------------------
\* HeldIsOpen: an outcome stays

Locks == \A o \in Order : job[o].lock # "none" => job[o].status = "PROCESSING"

HeldIsOpen ==
  \A w \in Worker :
    /\ worker[w].pc \notin {"idle", "find"} =>
         Held(w).status \in {"PENDING", "PROCESSING"} \/ Misled(w)
    /\ worker[w].pc = "giveUp" => Held(w).status = "PENDING"

\* How each step leaves a row: made, locked, put down, requeued, aged, or as it was.
LEMMA RowSteps ==
  ASSUME RowsInv, Locks, [Next]_vars, NEW o \in Order
  PROVE  \/ job'[o] = job[o]
         \/ job[o].status = "absent" /\ job'[o].status = "PENDING"
                                     /\ job'[o].lock = job[o].lock
         \/ job'[o].status = "PROCESSING"
         \/ job'[o].lock = "none"
<1>. DEFINE Result == \/ job'[o] = job[o]
                      \/ job[o].status = "absent" /\ job'[o].status = "PENDING"
                                                  /\ job'[o].lock = job[o].lock
                      \/ job'[o].status = "PROCESSING"
                      \/ job'[o].lock = "none"
<1>1. job[o] \in Job /\ job \in [Order -> Job]
  BY DEF RowsInv, TypeOK
<1>2. ASSUME NEW w \in Worker, Continue(w) \/ WorkerDies(w) PROVE Result
  <2>1. CASE job' = job
    BY <2>1
  <2>2. CASE Requeue(w)
    BY <1>1, <2>2 DEF Requeue, Job
  <2>3. CASE Claim(w) \/ MarkSent(w) \/ MarkFailed(w) \/ GiveUp(w)
    BY <1>1, <2>3 DEF Claim, MarkSent, MarkFailed, GiveUp, Write
  <2>4. CASE ClaimErrs(w) \/ MarkSentErrs(w) \/ MarkErrs(w)
    BY <1>1, <2>4 DEF ClaimErrs, MarkSentErrs, MarkErrs, Write
  <2>. QED
    BY <1>2, <2>1, <2>2, <2>3, <2>4 DEF Continue, FindJob, FindNothing, ClaimMissed,
       SendSucceeds, SendRefused, SendUnanswered, WorkerDies
<1>3. ASSUME NEW p \in Order, Enqueue(p) \/ LockAges(p) \/ LockExpires(p) PROVE Result
  <2>1. CASE job' = job
    BY <2>1
  <2>2. CASE job[p].status = "absent" /\ job' = [job EXCEPT ![p].status = "PENDING"]
    BY <1>1, <2>2 DEF Job
  <2>3. CASE job[p].lock = "fresh" /\ job' = [job EXCEPT ![p].lock = "stale"]
    <3>1. job[p].status = "PROCESSING"
      BY <2>3 DEF Locks
    <3>. QED
      BY <1>1, <2>3, <3>1 DEF Job
  <2>. QED
    BY <1>3, <2>1, <2>2, <2>3 DEF Enqueue, LockAges, LockExpires
<1>4. CASE UNCHANGED vars
  BY <1>4 DEF vars
<1>. QED
  BY <1>2, <1>3, <1>4 DEF Next

LEMMA NextLocks ==
  ASSUME RowsInv, Locks, [Next]_vars PROVE Locks'
<1>. SUFFICES ASSUME NEW o \in Order, job'[o].lock # "none"
              PROVE  job'[o].status = "PROCESSING"
  BY DEF Locks
<1>1. CASE job[o].status = "absent" /\ job'[o].lock = job[o].lock
  BY <1>1 DEF Locks
<1>. QED
  BY <1>1, RowSteps DEF Locks

\* With one worker the job it holds is written by nobody else.
LEMMA NextAlone ==
  ASSUME RowsInv, Locks, OneWorker, HeldIsOpen, [Next]_vars
  PROVE  HeldIsOpen' /\ \A o \in Order : Settled(o) => job'[o] = job[o]
<1>. DEFINE Result == HeldIsOpen' /\ \A o \in Order : Settled(o) => job'[o] = job[o]
<1>1. job \in [Order -> Job] /\ worker \in [Worker -> Loop] /\ lost \in Nat
  BY DEF RowsInv, TypeOK
<1>2. ASSUME NEW w \in Worker, Continue(w) \/ WorkerDies(w) PROVE Result
  <2>. DEFINE b == worker[w].job
  <2>1. \A v \in Worker : v = w
    BY DEF OneWorker
  <2>2. CASE FindNothing(w) \/ ClaimMissed(w) \/ WorkerDies(w)
    <3>1. job' = job /\ worker'[w].pc = "idle"
      BY <1>1, <2>2 DEF FindNothing, ClaimMissed, WorkerDies, Become, Idle
    <3>. QED
      BY <2>1, <3>1 DEF HeldIsOpen
  <2>3. CASE FindJob(w)
    <3>1. PICK i \in 1..Len(queue) :
            /\ job[queue[i]].status = "PENDING"
            /\ Become(w, [pc |-> "claim", job |-> queue[i], seen |-> 0])
      BY <2>3 DEF FindJob, Due
    <3>2. job' = job /\ job'[worker'[w].job].status = "PENDING"
      BY <1>1, <2>3, <3>1 DEF FindJob, Become
    <3>. QED
      BY <2>1, <3>2 DEF HeldIsOpen, Held
  <2>4. CASE SendSucceeds(w) \/ SendRefused(w) \/ SendUnanswered(w)
    <3>1. /\ job' = job /\ worker'[w].job = b
          /\ worker[w].pc = "send" /\ worker'[w].pc # "giveUp"
      BY <1>1, <2>4 DEF SendSucceeds, SendRefused, SendUnanswered, At, Goto, Loop
    <3>2. Held(w).status \in {"PENDING", "PROCESSING"}
      BY <3>1 DEF HeldIsOpen, Misled, At
    <3>. QED
      BY <2>1, <3>1, <3>2 DEF HeldIsOpen, Held
  <2>5. CASE Requeue(w)
    <3>1. worker'[w].pc = "find"
      BY <1>1, <2>5 DEF Requeue, Become, Round
    <3>2. \A o \in Order : Settled(o) => job'[o] = job[o]
      BY <2>5 DEF Requeue, Stale, Settled
    <3>. QED
      BY <2>1, <3>1, <3>2 DEF HeldIsOpen
  <2>6. CASE \/ Claim(w) \/ ClaimErrs(w) \/ MarkSent(w) \/ MarkSentErrs(w)
             \/ MarkFailed(w) \/ GiveUp(w) \/ MarkErrs(w)
    <3>1. worker[w].pc \in {"claim", "sent", "fail", "giveUp"} /\ b \in Order
      BY <2>6, AtWork DEF Claim, ClaimErrs, MarkSent, MarkSentErrs, MarkFailed, GiveUp,
         MarkErrs, At
    <3>2. job[b].status \in {"PENDING", "PROCESSING"} \/ Misled(w)
      BY <3>1 DEF HeldIsOpen, Held
    <3>3. ~Settled(b)
      BY <1>1, <3>2 DEF Settled, Misled, Held
    <3>4. \A o \in Order : o # b => job'[o] = job[o]
      BY <1>1, <2>6 DEF Claim, ClaimErrs, MarkSent, MarkSentErrs, MarkFailed, GiveUp,
         MarkErrs, Write
    <3>5. CASE worker'[w].pc = "idle"
      BY <2>1, <3>3, <3>4, <3>5 DEF HeldIsOpen
    <3>6. CASE Claim(w) \/ (MarkFailed(w) /\ Goto(w, "giveUp"))
      <4>1. /\ worker'[w].job = b /\ job'[b].status \in {"PENDING", "PROCESSING"}
            /\ worker'[w].pc = "giveUp" => job'[b].status = "PENDING"
        BY <1>1, <3>1, <3>6 DEF Claim, MarkFailed, Write, Goto, Loop
      <4>. QED
        BY <2>1, <3>3, <3>4, <4>1 DEF HeldIsOpen, Held
    <3>7. CASE ClaimErrs(w) \/ MarkSentErrs(w)
      <4>1. worker'[w].job = b /\ worker'[w].pc = "fail" /\ lost' > 0
        BY <1>1, <3>7 DEF ClaimErrs, MarkSentErrs, Goto, Loop, LoseOne
      <4>2. job[b].status \in {"PENDING", "PROCESSING"}
        BY <3>2, <3>7 DEF ClaimErrs, MarkSentErrs, Misled, At
      <4>3. job'[b].status \in {"PENDING", "PROCESSING", "SENT"}
        BY <1>1, <3>1, <3>7, <4>2 DEF ClaimErrs, MarkSentErrs, Write
      <4>4. Held(w)'.status \in {"PENDING", "PROCESSING"} \/ Misled(w)'
        BY <4>1, <4>3 DEF Misled, At, Held
      <4>. QED
        BY <2>1, <3>3, <3>4, <4>1, <4>4 DEF HeldIsOpen
    <3>. QED
      BY <1>1, <2>6, <3>5, <3>6, <3>7
      DEF MarkSent, MarkFailed, GiveUp, MarkErrs, Become, Idle
  <2>. QED
    BY <1>2, <2>2, <2>3, <2>4, <2>5, <2>6 DEF Continue
<1>3. ASSUME NEW p \in Order, Enqueue(p) \/ LockAges(p) \/ LockExpires(p) PROVE Result
  <2>1. worker' = worker /\ lost' = lost
    BY <1>3 DEF Enqueue, LockAges, LockExpires
  <2>2. \A o \in Order : /\ o # p => job'[o] = job[o]
                         /\ \/ job'[o] = job[o]
                            \/ job[o].status \in {"absent", "PROCESSING"}
                         /\ \/ job'[o].status = job[o].status
                            \/ job'[o].status = "PENDING"
    <3>1. CASE job' = job
      BY <3>1
    <3>2. CASE job[p].status = "absent" /\ job' = [job EXCEPT ![p].status = "PENDING"]
      BY <1>1, <3>2 DEF Job
    <3>3. CASE job[p].lock = "fresh" /\ job' = [job EXCEPT ![p].lock = "stale"]
      <4>1. job[p].status = "PROCESSING"
        BY <3>3 DEF Locks
      <4>. QED
        BY <1>1, <3>3, <4>1 DEF Job
    <3>. QED
      BY <1>3, <3>1, <3>2, <3>3 DEF Enqueue, LockAges, LockExpires
  <2>3. \A v \in Worker : worker[v].pc \notin {"idle", "find"} => worker[v].job \in Order
    BY AtWork
  <2>4. HeldIsOpen'
    BY <2>1, <2>2, <2>3 DEF HeldIsOpen, Held, Misled, At
  <2>. QED
    BY <2>2, <2>4 DEF Settled
<1>4. CASE UNCHANGED vars
  BY <1>4 DEF vars, HeldIsOpen, Held, Misled, At
<1>. QED
  BY <1>2, <1>3, <1>4 DEF Next

-------------------------------------------------------------------------------
LEMMA NextMailInv == MailInv /\ [Next]_vars => MailInv'
<1>. SUFFICES ASSUME MailInv, [Next]_vars PROVE MailInv'
  OBVIOUS
<1>1. IInv'
  BY NextInv DEF MailInv
<1>2. RowsInv /\ Locks /\ (OneWorker => HeldIsOpen)
  BY DEF MailInv, IInv, OutcomeInv, Locks, HeldIsOpen
<1>3. Locks' /\ (OneWorker => HeldIsOpen')
  BY <1>2, NextLocks, NextAlone
<1>4. OutcomeInv'
  BY <1>3 DEF OutcomeInv, Locks, HeldIsOpen, OneWorker
<1>5. ASSUME Calm' PROVE MailsInv'
  <2>1. Calm
    BY <1>2, <1>5, StaysCalm
  <2>2. Claims /\ Exclusive /\ MailsInv
    BY <2>1 DEF MailInv, IInv, Claims, Calm
  <2>. QED
    BY <1>2, <1>5, <2>2, NextMails
<1>. QED
  BY <1>1, <1>4, <1>5 DEF MailInv, Calm

\* No job, no mail and no claim to begin with.
LEMMA MailInitInv == Init => MailInv
<1>1. Init => IInv
  <2>1. Init => \A w \in Worker : ~Working(w)
    BY DEF Init, Working, Idle
  <2>. QED
    BY <2>1, InitInv DEF IInv, ClaimInv, Exclusive
<1>2. Init => MailsInv /\ OutcomeInv
  BY DEF Init, MailsInv, OutcomeInv, NoJob, Idle
<1>. QED
  BY <1>1, <1>2 DEF MailInv

\* A job is open only while its mail has not gone out, as long as nothing fails;
\* and a worker that is alone holds a job that has not ended, unless the answer to
\* its update to SENT was lost (notification-job.service, for any number of orders).
THEOREM MailInvariance == Spec => []MailInv
  BY MailInitInv, NextMailInv, PTL DEF Spec

\* While nothing fails, dies or takes too long a customer gets at most one mail,
\* for any number of workers and of repeated enqueues (enqueueShipmentCreatedEmail).
THEOREM OneMailPerOrderTheorem == Spec => []OneMailPerOrder
<1>1. MailInv => OneMailPerOrder
  BY DEF MailInv, MailsInv, OneMailPerOrder
<1>. QED
  BY <1>1, MailInvariance, PTL

\* The one worker that docker-compose runs never reopens a job it recorded as FAILED,
\* nor one recorded as SENT until an answer is lost, whatever dies or takes too long
\* (markNotificationJobSent, markNotificationJobFailed).
THEOREM OutcomeIsFinalTheorem ==
  ASSUME OneWorker PROVE Spec => OutcomeIsFinal
<1>. DEFINE Final == \A o \in Order : Settled(o) => job'[o] = job[o]
<1>1. MailInv /\ [Next]_vars => [Final]_vars
  <2>. SUFFICES ASSUME MailInv, [Next]_vars PROVE Final
    OBVIOUS
  <2>1. RowsInv /\ Locks /\ HeldIsOpen
    BY DEF MailInv, IInv, OutcomeInv, Locks, HeldIsOpen
  <2>. QED
    BY <2>1, NextAlone
<1>. QED
  BY <1>1, MailInvariance, PTL DEF Spec, OutcomeIsFinal

-------------------------------------------------------------------------------
\* Notifications implements Outbox

\* What goes wrong stays wrong, and a lost answer is something going wrong.
LEMMA TroubleGrows ==
  ASSUME RowsInv, [Next]_vars PROVE Contract!Trouble
<1>1. Calm' => Calm
  BY StaysCalm
<1>2. (lost = 0)' => lost = 0
  <2>1. lost' \in {lost, lost + 1}
    BY DEF Next, Continue, Requeue, FindJob, FindNothing, Claim, ClaimMissed, ClaimErrs,
           SendSucceeds, SendRefused, SendUnanswered, MarkSent, MarkSentErrs, MarkFailed,
           GiveUp, MarkErrs, WorkerDies, Enqueue, LockAges, LockExpires, LoseOne, vars
  <2>2. lost \in Nat
    BY DEF RowsInv, TypeOK
  <2>. QED
    BY <2>1, <2>2
<1>3. Calm' => (lost = 0)'
  BY DEF Calm, Undisturbed
<1>4. Calm \in BOOLEAN /\ Calm' \in BOOLEAN
  BY DEF Calm
<1>. QED
  BY <1>1, <1>2, <1>3, <1>4 DEF Contract!Trouble

\* A step that leaves mails and outcomes alone, whatever it did to the rows.
LEMMA Stutters ==
  ASSUME Contract!Trouble, \A o \in Order : Outcome(o)' = Outcome(o), mails' = mails
  PROVE  Contract!Next
<1>1. [o \in Order |-> Outcome(o)]' = [o \in Order |-> Outcome(o)]
  OBVIOUS
<1>2. Contract!Disturb
  BY <1>1 DEF Contract!Disturb
<1>. QED
  BY <1>2 DEF Contract!Next

LEMMA SameJobs ==
  ASSUME job' = job PROVE \A o \in Order : Outcome(o)' = Outcome(o)
BY DEF Outcome

LEMMA OpenOutcome ==
  ASSUME NEW o \in Order
  PROVE  /\ job[o].status \in {"PENDING", "PROCESSING"} => Outcome(o) = "open"
         /\ job'[o].status \in {"PENDING", "PROCESSING"} => Outcome(o)' = "open"
BY DEF Outcome

\* A step that gives one job another outcome.
LEMMA MovesOutcome ==
  ASSUME NEW o \in Order, \A p \in Order : p # o => job'[p] = job[p],
         NEW result, Outcome(o)' = result
  PROVE  [p \in Order |-> Outcome(p)]' =
           [[p \in Order |-> Outcome(p)] EXCEPT ![o] = result]
<1>1. \A p \in Order : p # o => Outcome(p)' = Outcome(p)
  BY DEF Outcome
<1>. QED
  BY <1>1

\* A mail goes out while its job is open, and for the first time while all is calm.
LEMMA SendMaps ==
  ASSUME MailInv, OneWorker, Contract!Trouble, NEW w \in Worker,
         SendSucceeds(w) \/ SendUnanswered(w)
  PROVE  Contract!Next
<1>1. At(w, "send") /\ job' = job
  BY DEF SendSucceeds, SendUnanswered
<1>2. PICK o \in Order : o = worker[w].job
  BY <1>1, AtWork DEF At, MailInv, IInv
<1>3. mails' = [mails EXCEPT ![o] = @ + 1]
  BY <1>2 DEF SendSucceeds, SendUnanswered
<1>4. job[o].status \in {"PENDING", "PROCESSING"}
  BY <1>1, <1>2 DEF At, MailInv, OutcomeInv, Held, Misled
<1>5. Outcome(o) = "open" /\ [p \in Order |-> Outcome(p)]' = [p \in Order |-> Outcome(p)]
  BY <1>1, <1>4, OpenOutcome, SameJobs
<1>6. Calm => mails[o] = 0
  BY <1>1, <1>2 DEF MailInv, MailsInv, At
<1>7. Contract!Mail(o)
  BY <1>3, <1>5, <1>6 DEF Contract!Mail, Contract!Open
<1>. QED
  BY <1>7 DEF Contract!Next

\* A step that writes one row: the job stays open, ends, or is opened again by a
\* worker that did not hear that it had ended.
LEMMA JobMaps ==
  ASSUME MailInv, Contract!Trouble, mails' = mails,
         NEW o \in Order, \A p \in Order : p # o => job'[p] = job[p],
         \/ /\ job[o].status \in {"PENDING", "PROCESSING"}
            /\ \/ job'[o].status \in {"PENDING", "PROCESSING"}
               \/ job'[o].status = "SENT" /\ mails[o] > 0
               \/ job'[o].status = "FAILED" /\ (Calm => mails[o] = 0)
         \/ job[o].status = "SENT" /\ lost > 0 /\ job'[o].status = "PENDING"
  PROVE  Contract!Next
<1>. DEFINE Out == [p \in Order |-> Outcome(p)]
<1>1. CASE /\ job[o].status \in {"PENDING", "PROCESSING"}
           /\ job'[o].status \in {"PENDING", "PROCESSING"}
  <2>1. \A p \in Order : Outcome(p)' = Outcome(p)
    BY <1>1, OpenOutcome DEF Outcome
  <2>. QED
    BY <2>1, Stutters
<1>2. CASE /\ job[o].status \in {"PENDING", "PROCESSING"}
           /\ job'[o].status = "SENT" /\ mails[o] > 0
  <2>1. Outcome(o) = "open" /\ Outcome(o)' = "sent"
    BY <1>2, OpenOutcome DEF Outcome
  <2>2. Out' = [Out EXCEPT ![o] = "sent"]
    BY <2>1, MovesOutcome
  <2>3. Contract!Confirm(o)
    BY <1>2, <2>1, <2>2 DEF Contract!Confirm, Contract!End, Contract!Open
  <2>. QED
    BY <2>3 DEF Contract!Next
<1>3. CASE /\ job[o].status \in {"PENDING", "PROCESSING"}
           /\ job'[o].status = "FAILED" /\ (Calm => mails[o] = 0)
  <2>1. Outcome(o) = "open" /\ Outcome(o)' = "failed"
    BY <1>3, OpenOutcome DEF Outcome
  <2>2. Out' = [Out EXCEPT ![o] = "failed"]
    BY <2>1, MovesOutcome
  <2>3. Contract!GiveUp(o)
    BY <1>3, <2>1, <2>2 DEF Contract!GiveUp, Contract!End, Contract!Open
  <2>. QED
    BY <2>3 DEF Contract!Next
<1>4. CASE job[o].status = "SENT" /\ lost > 0 /\ job'[o].status = "PENDING"
  <2>1. Outcome(o) = "sent" /\ Outcome(o)' = "open"
    BY <1>4, OpenOutcome DEF Outcome
  <2>2. Out' = [Out EXCEPT ![o] = "open"]
    BY <2>1, MovesOutcome
  <2>3. ~(lost = 0)
    BY <1>4
  <2>4. Contract!Reopen(o)
    BY <2>1, <2>2, <2>3 DEF Contract!Reopen
  <2>. QED
    BY <2>4 DEF Contract!Next
<1>. QED
  BY <1>1, <1>2, <1>3, <1>4

\* What a worker does to the row of its job.
LEMMA WorkMaps ==
  ASSUME MailInv, OneWorker, Contract!Trouble, NEW w \in Worker,
         \/ Claim(w) \/ ClaimErrs(w) \/ MarkSent(w) \/ MarkSentErrs(w)
         \/ MarkFailed(w) \/ GiveUp(w) \/ MarkErrs(w)
  PROVE  Contract!Next
<1>1. RowsInv /\ job \in [Order -> Job] /\ mails' = mails
  BY DEF MailInv, IInv, RowsInv, TypeOK, Claim, ClaimErrs, MarkSent, MarkSentErrs,
         MarkFailed, GiveUp, MarkErrs
<1>2. CASE UNCHANGED job
  BY <1>1, <1>2, SameJobs, Stutters
<1>3. CASE job' # job
  <2>1. worker[w].pc \in {"claim", "sent", "fail", "giveUp"}
    BY DEF Claim, ClaimErrs, MarkSent, MarkSentErrs, MarkFailed, GiveUp, MarkErrs, At
  <2>2. PICK o \in Order : o = worker[w].job
    BY <1>1, <2>1, AtWork
  <2>3. \A p \in Order : p # o => job'[p] = job[p]
    BY <1>1, <1>3, <2>2 DEF Claim, ClaimErrs, MarkSent, MarkSentErrs, MarkFailed, GiveUp,
       MarkErrs, Write
  <2>4. /\ \/ job[o].status \in {"PENDING", "PROCESSING"}
           \/ job[o].status = "SENT" /\ lost > 0 /\ worker[w].pc = "fail"
        /\ worker[w].pc = "giveUp" => job[o].status = "PENDING"
        /\ worker[w].pc = "sent" => mails[o] > 0
    BY <1>1, <2>1, <2>2, AtWork DEF MailInv, OutcomeInv, Held, Misled, At
  <2>5. Calm /\ job[o].status = "PENDING" => mails[o] = 0
    BY DEF MailInv, MailsInv
  <2>6. CASE Claim(w) \/ ClaimErrs(w)
    <3>1. worker[w].pc = "claim" /\ job'[o].status = "PROCESSING"
      BY <1>1, <1>3, <2>2, <2>6 DEF Claim, ClaimErrs, At, Write
    <3>. QED
      BY <1>1, <2>3, <2>4, <3>1, JobMaps
  <2>7. CASE MarkSent(w) \/ MarkSentErrs(w)
    <3>1. worker[w].pc = "sent" /\ job'[o].status = "SENT"
      BY <1>1, <1>3, <2>2, <2>7 DEF MarkSent, MarkSentErrs, At, Write
    <3>. QED
      BY <1>1, <2>3, <2>4, <3>1, JobMaps
  <2>8. CASE MarkFailed(w) \/ (MarkErrs(w) /\ At(w, "fail"))
    <3>1. worker[w].pc = "fail" /\ job'[o].status = "PENDING"
      BY <1>1, <1>3, <2>2, <2>8 DEF MarkFailed, MarkErrs, At, Write
    <3>. QED
      BY <1>1, <2>3, <2>4, <3>1, JobMaps
  <2>9. CASE GiveUp(w) \/ (MarkErrs(w) /\ At(w, "giveUp"))
    <3>1. worker[w].pc = "giveUp" /\ job'[o].status = "FAILED"
      BY <1>1, <1>3, <2>2, <2>9 DEF GiveUp, MarkErrs, At, Write
    <3>. QED
      BY <1>1, <2>3, <2>4, <2>5, <3>1, JobMaps
  <2>. QED
    BY <2>6, <2>7, <2>8, <2>9 DEF MarkErrs
<1>. QED
  BY <1>2, <1>3

\* A requeued job was open and stays so.
LEMMA RequeueMaps ==
  ASSUME MailInv, Contract!Trouble, NEW w \in Worker, Requeue(w)
  PROVE  Contract!Next
<1>1. ASSUME NEW o \in Order PROVE Outcome(o)' = Outcome(o)
  <2>1. CASE job[o].status = "PROCESSING" /\ job'[o].status = "PENDING"
    BY <2>1, OpenOutcome
  <2>2. CASE job'[o] = job[o]
    BY <2>2 DEF Outcome
  <2>. QED
    BY <2>1, <2>2 DEF Requeue, Stale, Job, MailInv, IInv, RowsInv, TypeOK
<1>. QED
  BY <1>1, Stutters DEF Requeue

\* What happens to a job from outside asks for a mail, or nothing.
LEMMA OutsideMaps ==
  ASSUME MailInv, Contract!Trouble, NEW o \in Order,
         Enqueue(o) \/ LockAges(o) \/ LockExpires(o)
  PROVE  Contract!Next
<1>1. job \in [Order -> Job] /\ mails' = mails
  BY DEF MailInv, IInv, RowsInv, TypeOK, Enqueue, LockAges, LockExpires
<1>2. CASE job' = job
  BY <1>1, <1>2, SameJobs, Stutters
<1>3. CASE Enqueue(o) /\ job[o].status = "absent"
  <2>1. /\ Outcome(o) = "none" /\ Outcome(o)' = "open"
        /\ Calm' = Calm /\ (lost = 0)' = (lost = 0)
        /\ \A p \in Order : p # o => job'[p] = job[p]
    BY <1>1, <1>3 DEF Enqueue, Outcome, Job, Calm, Undisturbed
  <2>2. [p \in Order |-> Outcome(p)]' = [[p \in Order |-> Outcome(p)] EXCEPT ![o] = "open"]
    BY <2>1, MovesOutcome
  <2>3. Contract!Ask(o)
    BY <1>1, <2>1, <2>2 DEF Contract!Ask
  <2>. QED
    BY <2>3 DEF Contract!Next
<1>4. CASE LockAges(o) \/ LockExpires(o)
  <2>1. \A p \in Order : job'[p].status = job[p].status
    BY <1>1, <1>4 DEF LockAges, LockExpires, Job
  <2>. QED
    BY <1>1, <2>1, Stutters DEF Outcome
<1>. QED
  BY <1>2, <1>3, <1>4 DEF Enqueue

LEMMA OutboxStep ==
  ASSUME OneWorker, MailInv, [Next]_vars
  PROVE  Contract!Next
<1>1. RowsInv /\ Contract!Trouble
  BY TroubleGrows DEF MailInv, IInv
<1>2. ASSUME NEW w \in Worker, Continue(w) \/ WorkerDies(w)
      PROVE  Contract!Next
  <2>1. CASE UNCHANGED <<job, mails>>
    BY <1>1, <2>1, SameJobs, Stutters
  <2>. QED
    BY <1>1, <1>2, <2>1, RequeueMaps, WorkMaps, SendMaps
    DEF Continue, FindJob, FindNothing, ClaimMissed, SendRefused, WorkerDies
<1>3. CASE UNCHANGED vars
  BY <1>1, <1>3, SameJobs, Stutters DEF vars
<1>. QED
  BY <1>1, <1>2, <1>3, OutsideMaps DEF Next

\* The one worker that docker-compose runs keeps the contract of an outbox, for any
\* number of orders and whatever is lost, dies or takes too long: no mail goes out
\* after the outcome, SENT means a mail, FAILED none unless something went wrong,
\* and only a lost answer makes the worker open again what it recorded as SENT
\* (notification.worker, notification-job.service).
THEOREM Refinement ==
  ASSUME OneWorker PROVE Spec => ImplementsOutbox
<1>1. Init => Contract!Init
  BY DEF Init, Contract!Init, NoJob, Outcome, Calm, Undisturbed
<1>2. MailInv /\ [Next]_vars => [Contract!Next]_Contract!outboxVars
  BY OutboxStep
<1>. QED
  BY <1>1, <1>2, MailInvariance, PTL DEF Spec, ImplementsOutbox, Contract!Spec
==============================================================================
