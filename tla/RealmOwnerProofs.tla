-------------------------- MODULE RealmOwnerProofs --------------------------
(***************************************************************************)
(* What RealmOwner promises for any number of owners, tasks and entries.   *)
(***************************************************************************)
EXTENDS MCOwner, WellFoundedInduction, TLAPS

(* A job made of an owner, a kind and the task it serves is a job.         *)
LEMMA NewJobType ==
  ASSUME NEW o \in Owners, NEW k \in JobKind, NEW t \in Tasks \cup {NoTask}
  PROVE  NewJob(o, k, t) \in Job
BY DEF NewJob, Job

(* JsThreadHandle::push keeps the queue a sequence of jobs.                *)
LEMMA PushType ==
  ASSUME TypeOK, NEW j \in Job, Push(j)
  PROVE  /\ queue' \in Seq(Job)
         /\ pushed' \in BOOLEAN
BY DEF TypeOK, Push

(* Lifetime::end keeps the latches it sets in range.                       *)
LEMMA EndType ==
  ASSUME TypeOK, NEW o \in Owners, End(o)
  PROVE  /\ ended' \in [Owners -> BOOLEAN]
         /\ token' \in [Owners -> BOOLEAN]
         /\ deadline' \in [Owners -> BOOLEAN]
BY DEF TypeOK, End

(* Each report that ends an owner is well typed, and is an end of it.      *)
LEMMA ReportType ==
  ASSUME TypeOK, NEW o \in Owners,
         Trapped(o) \/ Terminal(o, "failed") \/ Terminal(o, "closed")
  PROVE  /\ sent' \in [Owners -> Seq(Report)]
         /\ terminal_reported' \in [Owners -> BOOLEAN]
         /\ panic_reported' \in [Owners -> BOOLEAN]
         /\ End(o)
<1>1. CASE Trapped(o)
  BY <1>1 DEF TypeOK, Trapped, Report
<1>2. CASE Terminal(o, "failed")
  BY <1>2 DEF TypeOK, Terminal, Report
<1>3. CASE Terminal(o, "closed")
  BY <1>3 DEF TypeOK, Terminal, Report
<1> QED BY <1>1, <1>2, <1>3

(* Spawning a task of an owner changes that owner's set only.              *)
LEMMA SpawnType ==
  ASSUME TypeOK, NEW o \in Owners, MaySpawn(o)
  PROVE  tasks' \in [Owners -> [Tasks -> TaskState]]
<1>1. tasks \in [Owners -> [Tasks -> TaskState]]
  BY DEF TypeOK
<1>2. CASE UNCHANGED tasks
  BY <1>1, <1>2
<1>3. CASE \E t \in Tasks : tasks' = [tasks EXCEPT ![o][t] = "parked"]
  BY <1>1, <1>3 DEF TaskState
<1> QED BY <1>2, <1>3 DEF MaySpawn

(* What a pop takes from the queue is a job of one of the owners.          *)
LEMMA HeadType ==
  ASSUME TypeOK, NEW K, Pop(K)
  PROVE  /\ Head(queue) \in Job
         /\ Head(queue).owner \in Owners
         /\ Head(queue).kind \in K
         /\ queue' \in Seq(Job)
<1>1. queue \in Seq(Job) /\ queue # <<>>
  BY DEF TypeOK, Pop
<1>2. Head(queue) \in Job /\ Tail(queue) \in Seq(Job)
  BY <1>1
<1> QED BY <1>2 DEF Pop, Job

(* A thread that has just been built, with its owners, is well typed.      *)
LEMMA TypeInit == Init => TypeOK
<1> SUFFICES ASSUME Init PROVE TypeOK
  OBVIOUS
<1>1. queue \in Seq(Job) /\ sent \in [Owners -> Seq(Report)]
  BY DEF Init
<1>2. /\ entries \in [Owners -> 0..MaxEntries]
      /\ tasks \in [Owners -> [Tasks -> TaskState]]
      /\ tail \in [Owners -> TailState]
  BY BoundAssumption DEF Init, TaskState, TailState
<1>3. /\ job \in Job \cup {NoJob}
      /\ mode \in {"poll", "drain", "over"}
      /\ job = NoJob => at = "start" /\ ~parked
      /\ job # NoJob => mode = "drain"
  BY DEF Init
<1> QED BY <1>1, <1>2, <1>3 DEF Init, TypeOK

(* The steps of the embedder and of o's own task.                          *)
LEMMA TypeTail ==
  ASSUME TypeOK, NEW o \in Owners, HostCancels(o) \/ TailStep(o)
  PROVE  TypeOK'
<1> USE DEF thread, lifetime, reports, flags
<1>1. CASE HostCancels(o)
  BY <1>1 DEF HostCancels, TypeOK
<1>2. CASE Serve(o)
  <2>1. tail' \in [Owners -> TailState]
    BY <1>2 DEF Serve, TypeOK, TailState
  <2>3. tasks' \in [Owners -> [Tasks -> TaskState]]
    <3>1. tasks \in [Owners -> [Tasks -> TaskState]]
      BY DEF TypeOK
    <3>2. ASSUME tasks' = [tasks EXCEPT ![o] = [t \in Tasks |-> "parked"]]
          PROVE  tasks' \in [Owners -> [Tasks -> TaskState]]
      BY <3>1, <3>2 DEF TaskState
    <3>3. ASSUME NEW t \in Tasks, tasks' = [tasks EXCEPT ![o][t] = "booting"]
          PROVE  tasks' \in [Owners -> [Tasks -> TaskState]]
      BY <3>1, <3>3 DEF TaskState
    <3> QED BY <1>2, <3>2, <3>3 DEF Serve
  <2>2. queue' \in Seq(Job) /\ pushed' \in BOOLEAN
    <3>1. NewJob(o, "open", NoTask) \in Job
      BY NewJobType DEF JobKind
    <3> QED BY <3>1, PushType, <1>2 DEF Serve, TypeOK
  <2> QED BY <1>2, <2>1, <2>2, <2>3 DEF Serve, TypeOK
<1>3. CASE ServeEnds(o)
  <2>1. tasks' \in [Owners -> [Tasks -> TaskState]] /\ tail' \in [Owners -> TailState]
    BY <1>3 DEF ServeEnds, TypeOK, TaskState, TailState
  <2> QED BY <1>3, <2>1, EndType DEF ServeEnds, TypeOK
<1>4. ASSUME NEW k \in {"dispose", "release"}, QueueTail(o, k),
             entries' \in [Owners -> 0..MaxEntries]
      PROVE  TypeOK'
  <2>1. NewJob(o, k, NoTask) \in Job
    BY NewJobType DEF JobKind
  <2>2. queue' \in Seq(Job) /\ pushed' \in BOOLEAN
    BY <1>4, <2>1, PushType DEF QueueTail
  <2>3. tail' \in [Owners -> TailState]
    BY <1>4 DEF QueueTail, TypeOK, TailState
  <2> QED BY <1>4, <2>2, <2>3 DEF QueueTail, TypeOK
<1>5. CASE ReapEnds(o)
  BY <1>4, <1>5 DEF ReapEnds, TypeOK
<1>6. CASE DisposeAgain(o)
  <2>1. entries' \in [Owners -> 0..MaxEntries]
    BY <1>6, BoundAssumption DEF DisposeAgain, Count, TypeOK
  <2> QED BY <1>4, <1>6, <2>1 DEF DisposeAgain
<1>7. CASE DisposeEnds(o)
  BY <1>4, <1>7 DEF DisposeEnds, TypeOK
<1>8. CASE TailEnds(o)
  BY <1>8 DEF TailEnds, TypeOK, TailState
<1> QED BY <1>1, <1>2, <1>3, <1>5, <1>6, <1>7, <1>8 DEF TailStep

(* The steps of o's other tasks, and the joining of them.                  *)
LEMMA TypeTask ==
  ASSUME TypeOK, NEW o \in Owners, NEW t \in Tasks, TaskStep(o, t)
  PROVE  TypeOK'
<1> USE DEF thread, lifetime, reports, flags
<1>1. CASE QueueBoot(o, t)
  <2>1. NewJob(o, "open", t) \in Job
    BY NewJobType DEF JobKind
  <2>2. queue' \in Seq(Job) /\ pushed' \in BOOLEAN
    BY <1>1, <2>1, PushType DEF QueueBoot
  <2>3. tasks' \in [Owners -> [Tasks -> TaskState]]
    <3>1. tasks \in [Owners -> [Tasks -> TaskState]]
      BY DEF TypeOK
    <3>2. PICK c \in Tasks : tasks' = [tasks EXCEPT ![o][t] = "opening", ![o][c] = "parked"]
      BY <1>1 DEF QueueBoot
    <3> QED BY <3>1, <3>2 DEF TaskState
  <2> QED BY <1>1, <2>2, <2>3 DEF QueueBoot, TypeOK
<1>2. CASE QueueEntry(o, t)
  <2>1. NewJob(o, "enter", t) \in Job /\ NewJob(o, "enter", NoTask) \in Job
    BY NewJobType DEF JobKind
  <2>2. queue' \in Seq(Job) /\ pushed' \in BOOLEAN
    BY <1>2, <2>1, PushType DEF QueueEntry
  <2>3. tasks' \in [Owners -> [Tasks -> TaskState]]
    <3>1. tasks \in [Owners -> [Tasks -> TaskState]]
      BY DEF TypeOK
    <3>2. tasks' = tasks \/ tasks' = [tasks EXCEPT ![o][t] = "awaiting"]
      BY <1>2 DEF QueueEntry
    <3> QED BY <3>1, <3>2 DEF TaskState
  <2>4. entries' \in [Owners -> 0..MaxEntries]
    BY <1>2, BoundAssumption DEF QueueEntry, Count, TypeOK
  <2> QED BY <1>2, <2>2, <2>3, <2>4 DEF QueueEntry, TypeOK
<1>3. CASE Resume(o, t)
  BY <1>3 DEF Resume, TypeOK, TaskState
<1>4. CASE ResumeBoot(o, t)
  BY <1>4 DEF ResumeBoot, TypeOK, TaskState
<1>5. CASE TaskReturns(o, t)
  <2>1. tasks' \in [Owners -> [Tasks -> TaskState]]
    BY <1>5 DEF TaskReturns, TypeOK, TaskState
  <2> QED BY <1>5, <2>1, EndType DEF TaskReturns, TypeOK
<1>6. CASE TaskPanics(o, t)
  <2>1. tasks' \in [Owners -> [Tasks -> TaskState]]
    BY <1>6 DEF TaskPanics, TypeOK, TaskState
  <2> QED BY <1>6, <2>1, EndType DEF TaskPanics, TypeOK
<1>7. CASE Join(o, t)
  <2>1. tasks' \in [Owners -> [Tasks -> TaskState]]
    BY <1>7 DEF Join, TypeOK, TaskState
  <2> QED BY <1>7, <2>1, EndType, ReportType DEF Join, TypeOK
<1> QED BY <1>1, <1>2, <1>3, <1>4, <1>5, <1>6, <1>7 DEF TaskStep

(* The steps of the top loop.                                              *)
LEMMA TypeThread ==
  ASSUME TypeOK, ThreadStep
  PROVE  TypeOK'
<1> USE DEF owners, lifetime, reports, flags
<1>1. CASE Notified
  BY <1>1 DEF Notified, TypeOK
<1>2. CASE Drained
  BY <1>2 DEF Drained, TypeOK
<1>3. CASE MainFinished
  <2>1. queue' \in Seq(Job)
    BY <1>3 DEF MainFinished
  <2> QED BY <1>3, <2>1 DEF MainFinished, TypeOK
<1>4. ASSUME NEW K, Pop(K), Begin \/ UNCHANGED <<job, at>>,
             realm' \in [Owners -> {"none", "open", "released"}],
             UNCHANGED <<lifetime, reports, tasks, flags, tail, entries>>
      PROVE  TypeOK'
  <2>1. Head(queue) \in Job /\ queue' \in Seq(Job)
    BY <1>4, HeadType
  <2>2. CASE Begin
    BY <1>4, <2>1, <2>2, NoJobAssumption DEF Pop, Begin, TypeOK
  <2>3. CASE UNCHANGED <<job, at>>
    BY <1>4, <2>1, <2>3 DEF Pop, TypeOK
  <2> QED BY <1>4, <2>2, <2>3
<1>5. CASE PopLive
  BY <1>4, <1>5 DEF PopLive, TypeOK
<1>6. CASE PopDispose
  BY <1>4, <1>6 DEF PopDispose, TypeOK
<1>7. CASE PopRelease
  BY <1>4, <1>7 DEF PopRelease, TypeOK
<1> QED BY <1>1, <1>2, <1>3, <1>5, <1>6, <1>7 DEF ThreadStep

(* The steps of the running job.                                           *)
LEMMA TypeJob ==
  ASSUME TypeOK, NEW o \in Owners, JobStep(o)
  PROVE  TypeOK'
<1> USE DEF thread, owners, lifetime, reports, flags, Quiet, Return, Goes
<1>1. CASE Park(o)
  BY <1>1 DEF Park, Running, TypeOK
<1>2. CASE WaitCancelled(o)
  BY <1>2 DEF WaitCancelled, TypeOK
<1>3. CASE WaitAnswered(o)
  BY <1>3 DEF WaitAnswered, TypeOK
<1>4. CASE CloseWorker(o)
  BY <1>4 DEF CloseWorker, TypeOK
<1>5. CASE JobTraps(o)
  BY <1>5, EndType, ReportType DEF JobTraps, Running, TypeOK
<1>6. CASE OpenFails(o)
  BY <1>6, EndType, ReportType DEF OpenFails, Running, TypeOK
<1>7. CASE Furnished(o)
  BY <1>7 DEF Furnished, Running, TypeOK
<1>8. CASE Released(o)
  BY <1>8, EndType DEF Released, Running, TypeOK
<1>9. CASE StartupFails(o)
  BY <1>9, EndType, ReportType DEF StartupFails, Running, TypeOK
<1>10. CASE Opens(o)
  <2>1. tasks' \in [Owners -> [Tasks -> TaskState]]
    BY <1>10, SpawnType DEF Opens, TypeOK
  <2>2. realm' \in [Owners -> {"none", "open", "released"}]
    BY <1>10 DEF Opens, TypeOK
  <2>3. inbox' \in [Owners -> BOOLEAN]
    BY <1>10 DEF Opens, TypeOK
  <2>4. /\ at' \in {"start", "operation", "timers", "rest"}
        /\ job' \in {NoJob, job}
        /\ job' = NoJob => at' = "start" /\ ~parked'
        /\ job' # NoJob => mode' = "drain"
    BY <1>10 DEF Opens, ToTimers, Running, TypeOK
  <2> QED BY <1>10, <2>1, <2>2, <2>3, <2>4 DEF Opens, TypeOK
<1>11. CASE OperationReturns(o)
  BY <1>11 DEF OperationReturns, ToTimers, Running, TypeOK
<1>12. CASE Epilogue(o)
  <2>1. queue' \in Seq(Job) /\ pushed' \in BOOLEAN /\ entries' \in [Owners -> 0..MaxEntries]
    <3>1. NewJob(o, "enter", NoTask) \in Job
      BY NewJobType DEF JobKind
    <3>2. ASSUME Posts(o)
          PROVE  /\ queue' \in Seq(Job) /\ pushed' \in BOOLEAN
                 /\ entries' \in [Owners -> 0..MaxEntries]
      <4>1. CASE UNCHANGED <<queue, pushed, entries>>
        BY <4>1 DEF TypeOK
      <4>2. CASE Count(o) /\ Push(NewJob(o, "enter", NoTask))
        <5>1. entries' \in [Owners -> 0..MaxEntries]
          BY <4>2, BoundAssumption DEF Count, TypeOK
        <5> QED BY <4>2, <5>1, <3>1, PushType
      <4> QED BY <3>2, <4>1, <4>2 DEF Posts
    <3>3. Posts(o) \/ UNCHANGED <<queue, pushed, entries>>
      BY <1>12 DEF Epilogue, Closes, BootRejected, Settles
    <3> QED BY <3>2, <3>3 DEF TypeOK
  <2>2. tasks' \in [Owners -> [Tasks -> TaskState]] /\ booted' \in [Owners -> BOOLEAN]
    BY <1>12, SpawnType DEF Epilogue, Closes, BootRejected, Settles, TypeOK
  <2>3. /\ sent' \in [Owners -> Seq(Report)]
        /\ terminal_reported' \in [Owners -> BOOLEAN]
        /\ panic_reported' \in [Owners -> BOOLEAN]
    BY <1>12, ReportType DEF Epilogue, Closes, BootRejected, Settles, TypeOK
  <2>4. /\ ended' \in [Owners -> BOOLEAN] /\ token' \in [Owners -> BOOLEAN]
        /\ deadline' \in [Owners -> BOOLEAN]
    <3>1. CASE Settles(o)
      BY <3>1 DEF Settles, TypeOK
    <3>2. CASE Closes(o) \/ BootRejected(o)
      BY <3>2, EndType, ReportType DEF Closes, BootRejected
    <3>3. CASE UNCHANGED lifetime
      BY <3>3 DEF TypeOK
    <3> QED BY <1>12, <3>1, <3>2, <3>3 DEF Epilogue
  <2> QED BY <1>12, <2>1, <2>2, <2>3, <2>4 DEF Epilogue, Running, TypeOK
<1> QED BY <1>1, <1>2, <1>3, <1>4, <1>5, <1>6, <1>7, <1>8, <1>9, <1>10,
           <1>11, <1>12 DEF JobStep, Returns

(* No step takes a variable out of its range.                              *)
LEMMA TypeStep == TypeOK /\ [Next]_vars => TypeOK'
<1> SUFFICES ASSUME TypeOK, [Next]_vars PROVE TypeOK'
  OBVIOUS
<1>1. CASE UNCHANGED vars
  BY <1>1 DEF vars, TypeOK
<1>2. CASE Over
  BY <1>2 DEF Over, vars, TypeOK
<1> QED BY <1>1, <1>2, TypeTail, TypeTask, TypeThread, TypeJob DEF Next

(* Every variable keeps its range, and a job is on the stack exactly while *)
(* the top loop is draining: nothing of a job outlives its return.         *)
THEOREM TypeCorrect == Spec => []TypeOK
BY TypeInit, TypeStep, PTL DEF Spec

-----------------------------------------------------------------------------
(* What a step does to the jobs that are queued or running.                *)

(* Every job queued or running is a job of one of the owners.              *)
LEMMA OutstandingJobs ==
  ASSUME TypeOK
  PROVE  /\ Outstanding \subseteq Job
         /\ \A i \in DOMAIN queue : queue[i] \in Outstanding
         /\ job # NoJob => job \in Outstanding
<1>1. queue \in Seq(Job) /\ job \in Job \cup {NoJob}
  BY DEF TypeOK
<1> QED BY <1>1 DEF Outstanding

(* A step that pushes nothing adds no job.                                 *)
LEMMA SameQueue ==
  ASSUME queue' = queue, job' \in {job, NoJob}
  PROVE  Outstanding' \subseteq Outstanding
BY DEF Outstanding

(* A push adds the job it pushes and no other.                             *)
LEMMA PushedQueue ==
  ASSUME TypeOK, NEW j \in Job, Push(j), job' \in {job, NoJob}
  PROVE  Outstanding' \subseteq Outstanding \cup {j}
<1>1. queue \in Seq(Job) /\ queue' = Append(queue, j)
  BY DEF TypeOK, Push
<1>2. \A i \in DOMAIN queue' : queue'[i] = j \/ (i \in DOMAIN queue /\ queue'[i] = queue[i])
  BY <1>1
<1> QED BY <1>2 DEF Outstanding

(* A pop adds no job, and what it takes was there.                         *)
LEMMA PoppedQueue ==
  ASSUME TypeOK, NEW K, Pop(K), job' \in {job, Head(queue)}
  PROVE  /\ Outstanding' \subseteq Outstanding
         /\ Head(queue) \in Outstanding
<1>1. queue \in Seq(Job) /\ queue' = Tail(queue) /\ queue # <<>>
  BY DEF TypeOK, Pop
<1>2. \A i \in DOMAIN queue' : i + 1 \in DOMAIN queue /\ queue'[i] = queue[i + 1]
  BY <1>1
<1>3. Head(queue) = queue[1] /\ 1 \in DOMAIN queue
  BY <1>1
<1> QED BY <1>2, <1>3 DEF Outstanding

(* The realms that are released are the same, and what is queued, if       *)
(* anything, is queued for an owner whose release is not.                  *)
SameReleased == \A o \in Owners : realm'[o] = "released" <=> realm[o] = "released"
Unreleased(o) == tail[o] \notin {"release", "done"}

(* Releases stay last under a step that pushes and releases nothing.       *)
LEMMA LastWithoutPush ==
  ASSUME TypeOK, ReleaseIsLast, SameReleased, queue' = queue, job' \in {job, NoJob}
  PROVE  ReleaseIsLast'
BY SameQueue DEF ReleaseIsLast, SameReleased

(* Releases stay last when the job pushed is of an owner not yet there.    *)
LEMMA LastWithPush ==
  ASSUME TypeOK, ReleaseIsLast, ITail, SameReleased, job' \in {job, NoJob},
         NEW j \in Job, Push(j), Unreleased(j.owner)
  PROVE  ReleaseIsLast'
<1>1. queue \in Seq(Job) /\ queue' = Append(queue, j)
  BY DEF TypeOK, Push
<1>2. j.owner \in Owners /\ realm[j.owner] # "released"
  BY DEF ITail, Unreleased, Job
<1>3. \A i \in DOMAIN queue : queue[i].kind = "release" => queue[i].owner # j.owner
  BY OutstandingJobs DEF ITail, Unreleased
<1>4. ASSUME NEW i \in DOMAIN queue', NEW k \in DOMAIN queue',
             queue'[i].kind = "release", i < k
      PROVE  queue'[k].owner # queue'[i].owner
  <2>1. i \in DOMAIN queue /\ queue'[i] = queue[i]
    BY <1>1, <1>4
  <2>2. CASE k \in DOMAIN queue
    BY <1>1, <1>4, <2>1, <2>2 DEF ReleaseIsLast
  <2>3. CASE queue'[k] = j
    BY <1>3, <1>4, <2>1, <2>3
  <2> QED BY <1>1, <2>2, <2>3
<1>5. ASSUME NEW o \in Owners, realm'[o] = "released"
      PROVE  ~\E m \in Outstanding' : m.owner = o
  BY <1>2, <1>5, PushedQueue DEF ReleaseIsLast, SameReleased
<1> QED BY <1>4, <1>5 DEF ReleaseIsLast

(* Releases stay last when a job moves from the queue to the stack.        *)
LEMMA LastWithPop ==
  ASSUME TypeOK, ReleaseIsLast, SameReleased, NEW K, Pop(K),
         job' \in {job, Head(queue)}
  PROVE  ReleaseIsLast'
<1>1. queue \in Seq(Job) /\ queue' = Tail(queue) /\ queue # <<>>
  BY DEF TypeOK, Pop
<1>2. \A i \in DOMAIN queue' : i + 1 \in DOMAIN queue /\ queue'[i] = queue[i + 1]
  BY <1>1
<1>3. DOMAIN queue' \subseteq Nat
  BY <1>1
<1>4. ASSUME NEW i \in DOMAIN queue', NEW k \in DOMAIN queue',
             queue'[i].kind = "release", i < k
      PROVE  queue'[k].owner # queue'[i].owner
  BY <1>2, <1>3, <1>4 DEF ReleaseIsLast
<1> QED BY <1>4, PoppedQueue DEF ReleaseIsLast, SameReleased

(* The release job itself: nothing of its owner's is behind it.            *)
LEMMA LastWithRelease ==
  ASSUME TypeOK, ReleaseIsLast, PopRelease
  PROVE  ReleaseIsLast'
<1> DEFINE r == Head(queue).owner
<1>1. queue \in Seq(Job) /\ queue' = Tail(queue) /\ queue # <<>> /\ job = NoJob
  BY DEF TypeOK, Pop, PopRelease
<1>2. \A i \in DOMAIN queue' :
        /\ i + 1 \in DOMAIN queue /\ queue'[i] = queue[i + 1]
        /\ i \in Nat /\ 1 < i + 1
  BY <1>1
<1>3. Head(queue) = queue[1] /\ 1 \in DOMAIN queue /\ queue[1].kind = "release"
  BY <1>1, HeadType DEF PopRelease
<1>4. ASSUME NEW i \in DOMAIN queue', NEW k \in DOMAIN queue',
             queue'[i].kind = "release", i < k
      PROVE  queue'[k].owner # queue'[i].owner
  BY <1>2, <1>4 DEF ReleaseIsLast
<1>5. \A i \in DOMAIN queue' : queue'[i].owner # r
  BY <1>2, <1>3 DEF ReleaseIsLast
<1>6. job' = NoJob /\ \A o \in Owners : o # r => realm'[o] = realm[o]
  BY <1>1 DEF PopRelease, TypeOK
<1>7. ASSUME NEW o \in Owners, realm'[o] = "released"
      PROVE  ~\E m \in Outstanding' : m.owner = o
  <2>1. CASE o = r
    BY <1>5, <1>6, <2>1 DEF Outstanding
  <2>2. CASE o # r
    <3>1. Outstanding' \subseteq Outstanding
      BY PoppedQueue DEF PopRelease
    <3> QED BY <1>6, <1>7, <2>2, <3>1 DEF ReleaseIsLast
  <2> QED BY <2>1, <2>2
<1> QED BY <1>4, <1>7 DEF ReleaseIsLast

-----------------------------------------------------------------------------
(* The part of the inductive invariant that is about the realm.            *)
RInv == IEnded /\ IStart /\ ITail /\ ReapIsComplete /\ ReleaseIsLast

(* While the scheduler runs under a job, that job is in its JavaScript.    *)
LEMMA NotStarting ==
  ASSUME TypeOK, IStart, Scheduling
  PROVE  ~(job # NoJob /\ at = "start")
BY DEF TypeOK, IStart, Scheduling

(* Ending an owner once more does not undo an end (Lifetime::end).         *)
LEMMA EndKeeps ==
  ASSUME TypeOK, IEnded, NEW o \in Owners, End(o),
         UNCHANGED tail \/ (\E k \in TailState : tail' = [tail EXCEPT ![o] = k])
  PROVE  IEnded'
BY DEF TypeOK, IEnded, End

(* The realm's part of the invariant holds before anything was queued.     *)
LEMMA RInvInit == Init => RInv
<1> SUFFICES ASSUME Init PROVE RInv
  OBVIOUS
<1>1. Outstanding = {} /\ DOMAIN queue = {}
  BY DEF Init, Outstanding
<1> QED BY <1>1 DEF Init, RInv, IEnded, IStart, ITail, ReapIsComplete, ReleaseIsLast

(* The steps of an owner's own task keep the realm's part (run_owner).     *)
LEMMA RInvTail ==
  ASSUME TypeOK, RInv, NEW o \in Owners, HostCancels(o) \/ TailStep(o)
  PROVE  RInv'
<1> USE DEF RInv, thread, lifetime, reports, flags
<1>1. CASE HostCancels(o)
  <2>1. IEnded'
    BY <1>1 DEF HostCancels, IEnded, TypeOK
  <2>2. Outstanding' = Outstanding
    BY <1>1 DEF HostCancels, Outstanding
  <2> QED BY <1>1, <2>1, <2>2
          DEF HostCancels, IStart, ITail, ReapIsComplete, NoTasks, ReleaseIsLast
<1>2. CASE Serve(o)
  <2>1. IEnded'
    BY <1>2 DEF Serve, IEnded, TypeOK
  <2>2. IStart'
    BY <1>2, NotStarting DEF Serve, IStart
  <2>3. ReapIsComplete'
    <3>1. \A p \in Owners : p # o => tasks'[p] = tasks[p] /\ tail'[p] = tail[p]
      BY <1>2 DEF Serve, TypeOK
    <3>2. tail'[o] = "serve"
      BY <1>2 DEF Serve, TypeOK
    <3> QED BY <3>1, <3>2 DEF ReapIsComplete, NoTasks
  <2>4. ITail' /\ ReleaseIsLast'
    <3>1. NewJob(o, "open", NoTask) \in Job
      BY NewJobType DEF JobKind
    <3>2. \A j \in Outstanding' : j \in Outstanding \/ j.kind = "open"
      BY <1>2, <3>1, PushedQueue, SameQueue DEF Serve, NewJob
    <3>3. ITail'
      BY ZenonT(60), <1>2, <3>2, OutstandingJobs DEF Serve, ITail, TypeOK, Job
    <3>4. ReleaseIsLast'
      BY <1>2, <3>1, LastWithPush, LastWithoutPush
         DEF Serve, Unreleased, SameReleased, NewJob
    <3> QED BY <3>3, <3>4
  <2> QED BY <2>1, <2>2, <2>3, <2>4
<1>3. CASE ServeEnds(o)
  <2>1. IEnded'
    BY <1>3, EndKeeps DEF ServeEnds, TailState
  <2>2. IStart'
    BY <1>3, NotStarting DEF ServeEnds, IStart
  <2>3. ReapIsComplete'
    BY <1>3 DEF ServeEnds, ReapIsComplete, NoTasks, TypeOK
  <2>4. ITail' /\ ReleaseIsLast'
    <3>1. Outstanding' = Outstanding
      BY <1>3 DEF ServeEnds, Outstanding
    <3>2. ITail'
      BY <1>3, <3>1, OutstandingJobs DEF ServeEnds, ITail, TypeOK, Job
    <3> QED BY <1>3, <3>1, <3>2 DEF ServeEnds, ReleaseIsLast
  <2> QED BY <2>1, <2>2, <2>3, <2>4
<1>4. ASSUME NEW k \in {"dispose", "release"}, QueueTail(o, k), Scheduling,
             tail[o] \in {"reap", "dispose"}, NoTasks(o), k = "dispose" => Role = "page",
             ~\E j \in Outstanding : j.owner = o /\ j.kind = "dispose"
      PROVE  RInv'
  <2>1. IEnded'
    BY <1>4 DEF QueueTail, IEnded, TypeOK
  <2>2. IStart'
    BY <1>4, NotStarting DEF QueueTail, IStart
  <2>3. ReapIsComplete'
    BY <1>4 DEF QueueTail, ReapIsComplete, NoTasks, TypeOK
  <2>4. NewJob(o, k, NoTask) \in Job
    BY NewJobType DEF JobKind
  <2>5. ITail'
    <3>1. Outstanding' \subseteq Outstanding \cup {NewJob(o, k, NoTask)}
      BY <1>4, <2>4, PushedQueue DEF QueueTail
    <3>2. \A p \in Owners : tail'[p] = IF p = o THEN k ELSE tail[p]
      BY <1>4 DEF QueueTail, TypeOK
    <3>3. ASSUME NEW j \in Outstanding', j.kind \in {"dispose", "release"}
          PROVE  tail'[j.owner] = j.kind
      <4>1. CASE j = NewJob(o, k, NoTask)
        BY <3>2, <4>1 DEF NewJob
      <4>2. CASE j \in Outstanding
        BY <1>4, <3>2, <3>3, <4>2, OutstandingJobs DEF ITail, Job
      <4> QED BY <3>1, <4>1, <4>2
    <3>4. ASSUME NEW p \in Owners
          PROVE  /\ realm'[p] = "released" => tail'[p] \in {"release", "done"}
                 /\ inbox'[p] \/ tail'[p] = "dispose" => Role = "page"
      BY <1>4, <3>2 DEF QueueTail, ITail
    <3> QED BY <3>3, <3>4 DEF ITail
  <2>6. ReleaseIsLast'
    BY <1>4, <2>4, LastWithPush DEF QueueTail, Unreleased, SameReleased, NewJob
  <2> QED BY <2>1, <2>2, <2>3, <2>5, <2>6
<1>5. CASE ReapEnds(o)
  <2>1. ~\E j \in Outstanding : j.owner = o /\ j.kind = "dispose"
    BY <1>5 DEF ReapEnds, ITail
  <2> QED BY <1>4, <1>5, <2>1 DEF ReapEnds, ITail
<1>6. CASE DisposeAgain(o)
  BY <1>4, <1>6 DEF DisposeAgain, AnsweredTail, ReapIsComplete, ITail
<1>7. CASE DisposeEnds(o)
  BY <1>4, <1>7 DEF DisposeEnds, AnsweredTail, ReapIsComplete
<1>8. CASE TailEnds(o)
  <2>1. IEnded' /\ ReapIsComplete'
    BY <1>8 DEF TailEnds, IEnded, ReapIsComplete, NoTasks, TypeOK
  <2>2. IStart'
    BY <1>8 DEF TailEnds, IStart
  <2>3. Outstanding' = Outstanding
    BY <1>8 DEF TailEnds, Outstanding
  <2>4. ITail'
    BY <1>8, <2>3, OutstandingJobs DEF TailEnds, AnsweredTail, ITail, TypeOK, Job
  <2> QED BY <1>8, <2>1, <2>2, <2>3, <2>4 DEF TailEnds, ReleaseIsLast
<1> QED BY <1>1, <1>2, <1>3, <1>5, <1>6, <1>7, <1>8 DEF TailStep

(* An owner one of whose tasks is there is not past its reap.              *)
LEMMA NotReaped ==
  ASSUME ReapIsComplete, NEW o \in Owners, NEW t \in Tasks, tasks[o][t] # "absent"
  PROVE  tail[o] \notin {"dispose", "release", "done"}
BY DEF ReapIsComplete, NoTasks

(* Spawning or joining for an owner not yet reaped leaves the reaped alone.*)
LEMMA ReapKept ==
  ASSUME TypeOK, ReapIsComplete, NEW o \in Owners, UNCHANGED tail,
         \A p \in Owners : p # o => tasks'[p] = tasks[p],
         tail[o] \notin {"dispose", "release", "done"}
  PROVE  ReapIsComplete'
BY DEF ReapIsComplete, NoTasks

(* A step that moves no tail and pushes entries keeps the tails' jobs.     *)
LEMMA TailKept ==
  ASSUME TypeOK, ITail, UNCHANGED <<tail, inbox>>, SameReleased,
         \A j \in Outstanding' : j \in Outstanding \/ j.kind \in {"open", "enter"}
  PROVE  ITail'
BY DEF ITail, SameReleased

(* The steps of the other tasks keep the realm's part.                     *)
LEMMA RInvTask ==
  ASSUME TypeOK, RInv, NEW o \in Owners, NEW t \in Tasks, TaskStep(o, t)
  PROVE  RInv'
<1> USE DEF RInv, thread, lifetime, reports, flags
<1>1. Scheduling /\ tasks[o][t] # "absent"
  BY DEF TaskStep, QueueBoot, QueueEntry, Resume, ResumeBoot, TaskReturns,
         TaskPanics, Join
<1>2. tail[o] \notin {"dispose", "release", "done"}
  BY <1>1, NotReaped
<1>3. UNCHANGED <<mode, job, at, parked, tail, realm, inbox>>
  BY DEF TaskStep, QueueBoot, QueueEntry, Resume, ResumeBoot, TaskReturns,
         TaskPanics, Join
<1>4. IStart'
  BY <1>1, <1>3, NotStarting DEF IStart
<1>5. ReapIsComplete'
  <2>1. \A p \in Owners : p # o => tasks'[p] = tasks[p]
    BY DEF TypeOK, TaskStep, QueueBoot, QueueEntry, Resume, ResumeBoot,
           TaskReturns, TaskPanics, Join
  <2> QED BY <1>2, <1>3, <2>1, ReapKept
<1>6. IEnded'
  <2>1. CASE UNCHANGED lifetime
    BY <1>3, <2>1 DEF IEnded
  <2>2. CASE End(o)
    BY <1>3, <2>2, EndKeeps
  <2> QED BY <2>1, <2>2 DEF TaskStep, QueueBoot, QueueEntry, Resume, ResumeBoot,
             TaskReturns, TaskPanics, Join, Trapped
<1>7. ITail' /\ ReleaseIsLast'
  <2>1. CASE queue' = queue
    BY <1>3, <2>1, SameQueue, TailKept, LastWithoutPush DEF SameReleased
  <2>2. CASE \E k \in {"open", "enter"}, s \in Tasks \cup {NoTask} : Push(NewJob(o, k, s))
    <3>1. PICK k \in {"open", "enter"}, s \in Tasks \cup {NoTask} : Push(NewJob(o, k, s))
      BY <2>2
    <3>2. NewJob(o, k, s) \in Job
      BY NewJobType DEF JobKind
    <3>3. Outstanding' \subseteq Outstanding \cup {NewJob(o, k, s)}
      BY <1>3, <3>1, <3>2, PushedQueue
    <3>4. ITail'
      BY <1>3, <3>3, TailKept DEF SameReleased, NewJob
    <3>5. ReleaseIsLast'
      BY <1>2, <1>3, <3>1, <3>2, LastWithPush DEF SameReleased, Unreleased, NewJob
    <3> QED BY <3>4, <3>5
  <2> QED BY <2>1, <2>2 DEF TaskStep, QueueBoot, QueueEntry, Resume, ResumeBoot,
             TaskReturns, TaskPanics, Join
<1> QED BY <1>4, <1>5, <1>6, <1>7

(* The steps of the loop keep the realm's part (JsThread::run, drain).     *)
LEMMA RInvThread ==
  ASSUME TypeOK, RInv, ThreadStep
  PROVE  RInv'
<1> USE DEF RInv, owners, lifetime, reports, flags
<1>1. UNCHANGED <<lifetime, tasks, flags, tail>>
  BY DEF ThreadStep, Notified, Drained, MainFinished, PopLive, PopDispose, PopRelease
<1>2. IEnded' /\ ReapIsComplete'
  BY <1>1 DEF IEnded, ReapIsComplete, NoTasks
<1>3. CASE Notified \/ Drained
  <2>1. queue' = queue /\ UNCHANGED <<job, at, parked, realm>>
    BY <1>3 DEF Notified, Drained
  <2>2. IStart'
    BY <1>1, <2>1 DEF IStart
  <2> QED BY <1>1, <1>2, <2>1, <2>2, SameQueue, TailKept, LastWithoutPush
          DEF SameReleased
<1>4. CASE MainFinished
  <2>1. queue' = <<>> /\ UNCHANGED <<job, at, parked, realm>>
    BY <1>4 DEF MainFinished
  <2>2. Outstanding' \subseteq Outstanding /\ DOMAIN queue' = {}
    BY <2>1 DEF Outstanding
  <2>3. IStart' /\ ITail'
    BY <1>1, <2>1, <2>2 DEF IStart, ITail
  <2> QED BY <1>2, <2>1, <2>2, <2>3 DEF ReleaseIsLast
<1>5. CASE PopLive \/ PopDispose
  <2>1. PICK K : Pop(K)
    BY <1>5 DEF PopLive, PopDispose
  <2>2. /\ realm' = realm /\ job = NoJob
        /\ job' = job \/ Begin
    BY <1>5, <2>1 DEF PopLive, PopDispose, Begin, Pop
  <2>3. IStart'
    <3>1. CASE PopLive
      BY <1>1, <2>1, <2>2, <3>1, HeadType DEF PopLive, IStart, Begin, Pop, TypeOK
    <3>2. CASE PopDispose
      BY <1>1, <2>1, <2>2, <3>2, HeadType DEF PopDispose, IStart, Begin, Pop, TypeOK
    <3> QED BY <1>5, <3>1, <3>2
  <2>4. ITail' /\ ReleaseIsLast'
    BY <1>1, <2>1, <2>2, PoppedQueue, TailKept, LastWithPop DEF SameReleased, Begin
  <2> QED BY <1>2, <2>3, <2>4
<1>6. CASE PopRelease
  <2>1. Pop({"release"}) /\ UNCHANGED <<job, at>> /\ parked' = parked
    BY <1>6 DEF PopRelease, Pop
  <2>2. Head(queue) \in Outstanding /\ Outstanding' \subseteq Outstanding
    BY <2>1, PoppedQueue
  <2>3. tail[Head(queue).owner] = "release"
    BY <2>1, <2>2, HeadType DEF ITail
  <2>4. ITail'
    BY <1>1, <1>6, <2>2, <2>3 DEF PopRelease, ITail, TypeOK
  <2>5. IStart'
    BY <1>1, <2>1 DEF IStart
  <2> QED BY <1>2, <1>6, <2>4, <2>5, LastWithRelease
<1> QED BY <1>3, <1>4, <1>5, <1>6 DEF ThreadStep

(* The steps of the running job keep the realm's part (enter_now, epilogue).*)
LEMMA RInvJob ==
  ASSUME TypeOK, RInv, NEW o \in Owners, JobStep(o)
  PROVE  RInv'
<1> USE DEF RInv, thread, owners, lifetime, reports, flags, Quiet, Return, Goes
<1>1. job # NoJob /\ job.owner = o /\ job' \in {job, NoJob} /\ UNCHANGED tail
  BY NoJobAssumption
     DEF TypeOK, JobStep, Returns, Park, WaitCancelled, WaitAnswered, CloseWorker, JobTraps,
         OpenFails, Furnished, Released, StartupFails, Opens, OperationReturns,
         Epilogue, Running, ToTimers
<1>2. realm[o] # "released"
  BY <1>1, OutstandingJobs DEF ReleaseIsLast
<1>3. SameReleased
  <2>1. CASE UNCHANGED realm
    BY <2>1 DEF SameReleased
  <2>2. CASE Opens(o)
    BY <1>2, <2>2 DEF Opens, SameReleased, TypeOK
  <2> QED BY <2>1, <2>2
          DEF JobStep, Returns, Park, WaitCancelled, WaitAnswered, CloseWorker,
              JobTraps, OpenFails, Furnished, Released, StartupFails,
              OperationReturns, Epilogue
<1>4. IEnded'
  <2>1. CASE UNCHANGED lifetime
    BY <1>1, <2>1 DEF IEnded
  <2>2. CASE End(o)
    BY <1>1, <2>2, EndKeeps
  <2>3. CASE ~ended[o] /\ Settles(o)
    BY <1>1, <2>3 DEF Settles, IEnded, TypeOK
  <2> QED BY <2>1, <2>2, <2>3
          DEF JobStep, Returns, Park, WaitCancelled, WaitAnswered, CloseWorker,
              JobTraps, OpenFails, Furnished, Released, StartupFails, Opens,
              OperationReturns, Epilogue, Closes, BootRejected, Terminal, Trapped
<1>5. IStart'
  <2>1. CASE job' = NoJob \/ at' # "start"
    BY <2>1 DEF IStart
  <2>2. CASE CloseWorker(o)
    BY <2>2 DEF CloseWorker, IStart
  <2>3. CASE WaitCancelled(o) \/ WaitAnswered(o)
    BY <2>3 DEF WaitCancelled, WaitAnswered, IStart
  <2> QED BY <2>1, <2>2, <2>3
          DEF JobStep, Returns, Park, JobTraps, OpenFails, Furnished, Released,
              StartupFails, Opens, OperationReturns, Epilogue, ToTimers
<1>6. ReapIsComplete'
  <2>1. CASE UNCHANGED tasks
    BY <1>1, <2>1 DEF ReapIsComplete, NoTasks
  <2>2. CASE ~ended[o] /\ MaySpawn(o)
    <3>1. tail[o] \notin {"dispose", "release", "done"}
      BY <2>2 DEF IEnded
    <3>2. \A p \in Owners : p # o => tasks'[p] = tasks[p]
      BY <2>2 DEF MaySpawn, TypeOK
    <3> QED BY <1>1, <3>1, <3>2, ReapKept
  <2> QED BY <2>1, <2>2
          DEF JobStep, Returns, Park, WaitCancelled, WaitAnswered, CloseWorker,
              JobTraps, OpenFails, Furnished, Released, StartupFails, Opens,
              OperationReturns, Epilogue, Closes, BootRejected, Settles
<1>7. \A p \in Owners : inbox'[p] => Role = "page"
  <2>1. CASE inbox' = inbox
    BY <2>1 DEF ITail
  <2>2. CASE Opens(o)
    BY <2>2 DEF Opens, ITail, TypeOK
  <2> QED BY <2>1, <2>2
          DEF JobStep, Returns, Park, WaitCancelled, WaitAnswered, CloseWorker,
              JobTraps, OpenFails, Furnished, Released, StartupFails,
              OperationReturns, Epilogue
<1>8. CASE queue' = queue
  <2>1. Outstanding' \subseteq Outstanding
    BY <1>1, <1>8, SameQueue
  <2>2. ITail'
    BY <1>1, <1>3, <1>7, <2>1 DEF ITail, SameReleased
  <2> QED BY <1>1, <1>3, <1>4, <1>5, <1>6, <1>8, <2>2, LastWithoutPush
<1>9. CASE ~ended[o] /\ Push(NewJob(o, "enter", NoTask))
  <2>1. NewJob(o, "enter", NoTask) \in Job
    BY NewJobType DEF JobKind
  <2>2. Outstanding' \subseteq Outstanding \cup {NewJob(o, "enter", NoTask)}
    BY <1>1, <1>9, <2>1, PushedQueue
  <2>3. ITail'
    BY <1>1, <1>3, <1>7, <2>2 DEF ITail, SameReleased, NewJob
  <2>4. Unreleased(o)
    BY <1>9 DEF IEnded, Unreleased
  <2>5. ReleaseIsLast'
    BY <1>1, <1>3, <1>9, <2>1, <2>4, LastWithPush DEF NewJob
  <2> QED BY <1>4, <1>5, <1>6, <2>3, <2>5
<1> QED BY <1>8, <1>9
        DEF JobStep, Returns, Park, WaitCancelled, WaitAnswered, CloseWorker,
            JobTraps, OpenFails, Furnished, Released, StartupFails, Opens,
            OperationReturns, Epilogue, Closes, BootRejected, Settles, Posts

(* Every step keeps the realm's part of the invariant.                     *)
LEMMA RInvStep == TypeOK /\ RInv /\ [Next]_vars => RInv'
<1> SUFFICES ASSUME TypeOK, RInv, [Next]_vars PROVE RInv'
  OBVIOUS
<1>1. CASE UNCHANGED vars
  BY <1>1 DEF vars, RInv, IEnded, IStart, ITail, ReapIsComplete, NoTasks,
              ReleaseIsLast, Outstanding
<1> QED BY <1>1, RInvTail, RInvTask, RInvThread, RInvJob DEF Next, Over

-----------------------------------------------------------------------------
(* The part that is about an owner whose own task has not run.             *)

(* An owner is untouched until its own task has run once.                  *)
LEMMA UnservedStep == TypeOK /\ IUnserved /\ [Next]_vars => IUnserved'
<1> SUFFICES ASSUME TypeOK, IUnserved, [Next]_vars PROVE IUnserved'
  OBVIOUS
<1> USE DEF thread, owners, lifetime, reports, flags
<1>1. ASSUME NEW o \in Owners, tail[o] # "unserved" \/ tail'[o] # "unserved",
             \A p \in Owners : p # o => tasks'[p] = tasks[p] /\ tail'[p] = tail[p],
             tail'[o] = "unserved" => tail[o] = "unserved",
             \A j \in Outstanding' : j \in Outstanding \/ j.owner = o
      PROVE  IUnserved'
  BY <1>1 DEF IUnserved, NoTasks
<1>2. ASSUME UNCHANGED <<tasks, tail>>, Outstanding' \subseteq Outstanding
      PROVE  IUnserved'
  BY <1>2 DEF IUnserved, NoTasks
<1>3. CASE UNCHANGED vars
  <2>1. Outstanding' = Outstanding
    BY <1>3 DEF vars, Outstanding
  <2> QED BY <1>2, <1>3, <2>1 DEF vars
<1>4. CASE ThreadStep
  <2>1. Outstanding' \subseteq Outstanding
    <3>1. CASE Notified \/ Drained
      BY <3>1, SameQueue DEF Notified, Drained
    <3>2. CASE MainFinished
      BY <3>2 DEF MainFinished, Outstanding
    <3>3. CASE PopLive \/ PopDispose \/ PopRelease
      BY <3>3, PoppedQueue DEF PopLive, PopDispose, PopRelease, Begin
    <3> QED BY <1>4, <3>1, <3>2, <3>3 DEF ThreadStep
  <2> QED BY <1>2, <1>4, <2>1
          DEF ThreadStep, Notified, Drained, MainFinished, PopLive, PopDispose, PopRelease
<1>5. ASSUME NEW o \in Owners, HostCancels(o) \/ TailStep(o)
      PROVE  IUnserved'
  <2>1. CASE HostCancels(o)
    BY <1>2, <2>1, SameQueue DEF HostCancels
  <2>2. CASE TailStep(o)
    <3>1. \A p \in Owners : p # o => tasks'[p] = tasks[p] /\ tail'[p] = tail[p]
      BY <2>2 DEF TailStep, Serve, ServeEnds, ReapEnds, DisposeAgain, DisposeEnds,
                  TailEnds, QueueTail, TypeOK
    <3>2. tail'[o] # "unserved"
      BY <2>2 DEF TailStep, Serve, ServeEnds, ReapEnds, DisposeAgain, DisposeEnds,
                  TailEnds, QueueTail, TypeOK
    <3>3. \A j \in Outstanding' : j \in Outstanding \/ j.owner = o
      <4>1. CASE queue' = queue /\ job' = job
        BY <4>1, SameQueue
      <4>2. CASE \E k \in JobKind : Push(NewJob(o, k, NoTask)) /\ job' = job
        BY <4>2, PushedQueue, NewJobType DEF NewJob
      <4> QED BY <2>2, <4>1, <4>2
              DEF TailStep, Serve, ServeEnds, ReapEnds, DisposeAgain, DisposeEnds,
                  TailEnds, QueueTail, JobKind
    <3> QED BY <1>1, <3>1, <3>2, <3>3
  <2> QED BY <1>5, <2>1, <2>2
<1>6. ASSUME NEW o \in Owners, NEW t \in Tasks, TaskStep(o, t)
      PROVE  IUnserved'
  <2>1. tail[o] # "unserved" /\ tail' = tail /\ job' = job
    BY <1>6 DEF IUnserved, NoTasks, TaskStep, QueueBoot, QueueEntry, Resume, ResumeBoot,
                TaskReturns, TaskPanics, Join
  <2>2. \A p \in Owners : p # o => tasks'[p] = tasks[p]
    BY <1>6 DEF TypeOK, TaskStep, QueueBoot, QueueEntry, Resume, ResumeBoot,
                TaskReturns, TaskPanics, Join
  <2>3. \A j \in Outstanding' : j \in Outstanding \/ j.owner = o
    <3>1. CASE queue' = queue
      BY <2>1, <3>1, SameQueue
    <3>2. CASE \E k \in JobKind, s \in Tasks \cup {NoTask} : Push(NewJob(o, k, s))
      BY <2>1, <3>2, PushedQueue, NewJobType DEF NewJob
    <3> QED BY <1>6, <3>1, <3>2
            DEF TaskStep, QueueBoot, QueueEntry, Resume, ResumeBoot, TaskReturns,
                TaskPanics, Join, JobKind
  <2> QED BY <1>1, <2>1, <2>2, <2>3
<1>7. ASSUME NEW o \in Owners, JobStep(o)
      PROVE  IUnserved'
  <2>1. job # NoJob /\ job.owner = o /\ job' \in {job, NoJob} /\ tail' = tail
    BY <1>7, NoJobAssumption
       DEF TypeOK, JobStep, Returns, Park, WaitCancelled, WaitAnswered, CloseWorker,
           JobTraps, OpenFails, Furnished, Released, StartupFails, Opens,
           OperationReturns, Epilogue, Running, ToTimers, Goes, Return
  <2>2. tail[o] # "unserved"
    BY <2>1, OutstandingJobs DEF IUnserved
  <2>3. \A p \in Owners : p # o => tasks'[p] = tasks[p]
    BY <1>7 DEF TypeOK, JobStep, Returns, Park, WaitCancelled, WaitAnswered, CloseWorker,
                JobTraps, OpenFails, Furnished, Released, StartupFails, Opens,
                OperationReturns, Epilogue, Closes, BootRejected, Settles, MaySpawn
  <2>4. \A j \in Outstanding' : j \in Outstanding \/ j.owner = o
    <3>1. CASE queue' = queue
      BY <2>1, <3>1, SameQueue
    <3>2. CASE Push(NewJob(o, "enter", NoTask))
      BY <2>1, <3>2, PushedQueue, NewJobType DEF NewJob, JobKind
    <3> QED BY <1>7, <3>1, <3>2
            DEF JobStep, Returns, Park, WaitCancelled, WaitAnswered, CloseWorker,
                JobTraps, OpenFails, Furnished, Released, StartupFails, Opens,
                OperationReturns, Epilogue, Closes, BootRejected, Settles, Posts, Quiet
  <2> QED BY <1>1, <2>1, <2>2, <2>3, <2>4
<1> QED BY <1>3, <1>4, <1>5, <1>6, <1>7 DEF Next, Over

-----------------------------------------------------------------------------
(* The part that is about reports.                                         *)

(* Every step keeps the latches in agreement with what was reported.       *)
LEMMA ReportsStep == TypeOK /\ RInv /\ IReports /\ OneReport /\ [Next]_vars
                       => IReports' /\ OneReport'
<1> SUFFICES ASSUME TypeOK, RInv, IReports, OneReport, [Next]_vars
             PROVE  IReports' /\ OneReport'
  OBVIOUS
<1>1. CASE UNCHANGED reports
  BY <1>1 DEF reports, IReports, OneReport
<1>2. ASSUME NEW o \in Owners, NEW r \in Report,
             sent' = [sent EXCEPT ![o] = Append(@, r)],
             r = "panicked" =>
               /\ ~panic_reported[o]
               /\ panic_reported' = [panic_reported EXCEPT ![o] = TRUE]
               /\ UNCHANGED terminal_reported,
             r # "panicked" =>
               /\ ~terminal_reported[o]
               /\ terminal_reported' = [terminal_reported EXCEPT ![o] = TRUE]
               /\ UNCHANGED panic_reported
      PROVE  IReports' /\ OneReport'
  <2>1. sent[o] \in Seq(Report) /\ sent'[o] = Append(sent[o], r)
    BY <1>2 DEF TypeOK
  <2>2. /\ DOMAIN sent'[o] = DOMAIN sent[o] \cup {Len(sent[o]) + 1}
        /\ Len(sent[o]) + 1 \notin DOMAIN sent[o]
        /\ sent'[o][Len(sent[o]) + 1] = r
        /\ \A i \in DOMAIN sent[o] : sent'[o][i] = sent[o][i]
    BY <2>1
  <2>3. \A p \in Owners : p # o => /\ sent'[p] = sent[p]
                                  /\ panic_reported'[p] = panic_reported[p]
                                  /\ terminal_reported'[p] = terminal_reported[p]
    BY <1>2 DEF TypeOK
  <2>4. CASE r = "panicked"
    <3>1. panic_reported'[o] /\ terminal_reported' = terminal_reported
      BY <1>2, <2>4 DEF TypeOK
    <3>2. \A i \in DOMAIN sent[o] : sent[o][i] # "panicked"
      BY <1>2, <2>4 DEF IReports
    <3>3. IReports'
      BY <2>2, <2>3, <2>4, <3>1 DEF IReports
    <3>4. OneReport'
      BY <2>2, <2>3, <2>4, <3>2 DEF OneReport
    <3> QED BY <3>3, <3>4
  <2>5. CASE r # "panicked"
    <3>1. terminal_reported'[o] /\ panic_reported' = panic_reported
      BY <1>2, <2>5 DEF TypeOK
    <3>2. \A i \in DOMAIN sent[o] : sent[o][i] = "panicked"
      BY <1>2, <2>5 DEF IReports
    <3>3. IReports'
      BY <2>2, <2>3, <2>5, <3>1 DEF IReports
    <3>4. OneReport'
      BY <2>2, <2>3, <2>5, <3>2 DEF OneReport
    <3> QED BY <3>3, <3>4
  <2> QED BY <2>4, <2>5
<1>3. ASSUME NEW o \in Owners, Trapped(o)
      PROVE  IReports' /\ OneReport'
  <2>1. CASE panic_reported[o]
    <3>1. UNCHANGED reports
      BY <1>3, <2>1 DEF Trapped, TypeOK, reports
    <3> QED BY <1>1, <3>1
  <2>2. CASE ~panic_reported[o]
    BY <1>2, <1>3, <2>2 DEF Trapped, Report
  <2> QED BY <2>1, <2>2
<1>4. ASSUME NEW o \in Owners, NEW r \in {"failed", "closed"}, Terminal(o, r)
      PROVE  IReports' /\ OneReport'
  <2>1. CASE terminal_reported[o]
    <3>1. UNCHANGED reports
      BY <1>4, <2>1 DEF Terminal, TypeOK, reports
    <3> QED BY <1>1, <3>1
  <2>2. CASE ~terminal_reported[o]
    BY <1>2, <1>4, <2>2 DEF Terminal, Report
  <2> QED BY <2>1, <2>2
<1>5. ASSUME NEW o \in Owners, NEW t \in Tasks, TaskStep(o, t)
      PROVE  IReports' /\ OneReport'
  BY <1>1, <1>3, <1>5
     DEF TaskStep, QueueBoot, QueueEntry, Resume, ResumeBoot, TaskReturns, TaskPanics, Join
<1>6. ASSUME NEW o \in Owners, JobStep(o)
      PROVE  IReports' /\ OneReport'
  BY <1>1, <1>3, <1>4, <1>6
     DEF JobStep, Returns, Park, WaitCancelled, WaitAnswered, CloseWorker, JobTraps,
         OpenFails, Furnished, Released, StartupFails, Opens, OperationReturns,
         Epilogue, Closes, BootRejected, Settles, owners
<1>7. ASSUME NEW o \in Owners, HostCancels(o) \/ TailStep(o)
      PROVE  IReports' /\ OneReport'
  BY <1>1, <1>7
     DEF HostCancels, TailStep, Serve, ServeEnds, ReapEnds, DisposeAgain, DisposeEnds,
         TailEnds, QueueTail
<1>8. CASE ThreadStep
  BY <1>1, <1>8
     DEF ThreadStep, Notified, Drained, MainFinished, PopLive, PopDispose, PopRelease, owners
<1>9. CASE UNCHANGED vars
  BY <1>1, <1>9 DEF vars, reports
<1> QED BY <1>5, <1>6, <1>7, <1>8, <1>9 DEF Next, Over

(* The inductive invariant holds at the start.                             *)
LEMMA IInvInit == Init => IInv
<1>1. Init => IUnserved /\ IReports /\ OneReport
  BY DEF Init, IUnserved, NoTasks, Outstanding, IReports, OneReport
<1> QED BY <1>1, RInvInit DEF RInv, IInv

(* The inductive invariant is inductive.                                   *)
LEMMA IInvStep == TypeOK /\ IInv /\ [Next]_vars => IInv'
BY RInvStep, UnservedStep, ReportsStep DEF RInv, IInv

(* The inductive invariant holds throughout.                               *)
THEOREM Invariance == Spec => [](TypeOK /\ IInv)
<1>1. Init => TypeOK /\ IInv
  BY TypeInit, IInvInit
<1>2. (TypeOK /\ IInv) /\ [Next]_vars => (TypeOK /\ IInv)'
  BY TypeStep, IInvStep
<1> QED BY <1>1, <1>2, PTL DEF Spec

(* A realm that has ended has no timer armed, whatever its entries did     *)
(* while they were parked (Lifetime::end and the epilogue's later checks). *)
THEOREM DeadlineIsWithdrawn == Spec => []DeadlineWithdrawn
<1>1. TypeOK /\ IInv => DeadlineWithdrawn
  BY DEF IInv, IEnded, DeadlineWithdrawn
<1> QED BY <1>1, Invariance, PTL

(* Nothing is spawned behind a reap (run_owner, open_realm, epilogue).     *)
THEOREM ReapedForGood == Spec => []ReapIsComplete
<1>1. TypeOK /\ IInv => ReapIsComplete
  BY DEF IInv
<1> QED BY <1>1, Invariance, PTL

(* No job of an owner is behind its release, or under it (run_owner).      *)
THEOREM ReleasedLast == Spec => []ReleaseIsLast
<1>1. TypeOK /\ IInv => ReleaseIsLast
  BY DEF IInv
<1> QED BY <1>1, Invariance, PTL

(* One end is one report and one panic is one report (terminal, trapped).  *)
THEOREM ReportedOnce == Spec => []OneReport
<1>1. TypeOK /\ IInv => OneReport
  BY DEF IInv
<1> QED BY <1>1, Invariance, PTL

(* No job is left in the queue of a loop that sleeps (JsThread.pushed).    *)
THEOREM NeverSleepsOnWork == Spec => []NoLostWake
<1>1. Init => NoLostWake
  BY DEF Init, NoLostWake
<1>2. TypeOK /\ NoLostWake /\ [Next]_vars => NoLostWake'
  <2> SUFFICES ASSUME TypeOK, NoLostWake, [Next]_vars PROVE NoLostWake'
    OBVIOUS
  <2> USE DEF NoLostWake, thread, owners
  <2>1. CASE UNCHANGED vars
    BY <2>1 DEF vars
  <2>2. CASE ThreadStep
    BY <2>2 DEF ThreadStep, Notified, Drained, MainFinished, PopLive, PopDispose,
                PopRelease, Pop
  <2>3. ASSUME NEW o \in Owners, HostCancels(o) \/ TailStep(o)
        PROVE  NoLostWake'
    BY <2>3 DEF HostCancels, TailStep, Serve, ServeEnds, ReapEnds, DisposeAgain,
                DisposeEnds, TailEnds, QueueTail, Push
  <2>4. ASSUME NEW o \in Owners, NEW t \in Tasks, TaskStep(o, t)
        PROVE  NoLostWake'
    BY <2>4 DEF TaskStep, QueueBoot, QueueEntry, Resume, ResumeBoot, TaskReturns,
                TaskPanics, Join, Push
  <2>5. ASSUME NEW o \in Owners, JobStep(o)
        PROVE  NoLostWake'
    BY <2>5 DEF JobStep, Returns, Park, WaitCancelled, WaitAnswered, CloseWorker,
                JobTraps, OpenFails, Furnished, Released, StartupFails, Opens,
                OperationReturns, Epilogue, Closes, BootRejected, Settles, Posts,
                Quiet, Push
  <2> QED BY <2>1, <2>2, <2>3, <2>4, <2>5 DEF Next, Over
<1> QED BY <1>1, <1>2, TypeCorrect, PTL DEF Spec

(* An owner that has ended makes no report of its own after the end: not   *)
(* one of its entries, and not the job that opens it.                      *)
THEOREM QuietForGood == Spec => QuietAfterEnd
<1> DEFINE QuietStep == \A o \in Owners :
                          ended[o] => terminal_reported'[o] = terminal_reported[o]
<1>1. TypeOK /\ IInv /\ [Next]_vars => [QuietStep]_vars
  <2> SUFFICES ASSUME TypeOK, IInv, Next PROVE QuietStep
    OBVIOUS
  <2> USE DEF thread, owners, reports
  <2>1. CASE UNCHANGED terminal_reported
    BY <2>1
  <2>2. ASSUME NEW o \in Owners, NEW r \in Report, Terminal(o, r), ~ended[o]
        PROVE  QuietStep
    BY <2>2 DEF Terminal, TypeOK
  <2>3. ASSUME NEW o \in Owners, JobStep(o)
        PROVE  QuietStep
    <3>1. CASE OpenFails(o)
      BY <2>2, <3>1 DEF OpenFails, Running, IInv, IStart, Report
    <3>2. CASE StartupFails(o)
      BY <2>2, <3>2 DEF StartupFails, IInv, IEnded, Report
    <3>3. CASE Epilogue(o)
      BY <2>1, <2>2, <3>3 DEF Epilogue, Closes, BootRejected, Settles, Report
    <3> QED BY <2>1, <2>3, <3>1, <3>2, <3>3
            DEF JobStep, Returns, Park, WaitCancelled, WaitAnswered, CloseWorker,
                JobTraps, Furnished, Released, Opens, OperationReturns, Trapped
  <2>4. ASSUME NEW o \in Owners, HostCancels(o) \/ TailStep(o)
        PROVE  QuietStep
    BY <2>1, <2>4 DEF HostCancels, TailStep, Serve, ServeEnds, ReapEnds, DisposeAgain,
                      DisposeEnds, TailEnds, QueueTail
  <2>5. ASSUME NEW o \in Owners, NEW t \in Tasks, TaskStep(o, t)
        PROVE  QuietStep
    BY <2>1, <2>5 DEF TaskStep, QueueBoot, QueueEntry, Resume, ResumeBoot, TaskReturns,
                      TaskPanics, Join, Trapped
  <2>6. CASE ThreadStep
    BY <2>1, <2>6 DEF ThreadStep, Notified, Drained, MainFinished, PopLive, PopDispose,
                      PopRelease
  <2>7. CASE Over
    BY <2>1, <2>7 DEF Over, vars
  <2> QED BY <2>3, <2>4, <2>5, <2>6, <2>7 DEF Next
<1> QED BY <1>1, Invariance, PTL DEF Spec, QuietAfterEnd

(* A task that changes changes alone.                                      *)
LEMMA OneTask ==
  ASSUME TypeOK, NEW o \in Owners, NEW t \in Tasks, NEW s,
         tasks' = [tasks EXCEPT ![o][t] = s]
  PROVE  \A p \in Owners, u \in Tasks :
           tasks'[p][u] = IF p = o /\ u = t THEN s ELSE tasks[p][u]
<1>1. tasks \in [Owners -> [Tasks -> TaskState]]
  BY DEF TypeOK
<1> QED BY <1>1

(* The payload of a task that panicked is reported when it is joined, and  *)
(* no other step takes it out of the set (Lifetime::report, trapped).      *)
THEOREM PanicsAreReported == Spec => PanicIsReported
<1> DEFINE Kept == \A o \in Owners, t \in Tasks :
                     tasks[o][t] = "panicked" /\ tasks'[o][t] # "panicked"
                       => "panicked" \in {sent'[o][i] : i \in DOMAIN sent'[o]}
<1>1. TypeOK /\ IInv /\ [Next]_vars => [Kept]_vars
  <2> SUFFICES ASSUME TypeOK, IInv, IInv', Next PROVE Kept
    BY IInvStep
  <2> USE DEF thread, owners
  <2>1. ASSUME \A o \in Owners, t \in Tasks :
                 tasks[o][t] = "panicked" => tasks'[o][t] = "panicked"
        PROVE  Kept
    BY <2>1
  <2>2. ASSUME NEW o \in Owners, NEW t \in Tasks, Trapped(o),
               \A p \in Owners : p # o => tasks'[p] = tasks[p]
        PROVE  Kept
    <3>1. panic_reported'[o]
      BY <2>2 DEF Trapped, TypeOK
    <3>2. "panicked" \in {sent'[o][i] : i \in DOMAIN sent'[o]}
      BY <3>1 DEF IInv, IReports
    <3> QED BY <2>2, <3>2
  <2>3. ASSUME NEW o \in Owners, NEW t \in Tasks, TaskStep(o, t)
        PROVE  Kept
    <3>1. CASE Join(o, t)
      <4>1. CASE tasks[o][t] = "panicked"
        BY <2>2, <3>1, <4>1 DEF Join, TypeOK
      <4>2. CASE tasks[o][t] # "panicked"
        BY <2>1, <3>1, <4>2 DEF Join, TypeOK
      <4> QED BY <4>1, <4>2
    <3>2. CASE QueueBoot(o, t)
      BY <2>1, <3>2 DEF QueueBoot, TypeOK
    <3>3. CASE QueueEntry(o, t) \/ Resume(o, t) \/ ResumeBoot(o, t)
               \/ TaskReturns(o, t) \/ TaskPanics(o, t)
      <4>1. \/ UNCHANGED tasks
            \/ \E s : tasks[o][t] # "panicked" /\ tasks' = [tasks EXCEPT ![o][t] = s]
            \/ tasks' = [tasks EXCEPT ![o][t] = "panicked"]
        BY <3>3 DEF QueueEntry, Resume, ResumeBoot, TaskReturns, TaskPanics
      <4> QED BY SMTT(30), <2>1, <4>1, OneTask
    <3> QED BY <2>3, <3>1, <3>2, <3>3 DEF TaskStep
  <2>4. ASSUME NEW o \in Owners, MaySpawn(o)
        PROVE  Kept
    BY SMTT(30), <2>1, <2>4, OneTask DEF MaySpawn
  <2>5. ASSUME UNCHANGED tasks
        PROVE  Kept
    BY <2>1, <2>5
  <2>6. ASSUME NEW o \in Owners, JobStep(o)
        PROVE  Kept
    BY <2>4, <2>5, <2>6
       DEF JobStep, Returns, Park, WaitCancelled, WaitAnswered, CloseWorker, JobTraps,
           OpenFails, Furnished, Released, StartupFails, Opens, OperationReturns,
           Epilogue, Closes, BootRejected, Settles
  <2>7. ASSUME NEW o \in Owners, HostCancels(o) \/ TailStep(o)
        PROVE  Kept
    <3>1. CASE Serve(o)
      <4>1. \A t \in Tasks : tasks[o][t] # "panicked"
        BY <3>1 DEF Serve, IInv, IUnserved, NoTasks
      <4>2. \A p \in Owners : p # o => tasks'[p] = tasks[p]
        BY <3>1 DEF Serve, TypeOK
      <4> QED BY <2>1, <4>1, <4>2
    <3>2. CASE ServeEnds(o)
      BY <2>1, <3>2 DEF ServeEnds, TypeOK
    <3> QED BY <2>5, <2>7, <3>1, <3>2
            DEF HostCancels, TailStep, ReapEnds, DisposeAgain, DisposeEnds, TailEnds,
                QueueTail
  <2>8. CASE ThreadStep \/ Over
    BY <2>5, <2>8 DEF ThreadStep, Notified, Drained, MainFinished, PopLive, PopDispose,
                      PopRelease, Over, vars
  <2> QED BY <2>3, <2>6, <2>7, <2>8 DEF Next
<1> QED BY <1>1, Invariance, PTL DEF Spec, PanicIsReported

-----------------------------------------------------------------------------
(* RealmOwner implements OwnerLife.                                        *)

LifeOf == [o \in Owners |-> Life(o)]
Stack == IF job = NoJob THEN NoJob ELSE job.owner

(* A step that ends and releases no owner leaves every life as it was.     *)
LEMMA SameLife ==
  ASSUME SameReleased, UNCHANGED ended
  PROVE  LifeOf' = LifeOf
<1>1. \A o \in Owners : Life(o)' = Life(o)
  BY DEF SameReleased, Life
<1> QED BY <1>1 DEF LifeOf

(* Ending an owner is the abstract end of a live one, or no change.        *)
LEMMA EndsLife ==
  ASSUME TypeOK, IInv, NEW o \in Owners, End(o), SameReleased
  PROVE  \/ LifeOf[o] = "live" /\ LifeOf' = [LifeOf EXCEPT ![o] = "ended"]
         \/ LifeOf' = LifeOf
<1>1. \A p \in Owners : p # o => Life(p)' = Life(p)
  BY DEF SameReleased, Life, End, TypeOK
<1>2. CASE ended[o]
  <2>1. ended' = ended
    BY <1>2 DEF End, TypeOK
  <2> QED BY <2>1, SameLife
<1>3. CASE ~ended[o]
  <2>1. realm[o] # "released"
    BY <1>3 DEF IInv, IEnded, ITail
  <2>2. Life(o) = "live" /\ Life(o)' = "ended"
    BY <1>3, <2>1 DEF Life, SameReleased, End, TypeOK
  <2> QED BY <1>1, <2>2 DEF LifeOf
<1> QED BY <1>2, <1>3

(* Every step of the thread is a step of OwnerLife or none of its.         *)
LEMMA PromiseStep ==
  ASSUME TypeOK, IInv, [Next]_vars
  PROVE  [Promise!Next]_(Promise!vars)
<1> USE DEF thread, owners, lifetime, reports, flags
<1>1. /\ Promise!vars = <<LifeOf, Stack>>
      /\ Promise!vars' = <<LifeOf', Stack'>>
  BY DEF Promise!vars, LifeOf, Stack
<1>2. ASSUME SameReleased, UNCHANGED <<ended, job>>
      PROVE  UNCHANGED Promise!vars
  BY <1>1, <1>2, SameLife DEF Stack
<1>3. ASSUME NEW o \in Owners, End(o), SameReleased, UNCHANGED job
      PROVE  [Promise!Next]_(Promise!vars)
  <2>1. CASE LifeOf' = LifeOf
    BY <1>1, <1>3, <2>1 DEF Stack
  <2>2. CASE LifeOf[o] = "live" /\ LifeOf' = [LifeOf EXCEPT ![o] = "ended"]
    <3>1. Promise!End(o)
      BY <1>3, <2>2 DEF Promise!End, LifeOf, Stack
    <3> QED BY <3>1 DEF Promise!Next
  <2> QED BY <1>3, <2>1, <2>2, EndsLife
<1>4. ASSUME NEW o \in Owners, job # NoJob, job.owner = o, job' = NoJob, SameReleased,
             End(o) \/ UNCHANGED ended
      PROVE  Promise!Next
  <2>1. Stack = o /\ Stack' = NoJob /\ o # NoJob
    BY <1>4, NoJobAssumption DEF Stack
  <2>2. LifeOf' = LifeOf \/ (LifeOf[o] = "live" /\ LifeOf' = [LifeOf EXCEPT ![o] = "ended"])
    BY <1>4, EndsLife, SameLife
  <2>3. Promise!Leave
    BY <2>1, <2>2 DEF Promise!Leave, LifeOf, Stack
  <2> QED BY <2>3 DEF Promise!Next
<1>5. ASSUME NEW K, Pop(K), Begin, UNCHANGED <<ended, realm>>,
             LET o == Head(queue).owner IN
               \/ ~ended[o]
               \/ Role = "page" /\ tail[o] = "dispose"
      PROVE  Promise!Next
  <2> DEFINE o == Head(queue).owner
  <2>1. o \in Owners /\ Head(queue) \in Job /\ Head(queue) \in Outstanding
    BY <1>5, HeadType, PoppedQueue DEF Begin
  <2>2. Stack = NoJob /\ Stack' = o
    BY <1>5, <2>1, NoJobAssumption DEF Stack, Pop, Begin
  <2>3. realm[o] # "released"
    BY <2>1 DEF IInv, ReleaseIsLast
  <2>4. LifeOf' = LifeOf
    BY <1>5, SameLife DEF SameReleased
  <2>5. \/ LifeOf[o] = "live"
        \/ LifeOf[o] = "ended" /\ Role = "page"
    BY <1>5, <2>1, <2>3 DEF LifeOf, Life
  <2>6. Promise!Enter(o)
    BY <2>1, <2>2, <2>4, <2>5 DEF Promise!Enter, LifeOf, Stack
  <2> QED BY <2>1, <2>6 DEF Promise!Next
<1>6. CASE PopLive
  <2>1. CASE Begin
    <3>1. ~ended[Head(queue).owner]
      BY <1>6, <2>1, HeadType, NoJobAssumption DEF PopLive, Begin, Pop
    <3> QED BY <1>5, <1>6, <2>1, <3>1 DEF PopLive
  <2>2. CASE UNCHANGED job
    BY <1>2, <1>6, <2>2 DEF PopLive, SameReleased
  <2> QED BY <1>6, <2>1, <2>2 DEF PopLive
<1>7. CASE PopDispose
  <2>1. Pop({"dispose"}) /\ UNCHANGED <<ended, realm>>
    BY <1>7 DEF PopDispose
  <2>2. Head(queue) \in Outstanding /\ Head(queue).kind = "dispose" /\ Head(queue).owner \in Owners
    <3>1. Begin \/ UNCHANGED job
      BY <1>7 DEF PopDispose
    <3> QED BY <2>1, <3>1, HeadType, PoppedQueue DEF Begin
  <2>3. Role = "page" /\ tail[Head(queue).owner] = "dispose"
    BY <2>2 DEF IInv, ITail
  <2>4. CASE Begin
    BY <1>5, <2>1, <2>3, <2>4
  <2>5. CASE UNCHANGED job
    BY <1>2, <2>1, <2>5 DEF SameReleased
  <2> QED BY <1>7, <2>4, <2>5 DEF PopDispose
<1>8. CASE PopRelease
  <2>1. Pop({"release"}) /\ UNCHANGED <<job, ended>> /\ job = NoJob
    BY <1>8 DEF PopRelease, Pop
  <2>2. PICK o \in Owners : /\ o = Head(queue).owner
                            /\ Head(queue) \in Outstanding
                            /\ Head(queue).kind = "release"
    BY <2>1, HeadType, PoppedQueue
  <2>3. ended[o] /\ realm[o] # "released"
    BY <2>2 DEF IInv, ITail, IEnded, ReleaseIsLast
  <2>4. Life(o) = "ended" /\ Life(o)' = "released"
    <3>1. realm'[o] = "released"
      BY <1>8, <2>2 DEF PopRelease, TypeOK
    <3> QED BY <2>3, <3>1 DEF Life
  <2>5. \A p \in Owners : p # o => Life(p)' = Life(p)
    <3>1. \A p \in Owners : p # o => realm'[p] = realm[p]
      BY <1>8, <2>2 DEF PopRelease, TypeOK
    <3> QED BY <2>1, <3>1 DEF Life
  <2>6. LifeOf' = [LifeOf EXCEPT ![o] = "released"]
    BY <2>2, <2>4, <2>5 DEF LifeOf
  <2>7. Promise!Release(o)
    BY <2>1, <2>2, <2>4, <2>6 DEF Promise!Release, LifeOf, Stack
  <2> QED BY <2>2, <2>7 DEF Promise!Next
<1>9. CASE Notified \/ Drained \/ MainFinished \/ Over \/ UNCHANGED vars
  BY <1>2, <1>9 DEF Notified, Drained, MainFinished, Over, vars, SameReleased
<1>10. ASSUME NEW o \in Owners, HostCancels(o) \/ TailStep(o)
       PROVE  [Promise!Next]_(Promise!vars)
  BY <1>2, <1>3, <1>10
     DEF HostCancels, TailStep, Serve, ServeEnds, ReapEnds, DisposeAgain, DisposeEnds,
         TailEnds, QueueTail, SameReleased
<1>11. ASSUME NEW o \in Owners, NEW t \in Tasks, TaskStep(o, t)
       PROVE  [Promise!Next]_(Promise!vars)
  BY <1>2, <1>3, <1>11
     DEF TaskStep, QueueBoot, QueueEntry, Resume, ResumeBoot, TaskReturns, TaskPanics,
         Join, Trapped, SameReleased
<1>12. ASSUME NEW o \in Owners, JobStep(o)
       PROVE  [Promise!Next]_(Promise!vars)
  <2>1. job # NoJob /\ job.owner = o
    BY <1>12, NoJobAssumption
       DEF TypeOK, JobStep, Returns, Park, WaitCancelled, WaitAnswered, CloseWorker,
           JobTraps, OpenFails, Furnished, Released, StartupFails, Opens,
           OperationReturns, Epilogue, Running
  <2>2. SameReleased
    <3>1. realm[o] # "released"
      BY <2>1, OutstandingJobs DEF IInv, ReleaseIsLast
    <3>2. CASE Opens(o)
      BY <3>1, <3>2 DEF Opens, SameReleased, TypeOK
    <3> QED BY <1>12, <3>2
            DEF JobStep, Returns, Park, WaitCancelled, WaitAnswered, CloseWorker,
                JobTraps, OpenFails, Furnished, Released, StartupFails,
                OperationReturns, Epilogue, SameReleased
  <2>3. \/ job' = job /\ UNCHANGED ended
        \/ job' = NoJob /\ (End(o) \/ UNCHANGED ended)
    BY <1>12 DEF JobStep, Returns, Park, WaitCancelled, WaitAnswered, CloseWorker,
                 JobTraps, OpenFails, Furnished, Released, StartupFails, Opens,
                 OperationReturns, Epilogue, Closes, BootRejected, Settles, Terminal,
                 Trapped, ToTimers, Goes, Return
  <2> QED BY <1>2, <1>4, <2>1, <2>2, <2>3
<1> QED BY <1>6, <1>7, <1>8, <1>9, <1>10, <1>11, <1>12 DEF Next, ThreadStep

(* An engine thread keeps what OwnerLife promises of its owners: one at a  *)
(* time in JavaScript, live unless it is a view's disposal, and released   *)
(* once, after its end, under nobody's JavaScript.                         *)
THEOREM Implementation == Spec => ImplementsOwnerLife
<1>1. Init => Promise!Init
  BY DEF Init, Promise!Init, Life
<1>2. TypeOK /\ IInv /\ [Next]_vars => [Promise!Next]_(Promise!vars)
  BY PromiseStep
<1> QED BY <1>1, <1>2, Invariance, PTL DEF Spec, ImplementsOwnerLife, Promise!Spec


-----------------------------------------------------------------------------
(* The timers behind an owner's deadline (timers.rs, timers.ts): an        *)
(* instance of MCOwner, so that what is shown of them is shown of its run. *)
(* What the batch has still to run: in a callback its head runs already.   *)
ToRun(i) == i \in DOMAIN t_batch /\ (t_at = "callback" => i # 1)
AwaitsRun(id) == \E i \in DOMAIN t_batch : ToRun(i) /\ t_batch[i].id = id

(* An entry takes once, and calls a callback of what it took.              *)
TEntry ==
  /\ t_entries \in 0..MaxTurns
  /\ t_at = "entry" => t_entries # 0
  /\ t_at \in {"idle", "entry"} => t_batch = <<>>
  /\ t_at = "callback" => t_batch # <<>>
  /\ t_at # "callback" => t_nesting = 0

(* An id is not used twice, and what was cleared is not filed.             *)
Used == 1..(t_next_id - 1)
TFresh ==
  /\ DOMAIN t_armed \subseteq Used /\ DOMAIN t_scheduled \subseteq Used
  /\ t_cleared \subseteq Used \ DOMAIN t_scheduled
  /\ t_streak \in [{0} \cup Used -> [at : Nat, length : Nat]]
  /\ t_streak[0] = [at |-> 0, length |-> 0]
  /\ \A i \in DOMAIN t_batch : t_batch[i].id \in Used
  /\ \A i, j \in DOMAIN t_batch : t_batch[i].id = t_batch[j].id => i = j

(* No level is above the timers armed and the batches taken so far.        *)
Reach == (t_next_id - 1) + IF t_at = "entry" THEN t_entries - 1 ELSE t_entries
TLevels ==
  /\ t_nesting <= Reach
  /\ \A id \in DOMAIN t_armed : t_armed[id].nesting <= Reach
  /\ \A i \in DOMAIN t_batch : t_batch[i].nesting <= Reach

(* The heap names every deadline that is armed.                            *)
THeap == \A id \in DOMAIN t_armed : <<t_armed[id].deadline, id>> \in t_order

(* A repeat is armed as long as it is filed; what is filed once is either  *)
(* armed or has still to run.                                              *)
THalves ==
  /\ DOMAIN t_armed \subseteq DOMAIN t_scheduled
  /\ \A id \in DOMAIN t_armed : t_armed[id].repeats = t_scheduled[id]
  /\ \A id \in DOMAIN t_scheduled :
       IF t_scheduled[id] THEN id \in DOMAIN t_armed ELSE id \in DOMAIN t_armed <=> ~AwaitsRun(id)

(* A timer's level counts the chain behind it, and once that has run as    *)
(* often at one instant as it may, the next deadline is a later instant.   *)
(* A repeat that is armed again and has still to run is one level and one  *)
(* run ahead.                                                              *)
TRuns ==
  \A id \in DOMAIN t_streak :
    t_streak[id].at <= t_now /\ t_streak[id].length <= ClampedNesting + 1
TArmed ==
  \A id \in DOMAIN t_armed :
    LET chain == t_streak[id].length + IF AwaitsRun(id) THEN 1 ELSE 0
    IN /\ chain < t_armed[id].nesting
       /\ chain <= ClampedNesting \/ t_streak[id].at < t_armed[id].deadline
TAwaits ==
  \A i \in DOMAIN t_batch : ToRun(i) =>
    LET last == t_streak[t_batch[i].id]
    IN /\ last.length < t_batch[i].nesting
       /\ last.length <= ClampedNesting \/ last.at < t_now
TCallback == t_at = "callback" => t_streak[Head(t_batch).id].length <= t_nesting

TInv ==
  /\ T!TypeOK /\ TEntry /\ TFresh /\ TLevels /\ THeap /\ THalves
  /\ TRuns /\ TArmed /\ TAwaits /\ TCallback /\ T!EarliestIsPublished

-----------------------------------------------------------------------------
(* Delays, and what is armed.                                              *)
Longest == T!Latest(Delays \cup {ClampedDelay})

LEMMA LongestFacts ==
  ASSUME T!ScheduleAssumption
  PROVE  /\ Longest \in Nat /\ Longest >= 1
         /\ \A d \in Delays : d <= Longest
         /\ ClampedDelay <= Longest
         /\ T!Instant = 0..(MaxNow + Longest) /\ T!NoDeadline = MaxNow + Longest + 1
<1>1. Longest \in Delays \cup {ClampedDelay} /\ \A d \in Delays \cup {ClampedDelay} : d <= Longest
  BY DEF Longest, T!Latest, T!ScheduleAssumption
<1>2. Longest \in Nat /\ Longest >= 1
  BY <1>1 DEF T!ScheduleAssumption
<1>3. T!Instant = 0..(MaxNow + Longest)
  BY DEF T!Instant, Longest
<1>4. T!Latest(T!Instant) = MaxNow + Longest
  <2>1. MaxNow + Longest \in T!Instant /\ \A e \in T!Instant : e <= MaxNow + Longest
    BY <1>2, <1>3 DEF T!ScheduleAssumption
  <2>2. T!Latest(T!Instant) \in T!Instant /\ \A e \in T!Instant : e <= T!Latest(T!Instant)
    BY <2>1 DEF T!Latest
  <2> QED BY <2>1, <2>2, <1>2, <1>3 DEF T!ScheduleAssumption
<1> QED BY <1>1, <1>2, <1>3, <1>4 DEF T!NoDeadline

LEMMA DelayFacts ==
  ASSUME T!ScheduleAssumption, NEW requested \in Delays, NEW level \in Nat
  PROVE  /\ T!EffectiveDelay(requested, level) \in 0..Longest
         /\ level > ClampedNesting => T!EffectiveDelay(requested, level) >= 1
BY LongestFacts DEF T!EffectiveDelay, T!ScheduleAssumption

LEMMA NewTimerFacts ==
  ASSUME T!ScheduleAssumption, t_now \in 0..MaxNow, NEW requested \in Delays,
         NEW repeats \in BOOLEAN, NEW level \in Nat, level + 1 \in T!Levels
  PROVE  /\ T!NewTimer(requested, repeats, level) \in T!Timer
         /\ T!NewTimer(requested, repeats, level).deadline \in T!Instant
         /\ T!NewTimer(requested, repeats, level).deadline >= t_now
         /\ level > ClampedNesting => T!NewTimer(requested, repeats, level).deadline > t_now
         /\ T!NewTimer(requested, repeats, level).repeats = repeats
         /\ T!NewTimer(requested, repeats, level).nesting = level + 1
         /\ T!NewTimer(requested, repeats, level).requested = requested
<1> DEFINE t == T!NewTimer(requested, repeats, level)
<1>1. /\ t.deadline = t_now + T!EffectiveDelay(requested, level) /\ t.requested = requested
      /\ t.repeats = repeats /\ t.nesting = level + 1
  BY DEF T!NewTimer
<1>2. t.deadline \in T!Instant /\ t.deadline >= t_now /\ (level > ClampedNesting => t.deadline > t_now)
  <2>1. PICK delay \in 0..Longest :
          /\ t.deadline = t_now + delay /\ (level > ClampedNesting => delay >= 1)
    BY <1>1, DelayFacts
  <2>2. MaxNow \in Nat /\ Longest \in Nat /\ T!Instant = 0..(MaxNow + Longest)
    BY LongestFacts DEF T!ScheduleAssumption
  <2>3. t.deadline \in Nat /\ t.deadline >= t_now /\ t.deadline <= MaxNow + Longest
    BY <2>1, <2>2
  <2>4. level > ClampedNesting => t.deadline > t_now
    BY <2>1, <2>2
  <2> HIDE DEF t
  <2> QED BY <2>2, <2>3, <2>4
<1>3. t \in T!Timer
  BY <1>1, <1>2 DEF T!NewTimer, T!Timer
<1> QED BY <1>1, <1>2, <1>3

(* The earliest of some entries.                                           *)
LEMMA Least ==
  ASSUME NEW S \in SUBSET Nat, S # {}
  PROVE  \E d \in S : \A e \in S : d <= e
<1>1. OpToRel(<, Nat) = {ss \in Nat \X Nat : ss[1] < ss[2]}
  BY DEF OpToRel
<1>2. PICK d \in S : \A e \in S : <<e, d>> \notin OpToRel(<, Nat)
  BY NatLessThanWellFounded, WFMin
<1>3. ASSUME NEW e \in S PROVE d <= e
  <2>1. <<e, d>> \in Nat \X Nat /\ ~(e < d)
    BY <1>1, <1>2
  <2> QED BY <2>1
<1> QED BY <1>2, <1>3

LEMMA Earliest ==
  ASSUME NEW S \in SUBSET (Nat \X Nat), S # {}
  PROVE  \E e \in S : \A x \in S : x = e \/ T!FiresBefore(e, x)
<1>1. \A e \in S : e = <<e[1], e[2]>> /\ e[1] \in Nat /\ e[2] \in Nat
  OBVIOUS
<1>2. PICK d \in {e[1] : e \in S} : \A x \in {e[1] : e \in S} : d <= x
  <2>1. {e[1] : e \in S} \in SUBSET Nat /\ {e[1] : e \in S} # {}
    BY <1>1
  <2> QED BY <2>1, Least
<1>3. PICK i \in {e[2] : e \in {x \in S : x[1] = d}} :
        \A j \in {e[2] : e \in {x \in S : x[1] = d}} : i <= j
  <2>1. {e[2] : e \in {x \in S : x[1] = d}} \in SUBSET Nat
    BY <1>1
  <2>2. {e[2] : e \in {x \in S : x[1] = d}} # {}
    BY <1>2
  <2> QED BY <2>1, <2>2, Least
<1>4. PICK e \in S : e[1] = d /\ e[2] = i
  BY <1>3
<1>5. ASSUME NEW x \in S PROVE x = e \/ T!FiresBefore(e, x)
  <2>1. x[1] \in Nat /\ x[2] \in Nat /\ d \in Nat /\ i \in Nat /\ d <= x[1]
    BY <1>1, <1>2, <1>4
  <2>2. CASE x[1] = d
    <3>1. i <= x[2]
      BY <1>3, <2>2
    <3>2. x[2] = i => x = e
      BY <1>1, <1>4, <2>2
    <3> QED BY <3>1, <3>2, <2>1, <2>2, <1>4 DEF T!FiresBefore
  <2>3. CASE x[1] # d
    BY <2>1, <2>3, <1>4 DEF T!FiresBefore
  <2> QED BY <2>2, <2>3
<1> QED BY <1>4, <1>5

LEMMA NextLiveFacts ==
  ASSUME t_order \subseteq Nat \X Nat, \E e \in t_order : T!Live(e)
  PROVE  /\ T!NextLive \in t_order /\ T!Live(T!NextLive)
         /\ \A x \in t_order : T!Live(x) => x = T!NextLive \/ T!FiresBefore(T!NextLive, x)
<1>1. {x \in t_order : T!Live(x)} \in SUBSET (Nat \X Nat) /\ {x \in t_order : T!Live(x)} # {}
  OBVIOUS
<1>2. \E e \in {x \in t_order : T!Live(x)} : \A x \in {y \in t_order : T!Live(y)} : x = e \/ T!FiresBefore(e, x)
  BY <1>1, Earliest
<1>3. \E e \in t_order : T!Live(e) /\ \A x \in t_order : T!Live(x) => x = e \/ T!FiresBefore(e, x)
  BY <1>2
<1> QED BY <1>3 DEF T!NextLive

-----------------------------------------------------------------------------
(* The steps.                                                              *)
LEMMA TimerNumbers ==
  ASSUME T!ScheduleAssumption, TInv
  PROVE  /\ t_now \in Nat /\ t_now <= MaxNow /\ MaxNow \in Nat
         /\ t_next_id \in Nat /\ t_next_id >= 1 /\ t_next_id <= MaxArms + 1 /\ MaxArms \in Nat
         /\ t_entries \in Nat /\ t_entries <= MaxTurns /\ MaxTurns \in Nat
         /\ t_nesting \in Nat /\ ClampedNesting \in Nat /\ ClampedNesting >= 1
         /\ T!Levels = 0..(ClampedNesting + MaxTurns + MaxArms)
         /\ Reach \in Nat
<1>1. /\ t_now \in Nat /\ t_now <= MaxNow /\ MaxNow \in Nat
      /\ MaxArms \in Nat /\ MaxTurns \in Nat
      /\ ClampedNesting \in Nat /\ ClampedNesting >= 1
  BY DEF T!ScheduleAssumption, TInv, T!TypeOK
<1>2. t_next_id \in Nat /\ t_next_id >= 1 /\ t_next_id <= MaxArms + 1
  BY <1>1 DEF TInv, T!TypeOK
<1>3. t_entries \in Nat /\ t_entries <= MaxTurns /\ (t_at = "entry" => t_entries # 0)
  BY <1>1 DEF TInv, TEntry
<1>4. t_nesting \in Nat
  BY <1>1 DEF TInv, T!TypeOK, T!Levels
<1>5. Reach \in Nat
  BY <1>2, <1>3 DEF Reach
<1>6. T!Levels = 0..(ClampedNesting + MaxTurns + MaxArms)
  BY DEF T!Levels
<1> QED BY <1>1, <1>2, <1>3, <1>4, <1>5, <1>6

LEMMA TimerType ==
  ASSUME T!ScheduleAssumption, TInv, NEW id \in DOMAIN t_armed
  PROVE  /\ t_armed[id].deadline \in Nat /\ t_armed[id].deadline < T!NoDeadline
         /\ t_armed[id].deadline \in T!Instant
         /\ t_armed[id].requested \in Delays
         /\ t_armed[id].repeats \in BOOLEAN /\ t_armed[id].nesting \in Nat
         /\ id \in Used /\ id \in DOMAIN t_streak
<1>1. t_armed[id] \in T!Timer
  BY DEF TInv, T!TypeOK
<1>2. t_armed[id].deadline \in T!Instant /\ t_armed[id].requested \in Delays
      /\ t_armed[id].repeats \in BOOLEAN /\ t_armed[id].nesting \in Nat
  BY <1>1 DEF T!Timer, T!Levels
<1>3. t_armed[id].deadline \in Nat /\ t_armed[id].deadline < T!NoDeadline
  BY <1>2, LongestFacts DEF T!ScheduleAssumption
<1> QED BY <1>2, <1>3 DEF TInv, TFresh

LEMMA StreakType ==
  ASSUME TInv, NEW id \in DOMAIN t_streak
  PROVE  t_streak[id].at \in Nat /\ t_streak[id].length \in Nat
BY DEF TInv, TFresh

LEMMA BatchType ==
  ASSUME TInv, NEW i \in DOMAIN t_batch
  PROVE  /\ t_batch[i] \in T!Due /\ t_batch[i].id \in T!Ids /\ t_batch[i].nesting \in T!Levels
         /\ t_batch[i].id \in Used /\ t_batch[i].id \in DOMAIN t_streak
<1>1. t_batch[i] \in T!Due
  BY DEF TInv, T!TypeOK
<1>2. t_batch[i].id \in Used /\ t_batch[i].id \in DOMAIN t_streak
  BY DEF TInv, TFresh
<1> QED BY <1>1, <1>2 DEF T!Due

LEMMA TimersInit == T!ScheduleAssumption /\ T!Init => TInv
<1> SUFFICES ASSUME T!ScheduleAssumption, T!Init PROVE TInv
  OBVIOUS
<1>1. T!TypeOK
  <2>1. t_deadline \in T!Instant \cup {T!NoDeadline}
    BY DEF T!Init
  <2>2. t_nesting \in T!Levels /\ t_next_id \in 1..(MaxArms + 1) /\ t_now \in 0..MaxNow
    BY DEF T!Init, T!ScheduleAssumption, T!Levels
  <2>3. t_batch \in Seq(T!Due) /\ DOMAIN t_armed = {} /\ DOMAIN t_scheduled = {}
    BY DEF T!Init
  <2> QED BY <2>1, <2>2, <2>3 DEF T!Init, T!TypeOK
<1>2. TEntry /\ TCallback
  BY DEF T!Init, TEntry, TCallback, T!ScheduleAssumption
<1>3. TFresh
  BY DEF T!Init, TFresh, Used
<1>4. TLevels /\ THeap /\ THalves
  BY DEF T!Init, TLevels, THeap, THalves, Reach
<1>5. TRuns /\ TArmed /\ TAwaits
  BY DEF T!Init, TRuns, TArmed, TAwaits, T!ScheduleAssumption
<1>6. T!EarliestIsPublished
  BY DEF T!Init, T!EarliestIsPublished
<1> QED BY <1>1, <1>2, <1>3, <1>4, <1>5, <1>6 DEF TInv

LEMMA TimersTick == ASSUME T!ScheduleAssumption, TInv, T!Tick PROVE TInv'
<1>1. /\ t_now' \in 0..MaxNow /\ t_now' = t_now + 1
      /\ UNCHANGED <<t_armed, t_order, t_next_id, t_nesting, t_scheduled, t_at, t_batch, t_deadline, t_entries,
                     t_cleared, t_streak>>
  BY SMTT(30), TimerNumbers DEF T!Tick, T!host, T!ghosts
<1>2. T!TypeOK'
  BY <1>1 DEF TInv, T!TypeOK
<1>3. (TEntry /\ TFresh /\ TLevels)'
  BY <1>1 DEF TInv, TEntry, TFresh, TLevels, Reach, Used
<1>4. (THeap /\ THalves /\ TCallback /\ T!EarliestIsPublished)'
  BY <1>1 DEF TInv, THeap, THalves, TCallback, T!EarliestIsPublished, AwaitsRun, ToRun
<1>5. TRuns'
  BY SMTT(30), <1>1, TimerNumbers, StreakType DEF TInv, TRuns
<1>6. TArmed'
  BY <1>1 DEF TInv, TArmed, AwaitsRun, ToRun
<1>7. TAwaits'
  <2> SUFFICES ASSUME NEW i \in DOMAIN t_batch, ToRun(i)
               PROVE  LET last == t_streak[t_batch[i].id]
                      IN  /\ last.length < t_batch[i].nesting
                          /\ last.length <= ClampedNesting \/ last.at < t_now'
    BY <1>1 DEF TAwaits, ToRun
  <2> QED BY SMTT(30), <1>1, TimerNumbers, StreakType, BatchType DEF TInv, TAwaits
<1> QED BY <1>2, <1>3, <1>4, <1>5, <1>6, <1>7 DEF TInv

LEMMA TimersEnter == ASSUME T!ScheduleAssumption, TInv, T!Enter PROVE TInv'
<1>1. /\ t_at = "idle" /\ t_at' = "entry" /\ t_entries < MaxTurns /\ t_entries' = t_entries + 1
      /\ UNCHANGED <<t_now, t_armed, t_order, t_next_id, t_nesting, t_scheduled, t_batch, t_deadline, t_cleared,
                     t_streak>>
  BY DEF T!Enter, T!host, T!ghosts
<1>2. T!TypeOK'
  BY <1>1 DEF TInv, T!TypeOK
<1>3. TEntry'
  BY <1>1, TimerNumbers DEF TInv, TEntry
<1>4. (TFresh /\ TLevels)'
  <2>1. Reach' = Reach
    BY <1>1, TimerNumbers DEF Reach
  <2> QED BY <1>1, <2>1 DEF TInv, TFresh, Used, TLevels
<1>5. (THeap /\ THalves /\ TCallback /\ T!EarliestIsPublished)'
  BY <1>1 DEF TInv, THeap, THalves, TCallback, T!EarliestIsPublished, AwaitsRun, ToRun
<1>6. (TRuns /\ TArmed /\ TAwaits)'
  BY <1>1 DEF TInv, TRuns, TArmed, TAwaits, AwaitsRun, ToRun
<1> QED BY <1>2, <1>3, <1>4, <1>5, <1>6 DEF TInv

LEMMA TimersStutter == ASSUME TInv, UNCHANGED T!vars PROVE TInv'
<1>1. UNCHANGED <<t_now, t_armed, t_order, t_next_id, t_nesting, t_scheduled, t_at, t_batch, t_deadline, t_entries,
                  t_cleared, t_streak>>
  BY DEF T!vars, T!host, T!ghosts
<1> QED
  BY ZenonT(60), <1>1 DEF TInv, T!TypeOK, TEntry, TFresh, Used, TLevels, Reach, THeap, THalves, TRuns, TArmed,
    TAwaits, TCallback, T!EarliestIsPublished, AwaitsRun, ToRun

LEMMA WithoutFacts ==
  ASSUME NEW f, NEW id
  PROVE  /\ DOMAIN T!Without(f, id) = DOMAIN f \ {id}
         /\ \A x \in DOMAIN f \ {id} : T!Without(f, id)[x] = f[x]
BY DEF T!Without

(* A timer is one run behind the callback it is armed in.                  *)
LEMMA TimersSetTimer ==
  ASSUME T!ScheduleAssumption, TInv, NEW requested \in Delays, NEW repeats \in BOOLEAN,
         T!SetTimer(requested, repeats)
  PROVE  TInv'
<1> DEFINE timer == T!NewTimer(requested, repeats, t_nesting)
<1>1. /\ t_at \in {"entry", "callback"} /\ t_next_id \in T!Ids
      /\ t_armed' = T!With(t_armed, t_next_id, timer)
      /\ t_order' = t_order \cup {<<timer.deadline, t_next_id>>}
      /\ t_next_id' = t_next_id + 1
      /\ t_scheduled' = T!With(t_scheduled, t_next_id, repeats)
      /\ t_streak' = T!With(t_streak, t_next_id, t_streak[T!Parent])
      /\ UNCHANGED <<t_now, t_nesting, t_at, t_batch, t_deadline, t_entries, t_cleared>>
  BY DEF T!SetTimer
<1>2. t_nesting <= Reach /\ Reach + 1 \in T!Levels /\ Reach' = Reach + 1
  BY SMTT(30), <1>1, TimerNumbers DEF TInv, TLevels, Reach, TEntry, T!Ids
<1>3. /\ timer \in T!Timer /\ timer.deadline \in T!Instant
      /\ timer.deadline >= t_now /\ (t_nesting > ClampedNesting => timer.deadline > t_now)
      /\ timer.repeats = repeats /\ timer.nesting = t_nesting + 1
  <2>1. t_nesting + 1 \in T!Levels /\ t_now \in 0..MaxNow
    BY SMTT(30), <1>2, TimerNumbers
  <2> HIDE DEF timer
  <2> QED BY SMTT(30), <2>1, NewTimerFacts, TimerNumbers DEF timer
<1>4. /\ t_next_id \notin Used /\ t_next_id # 0 /\ Used' = Used \cup {t_next_id}
  BY SMTT(30), <1>1, TimerNumbers DEF Used
<1> HIDE DEF timer
<1>5. /\ t_next_id \notin DOMAIN t_armed /\ t_next_id \notin DOMAIN t_scheduled
      /\ t_next_id \notin DOMAIN t_streak
  BY <1>4 DEF TInv, TFresh
<1>6. /\ DOMAIN t_armed' = DOMAIN t_armed \cup {t_next_id} /\ t_armed'[t_next_id] = timer
      /\ \A id \in DOMAIN t_armed : t_armed'[id] = t_armed[id]
  BY <1>1, <1>5 DEF T!With
<1>7. /\ DOMAIN t_scheduled' = DOMAIN t_scheduled \cup {t_next_id} /\ t_scheduled'[t_next_id] = repeats
      /\ \A id \in DOMAIN t_scheduled : t_scheduled'[id] = t_scheduled[id]
  BY <1>1, <1>5 DEF T!With
<1>8. /\ DOMAIN t_streak' = DOMAIN t_streak \cup {t_next_id} /\ t_streak'[t_next_id] = t_streak[T!Parent]
      /\ \A id \in DOMAIN t_streak : t_streak'[id] = t_streak[id]
  BY <1>1, <1>5 DEF T!With
<1>9. /\ T!Parent \in DOMAIN t_streak /\ t_streak[T!Parent].length <= t_nesting
      /\ t_streak[T!Parent].at <= t_now /\ t_streak[T!Parent].length <= ClampedNesting + 1
      /\ t_streak[T!Parent].at \in Nat /\ t_streak[T!Parent].length \in Nat
  <2>1. CASE t_at = "callback"
    <3>1. 1 \in DOMAIN t_batch /\ Head(t_batch) = t_batch[1]
      BY <2>1 DEF TInv, TEntry, T!TypeOK
    <3> QED BY <2>1, <3>1, BatchType, StreakType DEF TInv, TCallback, TRuns, T!Parent
  <2>2. CASE t_at # "callback"
    <3>1. T!Parent \in DOMAIN t_streak /\ t_streak[T!Parent].at = 0 /\ t_streak[T!Parent].length = 0
      BY <2>2 DEF T!Parent, TInv, TFresh
    <3>2. 0 <= t_nesting /\ 0 <= t_now /\ 0 <= ClampedNesting + 1
      BY TimerNumbers
    <3> QED BY <3>1, <3>2
  <2> QED BY <2>1, <2>2
<1>10. T!TypeOK'
  <2>1. t_order' \subseteq T!Instant \X T!Ids
    BY <1>1, <1>3 DEF TInv, T!TypeOK
  <2>2. DOMAIN t_armed' \subseteq T!Ids /\ \A id \in DOMAIN t_armed' : t_armed'[id] \in T!Timer
    BY <1>1, <1>3, <1>6 DEF TInv, T!TypeOK
  <2>3. DOMAIN t_scheduled' \subseteq T!Ids /\ \A id \in DOMAIN t_scheduled' : t_scheduled'[id] \in BOOLEAN
    BY <1>1, <1>7 DEF TInv, T!TypeOK
  <2>4. t_next_id' \in 1..(MaxArms + 1)
    BY <1>1, TimerNumbers DEF T!Ids
  <2> QED BY <1>1, <2>1, <2>2, <2>3, <2>4 DEF TInv, T!TypeOK
<1>11. TEntry'
  BY <1>1 DEF TInv, TEntry
<1>12. TFresh'
  <2>1. /\ DOMAIN t_armed' \subseteq Used' /\ DOMAIN t_scheduled' \subseteq Used'
        /\ t_cleared' \subseteq Used' \ DOMAIN t_scheduled'
    BY <1>1, <1>4, <1>6, <1>7 DEF TInv, TFresh
  <2>2. t_streak' \in [{0} \cup Used' -> [at : Nat, length : Nat]]
    <3>1. t_streak' = [x \in DOMAIN t_streak \cup {t_next_id} |->
                       IF x = t_next_id THEN t_streak[T!Parent] ELSE t_streak[x]]
      BY <1>1 DEF T!With
    <3>2. DOMAIN t_streak \cup {t_next_id} = {0} \cup Used'
      BY <1>4 DEF TInv, TFresh
    <3>3. \A x \in DOMAIN t_streak : t_streak[x] \in [at : Nat, length : Nat]
      BY DEF TInv, TFresh
    <3> QED BY <3>1, <3>2, <3>3, <1>9
  <2>3. /\ \A i \in DOMAIN t_batch' : t_batch'[i].id \in Used'
        /\ \A i, j \in DOMAIN t_batch' : t_batch'[i].id = t_batch'[j].id => i = j
    BY <1>1, <1>4 DEF TInv, TFresh
  <2>4. t_streak'[0] = [at |-> 0, length |-> 0]
    BY <1>4, <1>8 DEF TInv, TFresh
  <2> QED BY <2>1, <2>2, <2>3, <2>4 DEF TFresh
<1>13. TLevels'
  <2>1. t_nesting' <= Reach'
    BY SMTT(30), <1>1, <1>2, TimerNumbers
  <2>2. \A id \in DOMAIN t_armed' : t_armed'[id].nesting <= Reach'
    <3> SUFFICES ASSUME NEW id \in DOMAIN t_armed' PROVE t_armed'[id].nesting <= Reach'
      OBVIOUS
    <3>1. CASE id = t_next_id
      BY <3>1, <1>2, <1>3, <1>6, TimerNumbers
    <3>2. CASE id # t_next_id
      BY SMTT(30), <3>2, <1>2, <1>6, TimerNumbers, TimerType DEF TInv, TLevels
    <3> QED BY <3>1, <3>2
  <2>3. \A i \in DOMAIN t_batch' : t_batch'[i].nesting <= Reach'
    <3> SUFFICES ASSUME NEW i \in DOMAIN t_batch PROVE t_batch[i].nesting <= Reach'
      BY <1>1
    <3>1. t_batch[i].nesting <= Reach /\ t_batch[i].nesting \in Nat
      BY SMTT(30), BatchType, TimerNumbers DEF TInv, TLevels
    <3> QED BY <3>1, <1>2, TimerNumbers
  <2> QED BY <2>1, <2>2, <2>3 DEF TLevels
<1>14. THeap'
  BY <1>1, <1>6 DEF TInv, THeap
<1>15. (\A id : AwaitsRun(id)' <=> AwaitsRun(id)) /\ ~AwaitsRun(t_next_id)
  BY <1>1, <1>4 DEF AwaitsRun, ToRun, TInv, TFresh
<1>16. THalves'
  BY <1>3, <1>6, <1>7, <1>15 DEF TInv, THalves
<1>17. TRuns'
  BY <1>1, <1>8, <1>9 DEF TInv, TRuns
<1>18. TArmed'
  <2> SUFFICES ASSUME NEW id \in DOMAIN t_armed'
               PROVE  LET chain == t_streak'[id].length + IF AwaitsRun(id) THEN 1 ELSE 0
                      IN /\ chain < t_armed'[id].nesting
                         /\ chain <= ClampedNesting \/ t_streak'[id].at < t_armed'[id].deadline
    BY <1>15 DEF TArmed
  <2>1. CASE id = t_next_id
    <3>1. timer.deadline \in Nat
      BY <1>3, LongestFacts DEF T!ScheduleAssumption
    <3>2. t_streak'[id] = t_streak[T!Parent] /\ t_armed'[id] = timer /\ ~AwaitsRun(id)
      BY <2>1, <1>6, <1>8, <1>15
    <3>3. t_streak[T!Parent].length < timer.nesting
      BY SMTT(30), <1>3, <1>9, TimerNumbers
    <3>4. t_streak[T!Parent].length <= ClampedNesting \/ t_streak[T!Parent].at < timer.deadline
      BY SMTT(30), <3>1, <1>3, <1>9, TimerNumbers
    <3> QED BY <3>2, <3>3, <3>4, <1>9
  <2>2. CASE id # t_next_id
    <3>1. id \in DOMAIN t_armed /\ t_armed'[id] = t_armed[id] /\ t_streak'[id] = t_streak[id]
      BY <2>2, <1>6, <1>8, TimerType
    <3> QED BY <3>1 DEF TInv, TArmed
  <2> QED BY <2>1, <2>2
<1>19. TAwaits'
  <2>1. \A i \in DOMAIN t_batch : t_streak'[t_batch[i].id] = t_streak[t_batch[i].id]
    BY <1>8, BatchType
  <2> QED BY <1>1, <2>1 DEF TInv, TAwaits, ToRun
<1>20. TCallback'
  <2>1. t_at = "callback" => t_batch # <<>> /\ 1 \in DOMAIN t_batch /\ Head(t_batch) = t_batch[1]
    BY DEF TInv, TEntry, T!TypeOK
  <2>2. t_at = "callback" => t_streak'[Head(t_batch).id] = t_streak[Head(t_batch).id]
    BY <2>1, <1>8, BatchType
  <2> QED BY <1>1, <2>2 DEF TInv, TCallback
<1>21. T!EarliestIsPublished'
  BY <1>1 DEF T!EarliestIsPublished
<1> QED
  BY <1>10, <1>11, <1>12, <1>13, <1>14, <1>16, <1>17, <1>18, <1>19, <1>20, <1>21 DEF TInv

LEMMA TimersClearTimer ==
  ASSUME T!ScheduleAssumption, TInv, NEW id \in T!Ids, T!ClearTimer(id)
  PROVE  TInv'
<1>1. /\ t_at \in {"entry", "callback"} /\ id \in DOMAIN t_scheduled
      /\ t_scheduled' = T!Without(t_scheduled, id) /\ t_armed' = T!Without(t_armed, id)
      /\ t_cleared' = t_cleared \cup {id}
      /\ UNCHANGED <<t_now, t_order, t_next_id, t_nesting, t_at, t_batch, t_deadline, t_entries, t_streak>>
  BY DEF T!ClearTimer
<1>2. /\ DOMAIN t_armed' = DOMAIN t_armed \ {id}
      /\ \A x \in DOMAIN t_armed' : t_armed'[x] = t_armed[x]
      /\ DOMAIN t_scheduled' = DOMAIN t_scheduled \ {id}
      /\ \A x \in DOMAIN t_scheduled' : t_scheduled'[x] = t_scheduled[x]
  BY <1>1 DEF T!Without
<1>3. T!TypeOK'
  BY <1>1, <1>2 DEF TInv, T!TypeOK
<1>4. (TEntry /\ TCallback)'
  BY <1>1 DEF TInv, TEntry, TCallback
<1>5. TFresh'
  BY <1>1, <1>2 DEF TInv, TFresh, Used
<1>6. (TLevels /\ THeap)'
  BY <1>1, <1>2 DEF TInv, TLevels, Reach, THeap
<1>7. THalves'
  BY <1>1, <1>2 DEF TInv, THalves, AwaitsRun, ToRun
<1>8. (TRuns /\ TAwaits)'
  BY <1>1 DEF TInv, TRuns, TAwaits, ToRun
<1>9. TArmed'
  BY <1>1, <1>2 DEF TInv, TArmed, AwaitsRun, ToRun
<1>10. T!EarliestIsPublished'
  BY <1>1 DEF T!EarliestIsPublished
<1> QED BY <1>3, <1>4, <1>5, <1>6, <1>7, <1>8, <1>9, <1>10 DEF TInv

LEMMA BatchTail ==
  ASSUME TInv, t_batch # <<>>
  PROVE  /\ Tail(t_batch) \in Seq(T!Due) /\ 1 \in DOMAIN t_batch /\ Head(t_batch) = t_batch[1]
         /\ \A i \in DOMAIN Tail(t_batch) : i + 1 \in DOMAIN t_batch /\ Tail(t_batch)[i] = t_batch[i + 1]
         /\ \A i \in DOMAIN t_batch \ {1} : i - 1 \in DOMAIN Tail(t_batch) /\ i \in Nat
         /\ \A i \in DOMAIN Tail(t_batch) : i \in Nat \ {0}
<1>1. t_batch \in Seq(T!Due)
  BY DEF TInv, T!TypeOK
<1> QED BY <1>1

(* What is due next steps forward, whether the last was run or passed by.  *)
LEMMA TimersPop ==
  ASSUME T!ScheduleAssumption, TInv, t_batch # <<>>, t_at' = "batch", t_batch' = Tail(t_batch),
         t_nesting' = 0, t_at = "callback" \/ (t_at = "batch" /\ Head(t_batch).id \notin DOMAIN t_scheduled),
         UNCHANGED <<t_now, t_armed, t_order, t_next_id, t_scheduled, t_deadline, t_entries, t_cleared, t_streak>>
  PROVE  TInv'
<1>1. Tail(t_batch) \in Seq(T!Due) /\ 1 \in DOMAIN t_batch /\ Head(t_batch) = t_batch[1]
  BY BatchTail
<1>2. /\ \A i \in DOMAIN t_batch' : i + 1 \in DOMAIN t_batch /\ t_batch'[i] = t_batch[i + 1] /\ i \in Nat \ {0}
      /\ \A i \in DOMAIN t_batch \ {1} : i - 1 \in DOMAIN t_batch' /\ i \in Nat
  BY BatchTail
<1>3. T!TypeOK'
  <2>1. 0 \in T!Levels
    BY TimerNumbers
  <2> QED BY <1>1, <2>1 DEF TInv, T!TypeOK
<1>4. (TEntry /\ TCallback)'
  BY DEF TInv, TEntry, TCallback
<1>5. TFresh'
  <2>1. \A i \in DOMAIN t_batch' : t_batch'[i].id \in Used
    BY <1>2 DEF TInv, TFresh
  <2>2. \A i, j \in DOMAIN t_batch' : t_batch'[i].id = t_batch'[j].id => i = j
    <3> SUFFICES ASSUME NEW i \in DOMAIN t_batch', NEW j \in DOMAIN t_batch', t_batch'[i].id = t_batch'[j].id
                 PROVE  i = j
      OBVIOUS
    <3>1. i + 1 = j + 1
      BY <1>2 DEF TInv, TFresh
    <3> QED BY <3>1, <1>2
  <2> QED BY <2>1, <2>2 DEF TInv, TFresh, Used
<1>6. (TLevels /\ THeap)'
  <2>1. Reach' = Reach /\ 0 <= Reach
    BY SMTT(30), TimerNumbers DEF Reach
  <2> QED BY <1>2, <2>1 DEF TInv, TLevels, THeap
<1>7. /\ \A i \in DOMAIN t_batch' : ToRun(i)' /\ ToRun(i + 1)
      /\ \A i \in DOMAIN t_batch \ {1} : ToRun(i - 1)' /\ t_batch'[i - 1] = t_batch[i]
  <2>1. \A i \in DOMAIN t_batch' : i + 1 # 1
    BY <1>2
  <2>2. \A i \in DOMAIN t_batch \ {1} : (i - 1) + 1 = i
    BY <1>2
  <2>3. \A i \in DOMAIN t_batch \ {1} : t_batch'[i - 1] = t_batch[(i - 1) + 1]
    BY <1>2
  <2> QED BY <1>2, <2>1, <2>2, <2>3 DEF ToRun
<1>8. \A id \in DOMAIN t_scheduled : AwaitsRun(id)' <=> AwaitsRun(id)
  <2>1. ASSUME NEW id, AwaitsRun(id)' PROVE AwaitsRun(id)
    BY <2>1, <1>2, <1>7 DEF AwaitsRun
  <2>2. ASSUME NEW id \in DOMAIN t_scheduled, AwaitsRun(id) PROVE AwaitsRun(id)'
    <3>1. PICK i \in DOMAIN t_batch : ToRun(i) /\ t_batch[i].id = id
      BY <2>2 DEF AwaitsRun
    <3>2. i # 1
      BY <3>1, <1>1 DEF ToRun
    <3> QED BY <3>1, <3>2, <1>2, <1>7 DEF AwaitsRun
  <2> QED BY <2>1, <2>2
<1>9. THalves'
  BY <1>8 DEF TInv, THalves
<1>10. TArmed'
  BY <1>8 DEF TInv, TArmed, THalves
<1>11. TRuns'
  BY DEF TInv, TRuns
<1>12. TAwaits'
  <2> SUFFICES ASSUME NEW i \in DOMAIN t_batch'
               PROVE  LET last == t_streak[t_batch[i + 1].id]
                      IN /\ last.length < t_batch[i + 1].nesting
                         /\ last.length <= ClampedNesting \/ last.at < t_now
    BY <1>2 DEF TAwaits
  <2> QED BY <1>2, <1>7 DEF TInv, TAwaits
<1>13. T!EarliestIsPublished'
  BY DEF T!EarliestIsPublished
<1> QED
  BY <1>3, <1>4, <1>5, <1>6, <1>9, <1>10, <1>11, <1>12, <1>13 DEF TInv

LEMMA TimersReturn == ASSUME T!ScheduleAssumption, TInv, T!Return PROVE TInv'
<1>1. /\ t_at = "callback" /\ t_at' = "batch" /\ t_batch' = Tail(t_batch) /\ t_nesting' = 0
      /\ UNCHANGED <<t_now, t_armed, t_order, t_next_id, t_scheduled, t_deadline, t_entries, t_cleared, t_streak>>
  BY DEF T!Return, T!host, T!ghosts
<1>2. t_batch # <<>>
  BY <1>1 DEF TInv, TEntry
<1> QED BY <1>1, <1>2, TimersPop

(* A callback adds one to its chain, and a repeat armed again is its next. *)
LEMMA TimersRunTimer == ASSUME T!ScheduleAssumption, TInv, T!RunTimer PROVE TInv'
<1>1. /\ t_at = "batch" /\ t_batch # <<>>
      /\ UNCHANGED <<t_now, t_armed, t_order, t_next_id, t_deadline, t_entries, t_cleared>>
  BY DEF T!RunTimer, T!host
<1>2. 1 \in DOMAIN t_batch /\ Head(t_batch) = t_batch[1] /\ ToRun(1)
  BY <1>1, BatchTail DEF ToRun
<1> PICK id \in T!Ids : id = Head(t_batch).id
  BY <1>2, BatchType
<1> DEFINE last == t_streak[id]
<1> DEFINE run == [at |-> t_now, length |-> IF last.at = t_now THEN last.length + 1 ELSE 1]
<1>3. CASE id \notin DOMAIN t_scheduled
  <2>1. t_batch' = Tail(t_batch) /\ UNCHANGED <<t_scheduled, t_nesting, t_at, t_streak>>
    BY <1>3 DEF T!RunTimer
  <2>2. t_nesting = 0
    BY <1>1 DEF TInv, TEntry
  <2> QED BY <1>1, <1>3, <2>1, <2>2, TimersPop
<1>4. CASE id \in DOMAIN t_scheduled
  <2>1. /\ t_scheduled' = IF t_scheduled[id] THEN t_scheduled ELSE T!Without(t_scheduled, id)
        /\ t_nesting' = t_batch[1].nesting /\ t_at' = "callback" /\ t_batch' = t_batch
        /\ t_streak' = [t_streak EXCEPT ![id] = run]
    BY <1>2, <1>4 DEF T!RunTimer
  <2>2. /\ id \in Used /\ id \in DOMAIN t_streak /\ id # 0
        /\ t_batch[1].nesting \in T!Levels /\ t_batch[1].nesting \in Nat
    BY <1>2, BatchType, TimerNumbers DEF Used, T!Levels
  <2>3. /\ last.at \in Nat /\ last.length \in Nat /\ last.at <= t_now
        /\ last.length < t_batch[1].nesting
        /\ last.length <= ClampedNesting \/ last.at < t_now
    BY <1>2, <2>2, StreakType DEF TInv, TRuns, TAwaits
  <2>4. /\ run.at = t_now /\ run.length \in Nat /\ run.length <= ClampedNesting + 1
        /\ run.length <= t_batch[1].nesting /\ run.length <= last.length + 1
        /\ last.at # t_now => run.length <= ClampedNesting
        /\ run \in [at : Nat, length : Nat]
    <3> DEFINE n == IF last.at = t_now THEN last.length + 1 ELSE 1
    <3>1. /\ n \in Nat /\ n <= ClampedNesting + 1 /\ n <= t_batch[1].nesting /\ n <= last.length + 1
          /\ last.at # t_now => n <= ClampedNesting
      <4>1. t_now \in Nat /\ ClampedNesting \in Nat /\ ClampedNesting >= 1
        BY TimerNumbers
      <4>2. CASE last.at = t_now
        <5>1. n = last.length + 1 /\ last.length <= ClampedNesting
          BY <2>3, <4>1, <4>2
        <5> HIDE DEF n
        <5> QED BY <2>2, <2>3, <4>1, <4>2, <5>1
      <4>3. CASE last.at # t_now
        <5>1. n = 1
          BY <4>3
        <5> HIDE DEF n
        <5> QED BY <2>2, <2>3, <4>1, <5>1
      <4> QED BY <4>2, <4>3
    <3>2. run.at = t_now /\ run.length = n /\ run \in [at : Nat, length : Nat]
      BY <3>1, TimerNumbers
    <3> HIDE DEF n, run
    <3> QED BY <3>1, <3>2
  <2> HIDE DEF run
  <2>5. /\ DOMAIN t_streak' = DOMAIN t_streak /\ t_streak'[id] = run
        /\ \A x \in DOMAIN t_streak \ {id} : t_streak'[x] = t_streak[x]
    BY <2>1, <2>2 DEF TInv, TFresh
  <2>6. /\ id \in DOMAIN t_armed => id \in DOMAIN t_scheduled'
        /\ DOMAIN t_scheduled' \subseteq DOMAIN t_scheduled
        /\ DOMAIN t_scheduled \ {id} \subseteq DOMAIN t_scheduled'
        /\ \A x \in DOMAIN t_scheduled' : t_scheduled'[x] = t_scheduled[x]
        /\ id \in DOMAIN t_scheduled' => t_scheduled[id]
    <3>1. CASE t_scheduled[id]
      BY <1>4, <2>1, <3>1
    <3>2. CASE ~t_scheduled[id]
      <4>1. id \notin DOMAIN t_armed
        BY <1>2, <1>4, <3>2 DEF TInv, THalves, AwaitsRun
      <4> QED BY <2>1, <3>2, <4>1 DEF T!Without
    <3> QED BY <3>1, <3>2
  <2>7. \A i \in DOMAIN t_batch : ToRun(i)' <=> i # 1
    BY <2>1 DEF ToRun
  <2>8. \A i \in DOMAIN t_batch : ToRun(i) /\ (t_batch[i].id = id => i = 1)
    BY <1>1, <1>2 DEF ToRun, TInv, TFresh
  <2>9. ~AwaitsRun(id)' /\ AwaitsRun(id) /\ \A x : x # id => (AwaitsRun(x)' <=> AwaitsRun(x))
    BY <1>2, <2>1, <2>7, <2>8 DEF AwaitsRun
  <2>10. T!TypeOK'
    BY <1>1, <2>1, <2>2, <2>6 DEF TInv, T!TypeOK
  <2>11. TEntry'
    BY <1>1, <2>1 DEF TInv, TEntry
  <2>12. TFresh'
    <3>1. t_streak' \in [{0} \cup Used -> [at : Nat, length : Nat]]
      BY <2>1, <2>2, <2>4 DEF TInv, TFresh
    <3>2. t_streak'[0] = [at |-> 0, length |-> 0]
      BY <2>2, <2>5 DEF TInv, TFresh
    <3> QED BY <1>1, <2>1, <2>6, <3>1, <3>2 DEF TInv, TFresh, Used
  <2>13. (TLevels /\ THeap)'
    <3>1. Reach' = Reach
      BY <1>1, <2>1 DEF Reach
    <3> QED BY <1>1, <1>2, <2>1, <3>1 DEF TInv, TLevels, THeap
  <2>14. THalves'
    <3>1. DOMAIN t_armed' \subseteq DOMAIN t_scheduled'
      BY <1>1, <2>6 DEF TInv, THalves
    <3>2. \A x \in DOMAIN t_armed' : t_armed'[x].repeats = t_scheduled'[x]
      BY <1>1, <2>6, <3>1 DEF TInv, THalves
    <3>3. \A x \in DOMAIN t_scheduled' :
            IF t_scheduled'[x] THEN x \in DOMAIN t_armed' ELSE x \in DOMAIN t_armed' <=> ~AwaitsRun(x)'
      BY <1>1, <2>6, <2>9 DEF TInv, THalves
    <3> QED BY <3>1, <3>2, <3>3 DEF THalves
  <2>15. TRuns'
    BY SMTT(30), <1>1, <2>4, <2>5, TimerNumbers DEF TInv, TRuns
  <2>16. TArmed'
    <3> SUFFICES ASSUME NEW x \in DOMAIN t_armed
                 PROVE  LET chain == t_streak'[x].length + IF AwaitsRun(x)' THEN 1 ELSE 0
                        IN /\ chain < t_armed[x].nesting
                           /\ chain <= ClampedNesting \/ t_streak'[x].at < t_armed[x].deadline
      BY <1>1 DEF TArmed
    <3>1. CASE x # id
      BY <2>5, <2>9, <3>1, TimerType DEF TInv, TArmed
    <3>2. CASE x = id
      <4>1. /\ last.length + 1 < t_armed[id].nesting
            /\ last.length + 1 <= ClampedNesting \/ last.at < t_armed[id].deadline
        BY <2>9, <3>2 DEF TInv, TArmed
      <4>2. t_armed[id].nesting \in Nat /\ t_armed[id].deadline \in Nat
        BY <3>2, TimerType
      <4>3. run.length < t_armed[id].nesting
        BY <2>3, <2>4, <4>1, <4>2
      <4>4. run.length <= ClampedNesting \/ run.at < t_armed[id].deadline
        <5>1. CASE last.at = t_now
          <6>1. last.length + 1 <= ClampedNesting => run.length <= ClampedNesting
            BY SMTT(30), <2>3, <2>4, TimerNumbers
          <6> QED BY <2>4, <4>1, <5>1, <6>1
        <5>2. CASE last.at # t_now
          BY <2>4, <5>2
        <5> QED BY <5>1, <5>2
      <4>5. t_streak'[x] = run /\ ~AwaitsRun(x)'
        BY <2>5, <2>9, <3>2
      <4> QED BY <2>4, <3>2, <4>3, <4>4, <4>5
    <3> QED BY <3>1, <3>2
  <2>17. TAwaits'
    <3> SUFFICES ASSUME NEW i \in DOMAIN t_batch, i # 1
                 PROVE  LET now_last == t_streak'[t_batch[i].id]
                        IN /\ now_last.length < t_batch[i].nesting
                           /\ now_last.length <= ClampedNesting \/ now_last.at < t_now
      BY <1>1, <2>1, <2>7 DEF TAwaits
    <3>1. t_streak'[t_batch[i].id] = t_streak[t_batch[i].id]
      BY <2>5, <2>8, BatchType
    <3> QED BY <2>8, <3>1 DEF TInv, TAwaits
  <2>18. TCallback'
    BY <1>2, <2>1, <2>4, <2>5 DEF TCallback
  <2>19. T!EarliestIsPublished'
    BY <2>1 DEF T!EarliestIsPublished
  <2> QED
    BY <2>10, <2>11, <2>12, <2>13, <2>14, <2>15, <2>16, <2>17, <2>18, <2>19 DEF TInv
<1> QED BY <1>3, <1>4


(* What is published is past the leftovers of the heap, and nothing that   *)
(* is armed is dropped with them.                                          *)
LEMMA TimersPublish == ASSUME T!ScheduleAssumption, TInv, T!Publish PROVE TInv'
<1>1. /\ t_at = "batch" /\ t_batch = <<>> /\ t_at' = "idle" /\ t_deadline' = T!NextLive[1]
      /\ t_order' = {e \in t_order : ~T!FiresBefore(e, T!NextLive)}
      /\ UNCHANGED <<t_now, t_armed, t_next_id, t_nesting, t_scheduled, t_batch, t_entries, t_cleared, t_streak>>
  BY DEF T!Publish, T!ghosts
<1>2. /\ t_order \subseteq Nat \X Nat /\ t_order \subseteq T!Instant \X T!Ids
      /\ T!Instant \subseteq Nat
  <2>1. T!Instant \subseteq Nat /\ T!Ids \subseteq Nat
    BY SMTT(30), LongestFacts, TimerNumbers DEF T!Ids
  <2>2. t_order \subseteq T!Instant \X T!Ids
    BY DEF TInv, T!TypeOK
  <2> QED BY <2>1, <2>2
<1>3. \A id \in DOMAIN t_armed : <<t_armed[id].deadline, id>> \in t_order /\ T!Live(<<t_armed[id].deadline, id>>)
  BY DEF TInv, THeap, T!Live
<1>4. /\ t_deadline' \in T!Instant \cup {T!NoDeadline}
      /\ DOMAIN t_armed = {} => t_deadline' = T!NoDeadline
      /\ DOMAIN t_armed # {} =>
           /\ \E id \in DOMAIN t_armed : t_armed[id].deadline = t_deadline'
           /\ \A id \in DOMAIN t_armed : t_deadline' <= t_armed[id].deadline
      /\ \A id \in DOMAIN t_armed : <<t_armed[id].deadline, id>> \in t_order'
  <2>1. CASE DOMAIN t_armed = {}
    <3>1. T!NextLive = <<T!NoDeadline, 0>>
      BY <2>1 DEF T!NextLive, T!Live
    <3> QED BY <1>1, <2>1, <3>1
  <2>2. CASE DOMAIN t_armed # {}
    <3>1. \E e \in t_order : T!Live(e)
      BY <1>3, <2>2
    <3>2. PICK e \in t_order : /\ e = T!NextLive /\ T!Live(e)
                             /\ \A x \in t_order : T!Live(x) => x = e \/ T!FiresBefore(e, x)
      BY <1>2, <3>1, NextLiveFacts
    <3>3. e[1] \in T!Instant /\ e[1] \in Nat /\ e[2] \in Nat /\ e[2] \in DOMAIN t_armed
          /\ t_armed[e[2]].deadline = e[1]
      BY <1>2, <3>2 DEF T!Live
    <3>4. ASSUME NEW id \in DOMAIN t_armed
          PROVE  e[1] <= t_armed[id].deadline /\ ~T!FiresBefore(<<t_armed[id].deadline, id>>, e)
      <4> DEFINE x == <<t_armed[id].deadline, id>>
      <4>1. x \in t_order /\ T!Live(x) /\ x[1] = t_armed[id].deadline /\ x[2] = id
        BY <1>3
      <4>2. x[1] \in Nat /\ x[2] \in Nat
        BY <1>2, <4>1
      <4>3. x = e \/ T!FiresBefore(e, x)
        BY <3>2, <4>1
      <4> HIDE DEF x
      <4>4. e[1] <= x[1] /\ ~T!FiresBefore(x, e)
        BY <3>3, <4>2, <4>3 DEF T!FiresBefore
      <4> QED BY <4>1, <4>4 DEF x
    <3> QED BY <1>1, <1>3, <2>2, <3>2, <3>3, <3>4
  <2> QED BY <2>1, <2>2
<1>5. T!TypeOK'
  BY <1>1, <1>2, <1>4 DEF TInv, T!TypeOK
<1>6. (TEntry /\ TFresh /\ TLevels /\ TCallback)'
  <2>1. Reach' = Reach
    BY <1>1 DEF Reach
  <2> QED BY <1>1, <2>1 DEF TInv, TEntry, TFresh, TLevels, Used, TCallback
<1>7. THeap'
  BY <1>1, <1>4 DEF THeap
<1>8. (THalves /\ TRuns /\ TArmed /\ TAwaits)'
  BY <1>1 DEF TInv, THalves, TRuns, TArmed, TAwaits, AwaitsRun, ToRun
<1>9. T!EarliestIsPublished'
  BY <1>1, <1>4 DEF T!EarliestIsPublished
<1> QED BY <1>5, <1>6, <1>7, <1>8, <1>9 DEF TInv

(* What a batch takes: the timers that are due, each once, of which the    *)
(* repeats are armed again.                                                *)
DueTimers == {id \in DOMAIN t_armed : t_armed[id].deadline <= t_now}

LEMMA TakeDueFacts ==
  ASSUME T!ScheduleAssumption, TInv, T!TakeDue, DOMAIN t_armed # {}
  PROVE  /\ DOMAIN t_armed' = {id \in DOMAIN t_armed : id \in DueTimers => t_armed[id].repeats}
         /\ \A id \in DOMAIN t_armed' :
              t_armed'[id] = IF id \in DueTimers
                             THEN T!NewTimer(t_armed[id].requested, TRUE, t_armed[id].nesting)
                             ELSE t_armed[id]
         /\ t_batch' \in Seq(T!Due)
         /\ \A i \in DOMAIN t_batch' :
              t_batch'[i].id \in DueTimers /\ t_batch'[i].nesting = t_armed[t_batch'[i].id].nesting
         /\ \A id \in DueTimers : \E i \in DOMAIN t_batch' : t_batch'[i].id = id
         /\ \A i, j \in DOMAIN t_batch' : t_batch'[i].id = t_batch'[j].id => i = j
         /\ \A e \in t_order' :
              e \in t_order \/ \E id \in DOMAIN t_armed' \cap DueTimers : e = <<t_armed'[id].deadline, id>>
         /\ \A id \in DOMAIN t_armed' : <<t_armed'[id].deadline, id>> \in t_order'
<1> DEFINE due == {e \in T!DueNow : T!Live(e)}
<1> DEFINE taken == {e[2] : e \in due}
<1>1. PICK again : again = T!Rearmed
  OBVIOUS
<1>2. /\ \E s \in T!Orderings(due) :
           t_batch' = [i \in DOMAIN s |-> [id |-> s[i][2], nesting |-> t_armed[s[i][2]].nesting]]
      /\ t_order' = (t_order \ T!DueNow) \cup {<<again[i].deadline, i>> : i \in DOMAIN again}
      /\ t_armed' = [i \in (DOMAIN t_armed \ taken) \cup DOMAIN again |->
                     IF i \in DOMAIN again THEN again[i] ELSE t_armed[i]]
  BY <1>1 DEF T!TakeDue
<1>3. \A e \in due : /\ e \in t_order /\ e[1] \in Nat /\ e[2] \in DOMAIN t_armed
                     /\ t_armed[e[2]].deadline = e[1] /\ e[1] <= t_now
  <2>1. t_order \subseteq Nat \X Nat
    <3>1. T!Instant \subseteq Nat /\ T!Ids \subseteq Nat
      BY SMTT(30), LongestFacts, TimerNumbers DEF T!Ids
    <3> QED BY <3>1 DEF TInv, T!TypeOK
  <2> QED BY <2>1 DEF T!DueNow, T!Live
<1>4. \A id \in DueTimers : <<t_armed[id].deadline, id>> \in due
  BY DEF TInv, THeap, DueTimers, T!DueNow, T!Live
<1>5. taken = DueTimers
  <2>1. taken \subseteq DueTimers
    BY <1>3 DEF DueTimers
  <2>2. ASSUME NEW id \in DueTimers PROVE id \in taken
    <3>1. <<t_armed[id].deadline, id>> \in due /\ <<t_armed[id].deadline, id>>[2] = id
      BY <1>4
    <3> HIDE DEF due
    <3> QED BY <3>1
  <2> QED BY <2>1, <2>2
<1>6. /\ DOMAIN again = {id \in DueTimers : t_armed[id].repeats}
      /\ \A id \in DOMAIN again :
           again[id] = T!NewTimer(t_armed[id].requested, TRUE, t_armed[id].nesting)
  <2>1. {e[2] : e \in {x \in T!DueNow : T!Live(x)}} = DueTimers
    BY <1>5
  <2>2. T!Rearmed = [id \in DueTimers \cap {i \in DOMAIN t_armed : t_armed[i].repeats} |->
                     T!NewTimer(t_armed[id].requested, TRUE, t_armed[id].nesting)]
    BY <2>1 DEF T!Rearmed
  <2> QED BY <1>1, <2>2 DEF DueTimers
<1> HIDE DEF taken
<1>7. /\ DOMAIN t_armed' = {id \in DOMAIN t_armed : id \in DueTimers => t_armed[id].repeats}
      /\ \A id \in DOMAIN t_armed' :
           t_armed'[id] = IF id \in DueTimers
                          THEN T!NewTimer(t_armed[id].requested, TRUE, t_armed[id].nesting)
                          ELSE t_armed[id]
  <2>1. DOMAIN t_armed' = (DOMAIN t_armed \ DueTimers) \cup DOMAIN again
    BY <1>2, <1>5
  <2>2. DOMAIN t_armed' = {id \in DOMAIN t_armed : id \in DueTimers => t_armed[id].repeats}
    BY <1>6, <2>1 DEF DueTimers
  <2>3. \A id \in DOMAIN t_armed' : t_armed'[id] = IF id \in DOMAIN again THEN again[id] ELSE t_armed[id]
    BY <1>2, <1>5
  <2>4. \A id \in DOMAIN t_armed' : id \in DOMAIN again <=> id \in DueTimers
    BY <1>6, <2>2
  <2> QED BY <1>6, <2>2, <2>3, <2>4
<1>8. PICK s \in T!Orderings(due) :
        t_batch' = [i \in DOMAIN s |-> [id |-> s[i][2], nesting |-> t_armed[s[i][2]].nesting]]
  BY <1>2
<1>9. PICK n \in Nat : s \in [1..n -> due]
  <2> HIDE DEF due
  <2>1. PICK n \in 0..MaxArms : s \in [1..n -> due]
    BY <1>8 DEF T!Orderings
  <2>2. n \in Nat
    BY TimerNumbers
  <2> QED BY <2>1, <2>2
<1>10. /\ \A e \in due : \E i \in 1..n : s[i] = e
       /\ \A i, j \in 1..n : i < j => T!FiresBefore(s[i], s[j])
       /\ \A i \in 1..n : s[i] \in due
       /\ DOMAIN s = 1..n
  BY <1>8, <1>9 DEF T!Orderings
<1> HIDE DEF due
<1>11. /\ DOMAIN t_batch' = 1..n
       /\ \A i \in 1..n : t_batch'[i] = [id |-> s[i][2], nesting |-> t_armed[s[i][2]].nesting]
  BY <1>8, <1>10
<1>12. \A i \in 1..n :
         /\ t_batch'[i].id = s[i][2] /\ s[i][2] \in DueTimers
         /\ t_batch'[i].nesting = t_armed[t_batch'[i].id].nesting
         /\ t_batch'[i] \in T!Due
  <2> TAKE i \in 1..n
  <2>1. s[i][2] \in DOMAIN t_armed /\ s[i][2] \in DueTimers
    BY <1>3, <1>10 DEF DueTimers
  <2>2. s[i][2] \in T!Ids /\ t_armed[s[i][2]].nesting \in T!Levels
    BY <2>1 DEF TInv, T!TypeOK, T!Timer
  <2> QED BY <1>11, <2>1, <2>2 DEF T!Due
<1>13. t_batch' \in Seq(T!Due)
  <2>1. t_batch' \in [1..n -> T!Due]
    BY <1>8, <1>10, <1>11, <1>12
  <2> QED BY <1>9, <2>1
<1>14. \A id \in DueTimers : \E i \in 1..n : t_batch'[i].id = id
  <2> TAKE id \in DueTimers
  <2>1. PICK i \in 1..n : s[i] = <<t_armed[id].deadline, id>>
    BY <1>4, <1>10
  <2> QED BY <1>12, <2>1
<1>15. \A i, j \in 1..n : t_batch'[i].id = t_batch'[j].id => i = j
  <2>1. ASSUME NEW i \in 1..n, NEW j \in 1..n, i < j PROVE t_batch'[i].id # t_batch'[j].id
    <3>1. T!FiresBefore(s[i], s[j])
      BY <1>10, <2>1
    <3>2. /\ s[i][1] \in Nat /\ s[j][1] \in Nat /\ t_armed[s[i][2]].deadline = s[i][1]
          /\ t_armed[s[j][2]].deadline = s[j][1]
      BY <1>3, <1>10
    <3>3. s[i][2] \in Nat /\ s[j][2] \in Nat
      <4>1. s[i][2] \in T!Ids /\ s[j][2] \in T!Ids
        BY <1>12 DEF DueTimers, TInv, T!TypeOK
      <4>2. T!Ids \subseteq Nat
        BY TimerNumbers DEF T!Ids
      <4> QED BY <4>1, <4>2
    <3> QED BY <1>12, <3>1, <3>2, <3>3 DEF T!FiresBefore
  <2> TAKE i, j \in 1..n
  <2>2. i < j \/ j < i \/ i = j
    OBVIOUS
  <2> QED BY <2>1, <2>2
<1>16. \A e \in t_order' :
         e \in t_order \/ \E id \in DOMAIN t_armed' \cap DueTimers : e = <<t_armed'[id].deadline, id>>
  <2> SUFFICES ASSUME NEW i \in DOMAIN again
               PROVE  i \in DOMAIN t_armed' \cap DueTimers /\ again[i] = t_armed'[i]
    BY <1>2
  <2> QED BY <1>6, <1>7 DEF DueTimers
<1>17. \A id \in DOMAIN t_armed' : <<t_armed'[id].deadline, id>> \in t_order'
  <2> TAKE id \in DOMAIN t_armed'
  <2>1. CASE id \in DueTimers
    <3>1. id \in DOMAIN again /\ again[id] = t_armed'[id]
      BY <1>6, <1>7, <2>1
    <3> QED BY <1>2, <3>1
  <2>2. CASE id \notin DueTimers
    <3>1. id \in DOMAIN t_armed /\ t_armed'[id] = t_armed[id]
      BY <1>7, <2>2
    <3>2. <<t_armed[id].deadline, id>> \in t_order \ T!DueNow
      BY <2>2, <3>1 DEF DueTimers, T!DueNow, TInv, THeap
    <3> QED BY <1>2, <3>1, <3>2
  <2> QED BY <2>1, <2>2
<1> QED BY <1>7, <1>11, <1>12, <1>13, <1>14, <1>15, <1>16, <1>17

LEMMA TimersTakeDue == ASSUME T!ScheduleAssumption, TInv, T!TakeDue PROVE TInv'
<1>1. /\ t_at = "entry" /\ t_at' = "batch" /\ t_batch = <<>>
      /\ UNCHANGED <<t_now, t_next_id, t_nesting, t_scheduled, t_deadline, t_entries, t_cleared, t_streak>>
  BY DEF T!TakeDue, T!ghosts, TInv, TEntry
<1>2. Reach' = Reach + 1
  BY <1>1, TimerNumbers DEF Reach, TInv, TEntry
<1>3. TEntry' /\ (TRuns /\ TCallback)' /\ T!EarliestIsPublished'
  BY <1>1 DEF TInv, TEntry, TRuns, TCallback, T!EarliestIsPublished
<1>4. CASE DOMAIN t_armed = {}
  <2>1. UNCHANGED <<t_armed, t_order, t_batch>>
    BY <1>4 DEF T!TakeDue
  <2>2. T!TypeOK'
    BY <1>1, <2>1 DEF TInv, T!TypeOK
  <2>3. (TFresh /\ THeap /\ THalves /\ TArmed /\ TAwaits)'
    BY <1>1, <2>1 DEF TInv, TFresh, Used, THeap, THalves, TArmed, TAwaits, AwaitsRun, ToRun
  <2>4. TLevels'
    BY <1>1, <1>2, <1>4, <2>1, TimerNumbers DEF TInv, TLevels
  <2> QED BY <1>3, <2>2, <2>3, <2>4 DEF TInv
<1>5. CASE DOMAIN t_armed # {}
  <2>1. /\ DOMAIN t_armed' = {id \in DOMAIN t_armed : id \in DueTimers => t_armed[id].repeats}
        /\ \A id \in DOMAIN t_armed' :
             t_armed'[id] = IF id \in DueTimers
                            THEN T!NewTimer(t_armed[id].requested, TRUE, t_armed[id].nesting)
                            ELSE t_armed[id]
        /\ t_batch' \in Seq(T!Due)
        /\ \A i \in DOMAIN t_batch' :
             t_batch'[i].id \in DueTimers /\ t_batch'[i].nesting = t_armed[t_batch'[i].id].nesting
        /\ \A id \in DueTimers : \E i \in DOMAIN t_batch' : t_batch'[i].id = id
        /\ \A i, j \in DOMAIN t_batch' : t_batch'[i].id = t_batch'[j].id => i = j
        /\ \A e \in t_order' :
             e \in t_order \/ \E id \in DOMAIN t_armed' \cap DueTimers : e = <<t_armed'[id].deadline, id>>
        /\ \A id \in DOMAIN t_armed' : <<t_armed'[id].deadline, id>> \in t_order'
    BY <1>5, TakeDueFacts
  <2>2. ASSUME NEW id \in DOMAIN t_armed
        PROVE  /\ t_armed[id].nesting \in Nat /\ t_armed[id].nesting <= Reach
               /\ t_armed[id].deadline \in Nat /\ t_armed[id] \in T!Timer
               /\ t_streak[id].at \in Nat /\ t_streak[id].length \in Nat /\ t_streak[id].at <= t_now
               /\ t_streak[id].length < t_armed[id].nesting
               /\ t_streak[id].length <= ClampedNesting \/ t_streak[id].at < t_armed[id].deadline
               /\ t_armed[id].repeats \in BOOLEAN /\ id \in T!Ids
    <3>1. ~AwaitsRun(id)
      BY <1>1 DEF AwaitsRun
    <3>2. id \in DOMAIN t_streak
      BY TimerType
    <3>3. /\ t_streak[id].length + 0 < t_armed[id].nesting
          /\ t_streak[id].length + 0 <= ClampedNesting \/ t_streak[id].at < t_armed[id].deadline
      BY <3>1 DEF TInv, TArmed
    <3>4. t_streak[id].length \in Nat
      BY <3>2, StreakType
    <3> QED BY <3>2, <3>3, <3>4, TimerType, StreakType DEF TInv, TLevels, TRuns, T!TypeOK
  <2>3. ASSUME NEW id \in DOMAIN t_armed' \cap DueTimers
        PROVE  /\ t_armed'[id] \in T!Timer /\ t_armed'[id].deadline \in T!Instant
               /\ t_armed'[id].deadline \in Nat
               /\ t_armed'[id].nesting = t_armed[id].nesting + 1 /\ t_armed'[id].repeats = TRUE
               /\ t_armed'[id].deadline >= t_now
               /\ t_armed[id].nesting > ClampedNesting => t_armed'[id].deadline > t_now
    <3>1. id \in DOMAIN t_armed /\ t_armed'[id] = T!NewTimer(t_armed[id].requested, TRUE, t_armed[id].nesting)
      BY <2>1
    <3>2. t_armed[id].nesting \in Nat /\ t_armed[id].nesting + 1 \in T!Levels
      <4>1. t_armed[id].nesting \in Nat /\ t_armed[id].nesting <= Reach
        BY <2>2, <3>1
      <4>2. Reach + 1 <= ClampedNesting + MaxTurns + MaxArms
        BY SMTT(30), <1>1, TimerNumbers DEF Reach, TInv, TEntry
      <4>3. \A n \in Nat : n <= Reach => n + 1 \in T!Levels
        BY SMTT(30), <4>2, TimerNumbers
      <4> QED BY <4>1, <4>3
    <3>3. t_now \in 0..MaxNow /\ t_armed[id].requested \in Delays /\ TRUE \in BOOLEAN
      BY <3>1, TimerNumbers, TimerType
    <3>4. T!Instant \subseteq Nat
      BY LongestFacts, TimerNumbers
    <3>5. PICK level \in Nat, requested \in Delays :
            /\ level = t_armed[id].nesting /\ level + 1 \in T!Levels
            /\ t_armed'[id] = T!NewTimer(requested, TRUE, level)
      BY <3>1, <3>2, <3>3
    <3> HIDE <3>1, <3>2
    <3>6. /\ t_armed'[id] \in T!Timer /\ t_armed'[id].deadline \in T!Instant /\ t_armed'[id].deadline >= t_now
          /\ t_armed'[id].repeats = TRUE /\ t_armed'[id].nesting = level + 1
          /\ level > ClampedNesting => t_armed'[id].deadline > t_now
      <4>1. /\ T!NewTimer(requested, TRUE, level) \in T!Timer
            /\ T!NewTimer(requested, TRUE, level).deadline \in T!Instant
            /\ T!NewTimer(requested, TRUE, level).deadline >= t_now
            /\ level > ClampedNesting => T!NewTimer(requested, TRUE, level).deadline > t_now
            /\ T!NewTimer(requested, TRUE, level).repeats = TRUE
            /\ T!NewTimer(requested, TRUE, level).nesting = level + 1
        BY ZenonT(60), <3>3, <3>5, NewTimerFacts
      <4> QED BY <3>5, <4>1
    <3> QED BY <3>4, <3>5, <3>6
  <2>4. /\ \A id \in DOMAIN t_armed' : id \in DOMAIN t_armed
        /\ \A id \in DOMAIN t_armed' \ DueTimers : t_armed'[id] = t_armed[id]
        /\ DueTimers \subseteq DOMAIN t_armed
    BY <2>1 DEF DueTimers
  <2>5. /\ \A i \in DOMAIN t_batch' : ToRun(i)'
        /\ \A id : AwaitsRun(id)' <=> id \in DueTimers
    BY <1>1, <2>1 DEF ToRun, AwaitsRun
  <2>6. T!TypeOK'
    <3>1. t_order' \subseteq T!Instant \X T!Ids
      <4> SUFFICES ASSUME NEW e \in t_order' PROVE e \in T!Instant \X T!Ids
        OBVIOUS
      <4>1. CASE e \in t_order
        BY <4>1 DEF TInv, T!TypeOK
      <4>2. ASSUME NEW id \in DOMAIN t_armed' \cap DueTimers, e = <<t_armed'[id].deadline, id>>
            PROVE  e \in T!Instant \X T!Ids
        BY <4>2, <2>2, <2>3, <2>4
      <4> QED BY <2>1, <4>1, <4>2
    <3>2. DOMAIN t_armed' \subseteq T!Ids /\ \A id \in DOMAIN t_armed' : t_armed'[id] \in T!Timer
      BY <2>2, <2>3, <2>4
    <3> QED BY <1>1, <2>1, <3>1, <3>2 DEF TInv, T!TypeOK
  <2>7. TFresh'
    BY <1>1, <2>1, <2>4 DEF TInv, TFresh, Used
  <2>8. TLevels'
    <3>1. t_nesting' <= Reach'
      BY <1>1, <1>2, TimerNumbers DEF TInv, TLevels
    <3>2. \A id \in DOMAIN t_armed' : t_armed'[id].nesting <= Reach'
      <4> TAKE id \in DOMAIN t_armed'
      <4>1. t_armed[id].nesting \in Nat /\ t_armed[id].nesting <= Reach
        BY <2>2, <2>4
      <4>2. t_armed'[id].nesting = t_armed[id].nesting + 1 \/ t_armed'[id].nesting = t_armed[id].nesting
        BY <2>3, <2>4
      <4> QED BY SMTT(30), <4>1, <4>2, <1>2, TimerNumbers
    <3>3. \A i \in DOMAIN t_batch' : t_batch'[i].nesting <= Reach'
      <4> TAKE i \in DOMAIN t_batch'
      <4>1. t_batch'[i].nesting \in Nat /\ t_batch'[i].nesting <= Reach
        BY <2>1, <2>2, <2>4
      <4> QED BY SMTT(30), <4>1, <1>2, TimerNumbers
    <3> QED BY <3>1, <3>2, <3>3 DEF TLevels
  <2>9. THeap'
    BY <2>1 DEF THeap
  <2>10. THalves'
    <3>1. DOMAIN t_armed' \subseteq DOMAIN t_scheduled'
      BY <1>1, <2>4 DEF TInv, THalves
    <3>2. \A id \in DOMAIN t_armed' : t_armed'[id].repeats = t_scheduled'[id]
      <4> TAKE id \in DOMAIN t_armed'
      <4>1. t_armed[id].repeats = t_scheduled[id]
        BY <2>4 DEF TInv, THalves
      <4>2. t_armed'[id].repeats = t_armed[id].repeats
        BY <2>1, <2>2, <2>3, <2>4
      <4> QED BY <1>1, <4>1, <4>2
    <3>3. \A id \in DOMAIN t_scheduled' :
            IF t_scheduled'[id] THEN id \in DOMAIN t_armed' ELSE id \in DOMAIN t_armed' <=> ~AwaitsRun(id)'
      <4> SUFFICES ASSUME NEW id \in DOMAIN t_scheduled
                   PROVE  IF t_scheduled[id] THEN id \in DOMAIN t_armed'
                          ELSE id \in DOMAIN t_armed' <=> id \notin DueTimers
        BY <1>1, <2>5
      <4>1. id \in DOMAIN t_armed /\ t_armed[id].repeats = t_scheduled[id]
        BY <1>1 DEF TInv, THalves, AwaitsRun
      <4> QED BY <2>1, <4>1
    <3> QED BY <3>1, <3>2, <3>3 DEF THalves
  <2>11. TArmed'
    <3> SUFFICES ASSUME NEW id \in DOMAIN t_armed'
                 PROVE  LET chain == t_streak[id].length + IF id \in DueTimers THEN 1 ELSE 0
                        IN /\ chain < t_armed'[id].nesting
                           /\ chain <= ClampedNesting \/ t_streak[id].at < t_armed'[id].deadline
      BY <1>1, <2>5 DEF TArmed
    <3>1. CASE id \in DueTimers
      <4>1. t_streak[id].length + 1 < t_armed'[id].nesting
        <5>1. /\ t_streak[id].length \in Nat /\ t_armed[id].nesting \in Nat
              /\ t_streak[id].length < t_armed[id].nesting
          BY <2>2, <2>4
        <5>2. t_armed'[id].nesting = t_armed[id].nesting + 1
          BY <2>3, <3>1
        <5> QED BY <5>1, <5>2
      <4>2. t_streak[id].length + 1 <= ClampedNesting \/ t_streak[id].at < t_armed'[id].deadline
        <5>1. /\ t_streak[id].length \in Nat /\ t_armed[id].nesting \in Nat
              /\ t_streak[id].length < t_armed[id].nesting
              /\ t_streak[id].at \in Nat /\ t_streak[id].at <= t_now
          BY <2>2, <2>4
        <5>2. t_armed[id].nesting > ClampedNesting => t_armed'[id].deadline > t_now
          BY <2>3, <3>1
        <5>3. t_armed'[id].deadline \in Nat
          BY <2>3, <3>1
        <5>4. t_streak[id].length + 1 <= ClampedNesting \/ t_armed[id].nesting > ClampedNesting
          <6>1. PICK n \in Nat, m \in Nat : n = t_streak[id].length /\ m = t_armed[id].nesting /\ n < m
            BY <5>1
          <6>2. ClampedNesting \in Nat
            BY TimerNumbers
          <6>3. n + 1 <= ClampedNesting \/ m > ClampedNesting
            BY <6>1, <6>2
          <6> QED BY <6>1, <6>3
        <5>5. t_now \in Nat
          BY TimerNumbers
        <5>6. CASE t_armed[id].nesting > ClampedNesting
          <6>1. t_armed'[id].deadline > t_now
            BY <5>2, <5>6
          <6> QED BY <5>1, <5>3, <5>5, <6>1
        <5> QED BY <5>4, <5>6
      <4> QED BY <3>1, <4>1, <4>2
    <3>2. CASE id \notin DueTimers
      BY <2>2, <2>4, <3>2
    <3> QED BY <3>1, <3>2
  <2>12. TAwaits'
    <3> SUFFICES ASSUME NEW i \in DOMAIN t_batch'
                 PROVE  LET last == t_streak[t_batch'[i].id]
                        IN /\ last.length < t_batch'[i].nesting
                           /\ last.length <= ClampedNesting \/ last.at < t_now
      BY <1>1 DEF TAwaits
    <3>1. t_batch'[i].id \in DueTimers /\ t_batch'[i].nesting = t_armed[t_batch'[i].id].nesting
      BY <2>1
    <3>2. PICK id \in DueTimers : id = t_batch'[i].id
      BY <3>1
    <3>3. id \in DOMAIN t_armed /\ t_armed[id].deadline <= t_now
      BY DEF DueTimers
    <3>4. /\ t_streak[id].length < t_armed[id].nesting
          /\ t_streak[id].length <= ClampedNesting \/ t_streak[id].at < t_armed[id].deadline
          /\ t_streak[id].at \in Nat /\ t_armed[id].deadline \in Nat
      BY <2>2, <3>3
    <3>5. t_streak[id].length <= ClampedNesting \/ t_streak[id].at < t_now
      BY SMTT(30), <3>3, <3>4, TimerNumbers
    <3> QED BY <3>1, <3>2, <3>4, <3>5
  <2> QED
    BY <1>3, <2>6, <2>7, <2>8, <2>9, <2>10, <2>11, <2>12 DEF TInv
<1> QED BY <1>4, <1>5

LEMMA TimersNext == T!ScheduleAssumption /\ TInv /\ [T!Next]_(T!vars) => TInv'
<1> SUFFICES ASSUME T!ScheduleAssumption, TInv, [T!Next]_(T!vars) PROVE TInv'
  OBVIOUS
<1>1. CASE UNCHANGED T!vars \/ T!Over
  BY <1>1, TimersStutter DEF T!Over
<1>2. CASE T!Tick \/ T!Enter \/ T!TakeDue
  BY <1>2, TimersTick, TimersEnter, TimersTakeDue
<1>3. CASE T!RunTimer \/ T!Return \/ T!Publish
  BY <1>3, TimersRunTimer, TimersReturn, TimersPublish
<1>4. CASE \E requested \in Delays, repeats \in BOOLEAN : T!SetTimer(requested, repeats)
  BY <1>4, TimersSetTimer
<1>5. CASE \E id \in T!Ids : T!ClearTimer(id)
  BY <1>5, TimersClearTimer
<1> QED BY <1>1, <1>2, <1>3, <1>4, <1>5 DEF T!Next

(* The inductive invariant of a realm's timers.                            *)
THEOREM TimersInvariance == ASSUME T!ScheduleAssumption PROVE T!Spec => []TInv
<1>1. T!Init => TInv
  BY TimersInit
<1>2. TInv /\ [T!Next]_(T!vars) => TInv'
  BY TimersNext
<1> QED BY <1>1, <1>2, PTL DEF T!Spec

LEMMA TimersAreKept == ASSUME TInv PROVE T!TimersHold
<1>1. T!HalvesAgree
  BY DEF TInv, THalves, T!HalvesAgree, AwaitsRun, T!InBatch
<1>2. T!ChainIsClamped
  BY DEF TInv, TRuns, T!ChainIsClamped
<1> QED BY <1>1, <1>2 DEF TInv, T!TimersHold

LEMMA ClearedIsNotRun ==
  ASSUME TInv, [T!Next]_(T!vars)
  PROVE  t_at = "batch" /\ t_at' = "callback" => Head(t_batch).id \notin t_cleared
<1> SUFFICES ASSUME t_at = "batch", t_at' = "callback" PROVE Head(t_batch).id \notin t_cleared
  OBVIOUS
<1>1. T!RunTimer
  <2>1. t_at' # t_at
    OBVIOUS
  <2>2. ~(UNCHANGED T!vars) /\ ~T!Tick /\ ~T!Enter /\ ~T!TakeDue /\ ~T!Return /\ ~T!Publish /\ ~T!Over
    BY <2>1 DEF T!Tick, T!Enter, T!TakeDue, T!Return, T!Publish, T!Over, T!vars
  <2>3. /\ \A requested, repeats : ~T!SetTimer(requested, repeats)
        /\ \A id : ~T!ClearTimer(id)
    BY DEF T!SetTimer, T!ClearTimer
  <2> QED BY <2>2, <2>3 DEF T!Next
<1>2. Head(t_batch).id \in DOMAIN t_scheduled
  BY <1>1 DEF T!RunTimer
<1> QED BY <1>2 DEF TInv, TFresh
(* What runs beside the timers leaves them alone.                          *)
LEMMA TimersBeside == PartsSpec => T!Spec
<1>1. PartsInit => T!Init
  BY DEF PartsInit
<1>2. [PartsNext]_all => [T!Next]_(T!vars)
  <2>1. UNCHANGED t_vars <=> UNCHANGED T!vars
    BY DEF t_vars, T!vars, T!host, T!ghosts
  <2>2. UNCHANGED all => UNCHANGED t_vars
    BY DEF all
  <2>3. PartsNext => T!Next \/ UNCHANGED t_vars
    BY DEF PartsNext
  <2> QED BY <2>1, <2>2, <2>3
<1> QED BY <1>1, <1>2, PTL DEF PartsSpec, T!Spec

(* Whatever script arms and clears, and however late a batch is run: the   *)
(* two halves of the table agree, what is published is the earliest        *)
(* deadline armed, and no chain of timers holds the realm at one instant   *)
(* (timers.rs, timers.ts).                                                 *)
THEOREM TimersAlwaysHold == PartsSpec => []TimersHold
<1>1. TInv => TimersHold
  BY TimersAreKept DEF TimersHold
<1> QED BY <1>1, TimersAssumption, TimersInvariance, TimersBeside, PTL

(* A timer that was cleared does not run, though its batch was taken       *)
(* before (run_due_timers).                                                *)
THEOREM ClearedForGood == PartsSpec => ClearedStaysCleared
<1>1. TInv /\ [T!Next]_(T!vars) =>
        [t_at = "batch" /\ t_at' = "callback" => Head(t_batch).id \notin t_cleared]_(T!vars)
  BY ClearedIsNotRun
<1>2. PartsSpec => []TInv /\ [][T!Next]_(T!vars)
  BY TimersAssumption, TimersInvariance, TimersBeside, PTL DEF T!Spec
<1> QED BY <1>1, <1>2, PTL DEF ClearedStaysCleared, T!ClearedStaysCleared

-----------------------------------------------------------------------------
(* The same cards and frames, with what FrameCardsProofs proves of them.   *)
P == INSTANCE FrameCardsProofs WITH
  frame <- f_frame, card <- f_card, asked <- f_asked, flying <- f_flying,
  jobs <- f_jobs, stack <- f_stack, entry <- f_entry, events <- f_events,
  batch <- f_batch, changes <- f_changes, taken <- f_taken,
  pageBts <- f_pageBts, acts <- f_acts

(* F and P are the same instance of Frames, action by action.             *)
LEMMA SameFrames ==
  (F!Init <=> P!Init) /\ (F!Next <=> P!Next) /\ F!vars = P!vars
<1>1. F!Init <=> P!Init
  BY DEF F!Init, P!Init, F!Realms, P!Realms, F!Page, P!Page, F!Cards,
    P!Cards, F!NewFrame, P!NewFrame, F!NewCard, P!NewCard
<1>2. F!Calls <=> P!Calls
  BY DEF F!Calls, P!Calls, F!Source, P!Source, F!Top, P!Top, F!LoadFrom,
    P!LoadFrom, F!LetGo, P!LetGo, F!Page, P!Page, F!Pop, P!Pop, F!Start,
    P!Start, F!Cards, P!Cards, F!Owes, P!Owes, F!Loaded, P!Loaded, F!Close,
    P!Close, F!Reset, P!Reset, F!FrameLives, P!FrameLives, F!Under,
    P!Under, F!Nests, P!Nests, F!Realms, P!Realms, F!Nothing, P!Nothing,
    F!Dispose, P!Dispose, F!Waits, P!Waits, F!Owing, P!Owing,
    F!FramesArrive, P!FramesArrive, F!AwaitRecords, P!AwaitRecords,
    F!Arrive, P!Arrive, F!Alive, P!Alive, F!AskPage, P!AskPage
<1>3. F!Jobs <=> P!Jobs
  BY DEF F!Jobs, P!Jobs, F!Cards, P!Cards, F!Boot, P!Boot, F!Flushed,
    P!Flushed, F!Current, P!Current, F!FrameLives, P!FrameLives, F!Page,
    P!Page, F!Depth, P!Depth, F!Realms, P!Realms, F!Connected, P!Connected,
    F!Flush, P!Flush, F!CloseRealm, P!CloseRealm, F!RunStart, P!RunStart
<1>4. F!Entries <=> P!Entries
  BY DEF F!Entries, P!Entries, F!OpenEvents, P!OpenEvents, F!Enter,
    P!Enter, F!Hear, P!Hear, F!FrameLives, P!FrameLives, F!Page, P!Page,
    F!Alive, P!Alive, F!Heard, P!Heard, F!Quiet, P!Quiet, F!Release,
    P!Release, F!Cards, P!Cards, F!Releasable, P!Releasable, F!Gone,
    P!Gone, F!Unneeded, P!Unneeded, F!Referenced, P!Referenced, F!IsBusy,
    P!IsBusy, F!OpenRecords, P!OpenRecords, F!Judged, P!Judged, F!Record,
    P!Record, F!Epilogue, P!Epilogue, F!Acknowledged, P!Acknowledged,
    F!Realms, P!Realms, F!FetchLands, P!FetchLands
<1>5. F!App <=> P!App
  BY DEF F!App, P!App, F!Realms, P!Realms, F!Page, P!Page, F!Cards,
    P!Cards, F!Move, P!Move, F!AppMayRun, P!AppMayRun, F!Alive, P!Alive,
    F!FrameLives, P!FrameLives, F!Flushed, P!Flushed, F!Top, P!Top,
    F!Under, P!Under, F!Nests, P!Nests, F!Connected, P!Connected, F!SetSrc,
    P!SetSrc, F!Cardinality, P!Cardinality
<1>6. F!OpenTurn <=> P!OpenTurn
  BY DEF F!OpenTurn, P!OpenTurn, F!Enter, P!Enter
<1>7. F!BeginDispose <=> P!BeginDispose
  BY DEF F!BeginDispose, P!BeginDispose, F!Page, P!Page
<1>8. \A c : F!BtsEnds(c) <=> P!BtsEnds(c)
  BY DEF F!BtsEnds, P!BtsEnds, F!Enter, P!Enter, F!Alive, P!Alive, F!Page,
    P!Page
<1>9. \A c : F!Observe(c) <=> P!Observe(c)
  BY DEF F!Observe, P!Observe, F!Connected, P!Connected, F!Realms,
    P!Realms, F!Page, P!Page, F!Cards, P!Cards, F!FrameLives, P!FrameLives
<1>10. F!Cards = P!Cards
  BY DEF F!Cards, P!Cards
<1>11. F!Next <=> P!Next
  BY <1>2, <1>3, <1>4, <1>5, <1>6, <1>7, <1>8, <1>9, <1>10 DEF F!Next, P!Next
<1>12. F!vars = P!vars
  BY DEF F!vars, P!vars
<1> QED BY <1>1, <1>11, <1>12

(* And promise the same.                                                   *)
LEMMA SamePromises ==
  /\ F!FreshPage <=> P!FreshPage
  /\ F!NoOrphan <=> P!NoOrphan
  /\ F!LastListPosted <=> P!LastListPosted
  /\ F!WaitersAreTold <=> P!WaitersAreTold
<1>1. F!FreshPage <=> P!FreshPage
  BY DEF F!FreshPage, P!FreshPage, F!TypeOK, P!TypeOK, F!Realms, P!Realms,
    F!Page, P!Page, F!Cards, P!Cards, F!Fresh, P!Fresh, F!FrameLives,
    P!FrameLives
<1>2. F!NoOrphan <=> P!NoOrphan
  BY DEF F!NoOrphan, P!NoOrphan, F!Cards, P!Cards, F!Orphan, P!Orphan,
    F!Alive, P!Alive, F!Page, P!Page, F!Belated, P!Belated, F!Realms,
    P!Realms, F!Lags, P!Lags
<1>3. F!LastListPosted <=> P!LastListPosted
  BY DEF F!LastListPosted, P!LastListPosted, F!Cards, P!Cards, F!Done,
    P!Done, F!Posted, P!Posted
<1>4. F!WaitersAreTold <=> P!WaitersAreTold
  BY DEF F!WaitersAreTold, P!WaitersAreTold, F!Spoiled, P!Spoiled, F!Cards,
    P!Cards, F!Realms, P!Realms, F!Page, P!Page, F!Alive, P!Alive, F!Below,
    P!Below
<1> QED BY <1>1, <1>2, <1>3, <1>4

(* What runs beside the cards leaves them alone.                           *)
LEMMA CardsBeside == PartsSpec => P!Spec
<1>1. PartsInit => P!Init
  BY SameFrames DEF PartsInit
<1>2. [PartsNext]_all => [P!Next]_(P!vars)
  <2>1. UNCHANGED f_vars <=> UNCHANGED P!vars
    BY DEF f_vars, P!vars
  <2>2. UNCHANGED all => UNCHANGED f_vars
    BY DEF all
  <2>3. PartsNext => F!Next \/ UNCHANGED f_vars
    BY DEF PartsNext
  <2>4. F!Next <=> P!Next
    BY SameFrames
  <2> QED BY <2>1, <2>2, <2>3, <2>4
<1> QED BY <1>1, <1>2, PTL DEF PartsSpec, P!Spec

LEMMA CardsPromised ==
  PartsSpec => [](F!FreshPage /\ F!NoOrphan /\ F!LastListPosted /\ F!WaitersAreTold)
<1>1. P!FramesAssumption
  BY CardsAssumption DEF F!FramesAssumption, P!FramesAssumption
<1>2. P!Spec => [](P!FreshPage /\ P!NoOrphan /\ P!LastListPosted /\ P!WaitersAreTold)
  BY <1>1, P!CardsPromise
<1>3. P!FreshPage /\ P!NoOrphan /\ P!LastListPosted /\ P!WaitersAreTold
        => F!FreshPage /\ F!NoOrphan /\ F!LastListPosted /\ F!WaitersAreTold
  BY SamePromises
<1> QED BY <1>2, <1>3, CardsBeside, PTL

(* However the frames of a page load, move, close and die: a card boots    *)
(* into a page of its own, a card at work is one its frame will let go of, *)
(* and its last list is posted before its background thread is asked to    *)
(* go (frame.ts, frame-boot.ts).                                           *)
THEOREM CardsAlwaysKept == PartsSpec => []CardsAreKept
<1>1. F!FreshPage /\ F!NoOrphan /\ F!LastListPosted /\ F!WaitersAreTold => CardsAreKept
  BY DEF CardsAreKept
<1> QED BY <1>1, CardsPromised, PTL

(* Whoever waits for a card's last list, or for what a frame owes, will be *)
(* told, unless a thread has died unheard (frame-boot.ts, child.rs).       *)
THEOREM WaitersAlwaysTold == PartsSpec => []WaitersAreTold
<1>1. F!FreshPage /\ F!NoOrphan /\ F!LastListPosted /\ F!WaitersAreTold => WaitersAreTold
  BY DEF WaitersAreTold
<1> QED BY <1>1, CardsPromised, PTL
=============================================================================
