------------------------ MODULE PostPublishingProofs ------------------------
(***************************************************************************)
(* Proofs about PostPublishing, for every set of posts, platforms, lists,  *)
(* requests, workers and jobs, and under every set of faults.              *)
(*                                                                         *)
(* The inductive invariant is built in layers, each proved from those      *)
(* before it: the shape of the state (ShapeInv), then what has been        *)
(* committed (CommitInv), then what a job has sent (JobInv), then what a   *)
(* run may claim (ClaimInv).  The refinement of PostLifecycle follows from *)
(* those layers.  Two invariants hold only while some faults are absent,   *)
(* and their theorems say which.                                           *)
(***************************************************************************)
EXTENDS PostPublishing, TLAPS

\* Every row that has been created targets a list some client submitted.
ListsInv == \A p \in Posts : status[p] # "none" => platforms[p] \in Lists

\* A job in the table belongs to a post.
JobsInv == \A j \in Jobs : job[j].state # "none" => job[j].post \in Posts

\* The local state of a run fits the step it is at.
RunInv(r) ==
    /\ run[r].pc # "idle" => run[r].post \in Posts
    /\ run[r].job \in Jobs => /\ r \in Workers
                              /\ run[r].pc # "idle"
                              /\ job[run[r].job].state = "running"
                              /\ job[run[r].job].post = run[r].post
    /\ r \in Workers /\ run[r].pc # "idle" => run[r].job \in Jobs
    /\ run[r].pc = "mark" => run[r].list # <<>> /\ run[r].idx = 1
    /\ run[r].pc \in {"send", "record"} => run[r].idx \in 1..Len(run[r].list)
    /\ run[r].pc \in {"conclude", "final"} => /\ run[r].idx = Len(run[r].list) + 1
                                            /\ Len(run[r].list) > 0
    /\ run[r].failed \subseteq 1..Len(run[r].list)
    /\ run[r].pc = "mark" => run[r].failed = {}
    /\ \A i \in run[r].failed : i < run[r].idx \/ run[r].pc = "idle"

\* At most one run works on a job.
OneRunPerJob ==
    \A r, s \in Runs : run[r].job \in Jobs /\ run[r].job = run[s].job => r = s

ShapeInv ==
    /\ TypeOK
    /\ ListsInv
    /\ JobsInv
    /\ OneRunPerJob
    /\ \A r \in Runs : RunInv(r)

Publishing == {"send", "record", "conclude", "final"}

CommitInv ==
    /\ NothingSentUncommitted
    /\ \A r \in Runs : run[r].pc \in Publishing => status[run[r].post] \in Committed
    /\ \A j \in Jobs : jobSent[j] # {} =>
          job[j].state # "none" /\ status[job[j].post] \in Committed

\* A job has sent no position that its run has still to reach.
JobInv ==
    \A w \in Workers :
        /\ run[w].pc = "mark" => jobSent[run[w].job] = {}
        /\ run[w].pc = "send" => \A i \in jobSent[run[w].job] : i < run[w].idx
        /\ run[w].pc = "record" => \A i \in jobSent[run[w].job] : i <= run[w].idx

\* What a run has passed without a failure is out.
ClaimInv ==
    /\ RowsAreTrue
    /\ \A r \in Runs : run[r].pc \in Publishing =>
          \A i \in 1..Len(run[r].list) :
             i < run[r].idx /\ i \notin run[r].failed =>
                run[r].list[i] \in delivered[run[r].post]
    /\ \A r \in Runs : run[r].pc = "record" => PlatformAt(r) \in delivered[run[r].post]

-----------------------------------------------------------------------------
(***************************************************************************)
(* The shape of the state.                                                 *)
(***************************************************************************)

LEMMA IdleIsRunState == IdleRun \in RunState
  BY DEF IdleRun, RunState, PCs

LEMMA ShapeInit == Init => ShapeInv
  <1> SUFFICES ASSUME Init PROVE ShapeInv
    OBVIOUS
  <1>1. TypeOK
    BY IdleIsRunState DEF Init, TypeOK, Statuses, NoJob, JobState
  <1>2. \A r \in Runs : RunInv(r)
    BY NoneAssumption DEF Init, RunInv, IdleRun
  <1>3. ListsInv /\ JobsInv /\ OneRunPerJob
    BY NoneAssumption DEF Init, ListsInv, JobsInv, NoJob, OneRunPerJob, IdleRun
  <1> QED
    BY <1>1, <1>2, <1>3 DEF ShapeInv

\* What a return does: the run is idle, only the job of the run changes, and
\* it keeps its post.
LEMMA ReturnEffect ==
  ASSUME TypeOK, NEW r \in Runs, NEW ok \in BOOLEAN, Return(r, ok)
  PROVE  /\ run' = [run EXCEPT ![r] = IdleRun]
         /\ job' \in [Jobs -> JobState]
         /\ \A j \in Jobs : /\ job'[j].post = job[j].post
                            /\ job[j].state # "none" => job'[j].state # "none"
                            /\ j # run[r].job => job'[j] = job[j]
  <1> USE DEF Return
  <1>1. ASSUME NEW j \in Jobs
        PROVE  /\ job'[j] \in JobState
               /\ job'[j].post = job[j].post
               /\ job[j].state # "none" => job'[j].state # "none"
    <2>1. job[j] \in JobState
      BY DEF TypeOK
    <2>2. job'[j] \in {job[j], [job[j] EXCEPT !.state = "completed"],
                      [job[j] EXCEPT !.state = "available"],
                      [job[j] EXCEPT !.state = "discarded"]}
      BY DEF AfterError
    <2> QED
      BY <2>1, <2>2 DEF JobState
  <1> QED
    BY <1>1

\* What a return preserves.
LEMMA ReturnShape ==
  ASSUME ShapeInv, NEW r \in Runs, NEW ok \in BOOLEAN, Return(r, ok)
  PROVE  /\ run' \in [Runs -> RunState]
         /\ job' \in [Jobs -> JobState]
         /\ JobsInv'
         /\ OneRunPerJob'
         /\ \A q \in Runs : RunInv(q)'
  <1> USE DEF ShapeInv
  <1>1. run' = [run EXCEPT ![r] = IdleRun] /\ job' \in [Jobs -> JobState]
    BY ReturnEffect
  <1>2. run' \in [Runs -> RunState]
    BY <1>1, IdleIsRunState DEF TypeOK
  <1>3. OneRunPerJob'
    BY <1>1, NoneAssumption DEF OneRunPerJob, TypeOK, IdleRun
  <1>4. ASSUME NEW q \in Runs
        PROVE  RunInv(q)'
    <2>1. CASE q = r
      BY <1>1, <2>1, NoneAssumption DEF RunInv, TypeOK, IdleRun
    <2>2. CASE q # r
      <3>1. run'[q] = run[q]
        BY <1>1, <2>2 DEF TypeOK
      <3>2. run[q].job \in Jobs => run[q].job # run[r].job
        BY <2>2 DEF OneRunPerJob
      <3>3. run[q].job \in Jobs => job'[run[q].job] = job[run[q].job]
        BY <3>2, ReturnEffect
      <3>4. RunInv(q)
        OBVIOUS
      <3> QED
        BY <3>1, <3>3, <3>4 DEF RunInv
    <2> QED
      BY <2>1, <2>2
  <1>5. JobsInv'
    <2> SUFFICES ASSUME NEW j \in Jobs, job'[j].state # "none"
                 PROVE  job'[j].post \in Posts
      BY DEF JobsInv
    <2>1. CASE j = run[r].job
      BY <2>1, ReturnEffect DEF JobsInv, RunInv
    <2>2. CASE j # run[r].job
      BY <2>2, ReturnEffect DEF JobsInv
    <2> QED
      BY <2>1, <2>2
  <1> QED
    BY <1>1, <1>2, <1>3, <1>4, <1>5

\* A step of one run that leaves running jobs running, and takes no job.
LEMMA LocalShape ==
  ASSUME ShapeInv, NEW r \in Runs, run' \in [Runs -> RunState],
         \A q \in Runs \ {r} : run'[q] = run[q],
         run'[r].job \in Jobs => run'[r].job = run[r].job,
         \A j \in Jobs : job[j].state = "running" => job'[j] = job[j],
         RunInv(r)'
  PROVE  OneRunPerJob' /\ \A q \in Runs : RunInv(q)'
  <1> USE DEF ShapeInv
  <1>1. OneRunPerJob'
    BY DEF OneRunPerJob
  <1>2. ASSUME NEW q \in Runs, q # r
        PROVE  RunInv(q)'
    <2>1. run'[q] = run[q] /\ RunInv(q)
      BY <1>2
    <2>2. run[q].job \in Jobs => job'[run[q].job] = job[run[q].job]
      BY <2>1 DEF RunInv
    <2> QED
      BY <2>1, <2>2 DEF RunInv
  <1> QED
    BY <1>1, <1>2

LEMMA RequestShape ==
  ASSUME ShapeInv, Request
  PROVE  ShapeInv'
  <1> USE DEF ShapeInv
  <1>1. ASSUME NEW p \in Posts, NEW l \in Lists, Create(p, l) \/ Update(p, l)
        PROVE  ShapeInv'
    <2>1. TypeOK'
      BY <1>1, ListsAssumption DEF TypeOK, Create, Update, world, Statuses
    <2>2. ListsInv'
      BY <1>1 DEF TypeOK, ListsInv, Create, Update
    <2>3. UNCHANGED <<run, job>>
      BY <1>1 DEF Create, Update
    <2> QED
      BY <2>1, <2>2, <2>3 DEF JobsInv, OneRunPerJob, RunInv
  <1>2. ASSUME NEW p \in Posts, Unschedule(p)
        PROVE  ShapeInv'
    <2>1. TypeOK'
      BY <1>2 DEF TypeOK, Unschedule, BackToDraft, world, Statuses
    <2>2. ListsInv'
      BY <1>2 DEF TypeOK, ListsInv, Unschedule, BackToDraft, Unschedulable
    <2>3. UNCHANGED <<run, job>>
      BY <1>2 DEF Unschedule
    <2> QED
      BY <2>1, <2>2, <2>3 DEF JobsInv, OneRunPerJob, RunInv
  <1>3. ASSUME NEW h \in Http, NEW p \in Posts, DeleteRead(h, p)
        PROVE  ShapeInv'
    <2>1. h \in Runs /\ h \notin Workers
      BY RunsAssumption DEF Runs
    <2>2. TypeOK'
      BY <1>3, <2>1, IdleIsRunState DEF TypeOK, DeleteRead, rows, world, RunState, PCs
    <2>3. RunInv(h)'
      BY <1>3, <2>1, NoneAssumption DEF TypeOK, DeleteRead, RunInv, IdleRun
    <2>4. ListsInv' /\ JobsInv'
      BY <1>3 DEF DeleteRead, rows, ListsInv, JobsInv
    <2>5. OneRunPerJob' /\ \A q \in Runs : RunInv(q)'
      BY <1>3, <2>1, <2>2, <2>3, LocalShape, NoneAssumption
         DEF TypeOK, DeleteRead, IdleRun
    <2> QED
      BY <2>2, <2>4, <2>5
  <1>4. ASSUME NEW h \in Http, NEW p \in Posts, Publish(h, p)
        PROVE  ShapeInv'
    <2>1. h \in Runs /\ h \notin Workers
      BY RunsAssumption DEF Runs
    <2>2. platforms[p] \in Seq(Platforms) \ {<<>>}
      BY <1>4, ListsAssumption DEF Publish, Publishable, ListsInv
    <2>3. TypeOK'
      BY <1>4, <2>1, <2>2, IdleIsRunState
         DEF TypeOK, Publish, TakeSnapshot, rows, world, RunState, PCs
    <2>4. RunInv(h)'
      BY <1>4, <2>1, <2>2, NoneAssumption DEF TypeOK, Publish, TakeSnapshot, RunInv, IdleRun
    <2>5. ListsInv' /\ JobsInv'
      BY <1>4 DEF Publish, rows, ListsInv, JobsInv
    <2>6. OneRunPerJob' /\ \A q \in Runs : RunInv(q)'
      BY <1>4, <2>1, <2>3, <2>4, LocalShape, NoneAssumption
         DEF TypeOK, Publish, TakeSnapshot, IdleRun
    <2> QED
      BY <2>3, <2>5, <2>6
  <1>5. ASSUME NEW h \in Http, NEW p \in Posts, NEW t \in 1..MaxTime,
               ScheduleRow(h, p, t)
        PROVE  ShapeInv'
    <2>1. h \in Runs /\ h \notin Workers
      BY RunsAssumption DEF Runs
    <2>2. TypeOK'
      <3>1. run' \in [Runs -> RunState]
        <4> DEFINE new == [IdleRun EXCEPT !.pc = "enqueue", !.post = p, !.at = t]
        <4>1. t \in Nat
          BY BoundsAssumption
        <4>2. <<>> \in Seq(Platforms) /\ {} \subseteq Nat
          OBVIOUS
        <4>3. new \in RunState
          BY <4>1, <4>2 DEF IdleRun, RunState, PCs
        <4>4. run' = [run EXCEPT ![h] = new]
          BY <1>5 DEF ScheduleRow
        <4> HIDE DEF new
        <4> QED
          BY <2>1, <4>3, <4>4 DEF TypeOK
      <3> QED
        BY <1>5, <3>1, BoundsAssumption DEF TypeOK, ScheduleRow, world, Statuses
    <2>3. RunInv(h)'
      BY <1>5, <2>1, NoneAssumption DEF TypeOK, ScheduleRow, RunInv, IdleRun
    <2>4. ListsInv' /\ JobsInv'
      BY <1>5 DEF TypeOK, ScheduleRow, ListsInv, JobsInv
    <2>5. OneRunPerJob' /\ \A q \in Runs : RunInv(q)'
      BY <1>5, <2>1, <2>2, <2>3, LocalShape, NoneAssumption
         DEF TypeOK, ScheduleRow, IdleRun
    <2> QED
      BY <2>2, <2>4, <2>5
  <1> QED
    BY <1>1, <1>2, <1>3, <1>4, <1>5 DEF Request

\* The steps of a run other than the loop over the platforms.
LEMMA StartShape ==
  ASSUME ShapeInv, NEW r \in Runs,
         \/ DeleteRow(r) \/ EnqueueFails(r)
         \/ \E j \in Jobs : EnqueueJob(r, j)
         \/ Load(r) \/ Mark(r)
  PROVE  ShapeInv'
  <1> USE DEF ShapeInv
  <1>0. run[r].pc # "idle" => run[r].post \in Posts
    BY DEF RunInv
  <1>1. CASE DeleteRow(r)
    <2>1. TypeOK'
      BY <1>1, IdleIsRunState DEF TypeOK, DeleteRow, world, rows, Statuses
    <2>2. RunInv(r)'
      BY <1>1, NoneAssumption DEF TypeOK, DeleteRow, RunInv, IdleRun
    <2>3. ListsInv' /\ JobsInv'
      BY <1>1 DEF TypeOK, DeleteRow, rows, ListsInv, JobsInv, Editable
    <2>4. OneRunPerJob' /\ \A q \in Runs : RunInv(q)'
      BY <1>1, <2>1, <2>2, LocalShape, NoneAssumption DEF TypeOK, DeleteRow, IdleRun
    <2> QED
      BY <2>1, <2>3, <2>4
  <1>2. CASE EnqueueFails(r)
    <2>1. TypeOK'
      <3>1. run' \in [Runs -> RunState]
        BY <1>2, IdleIsRunState DEF TypeOK, EnqueueFails
      <3>2. CASE UNCHANGED rows
        BY <1>2, <3>1, <3>2 DEF TypeOK, EnqueueFails, world, rows
      <3>3. CASE BackToDraft(run[r].post)
        BY <1>2, <3>1, <3>3 DEF TypeOK, EnqueueFails, BackToDraft, world, Statuses
      <3> QED
        BY <1>2, <3>2, <3>3 DEF EnqueueFails
    <2>2. RunInv(r)'
      BY <1>2, NoneAssumption DEF TypeOK, EnqueueFails, RunInv, IdleRun
    <2>3. ListsInv' /\ JobsInv'
      BY <1>2 DEF TypeOK, EnqueueFails, BackToDraft, rows, ListsInv, JobsInv, Unschedulable
    <2>4. OneRunPerJob' /\ \A q \in Runs : RunInv(q)'
      BY <1>2, <2>1, <2>2, LocalShape, NoneAssumption DEF TypeOK, EnqueueFails, IdleRun
    <2> QED
      BY <2>1, <2>3, <2>4
  <1>3. ASSUME NEW j \in Jobs, EnqueueJob(r, j)
        PROVE  ShapeInv'
    <2>1. /\ run[r].pc = "enqueue" /\ run[r].post \in Posts /\ run[r].at \in Nat
          /\ job[j].state = "none"
          /\ job' = [job EXCEPT ![j] = [state |-> "available", post |-> run[r].post,
                                       at |-> run[r].at, tries |-> 0]]
          /\ run' = [run EXCEPT ![r] = IdleRun]
          /\ UNCHANGED <<status, platforms, scheduledAt, okRows, failRows, now,
                         delivered, jobSent>>
      BY <1>0, <1>3 DEF EnqueueJob, UnusedJobs, InsertJob, TypeOK, RunState, rows, world
    <2>2. job' \in [Jobs -> JobState]
      BY <2>1 DEF TypeOK, JobState
    <2>3. TypeOK'
      BY <2>1, <2>2, IdleIsRunState DEF TypeOK
    <2>4. RunInv(r)'
      BY <2>1, NoneAssumption DEF TypeOK, RunInv, IdleRun
    <2>5. ListsInv' /\ JobsInv'
      BY <2>1 DEF TypeOK, ListsInv, JobsInv
    <2>6. \A k \in Jobs : job[k].state = "running" => job'[k] = job[k]
      BY <2>1 DEF TypeOK
    <2>7. OneRunPerJob' /\ \A q \in Runs : RunInv(q)'
      BY <2>1, <2>3, <2>4, <2>6, LocalShape, NoneAssumption DEF TypeOK, IdleRun
    <2> QED
      BY <2>3, <2>5, <2>7
  <1>4. CASE Load(r)
    <2>1. run[r].pc = "load" /\ run[r].post \in Posts
      BY <1>0, <1>4 DEF Load
    <2>2. CASE TakeSnapshot(r, run[r].post, run[r].job) /\ UNCHANGED job
               /\ status[run[r].post] \in Executable
      <3>1. platforms[run[r].post] \in Seq(Platforms) \ {<<>>}
        BY <2>1, <2>2, ListsAssumption DEF Executable, ListsInv
      <3>a. run[r].job \in Jobs \cup {None}
        BY DEF TypeOK, RunState
      <3>b. [IdleRun EXCEPT !.pc = "mark", !.post = run[r].post, !.job = run[r].job,
                            !.list = platforms[run[r].post], !.idx = 1] \in RunState
        BY <2>1, <3>1, <3>a DEF IdleRun, RunState, PCs
      <3>c. run' \in [Runs -> RunState]
        BY <2>2, <3>b DEF TypeOK, TakeSnapshot
      <3>2. TypeOK'
        BY <1>4, <2>2, <3>c DEF TypeOK, Load, rows, world
      <3>3. RunInv(r)'
        BY <2>1, <2>2, <3>1 DEF TypeOK, TakeSnapshot, RunInv, IdleRun
      <3>4. ListsInv' /\ JobsInv'
        BY <1>4, <2>2 DEF Load, rows, ListsInv, JobsInv
      <3>5. OneRunPerJob' /\ \A q \in Runs : RunInv(q)'
        BY <2>2, <3>2, <3>3, LocalShape DEF TypeOK, TakeSnapshot, IdleRun
      <3> QED
        BY <3>2, <3>4, <3>5
    <2>3. CASE Return(r, TRUE) \/ Return(r, FALSE)
      <3>1. ListsInv'
        BY <1>4 DEF Load, rows, ListsInv
      <3>2. TypeOK'
        BY <1>4, <2>3, ReturnShape DEF TypeOK, Load, rows, world
      <3> QED
        BY <2>3, <3>1, <3>2, ReturnShape
    <2> QED
      BY <1>4, <2>2, <2>3 DEF Load
  <1>5. CASE Mark(r)
    <2>1. run[r].pc = "mark" /\ run[r].post \in Posts
      BY <1>0, <1>5 DEF Mark
    <2>2. CASE /\ RowExists(run[r].post)
               /\ status' = [status EXCEPT ![run[r].post] = "publishing"]
               /\ run' = [run EXCEPT ![r].pc = "send"]
               /\ UNCHANGED <<platforms, scheduledAt, okRows, failRows, job>>
      <3>a. run' \in [Runs -> RunState]
        <4>1. run[r] \in RunState
          BY DEF TypeOK
        <4>2. [run[r] EXCEPT !.pc = "send"] \in RunState
          BY <4>1 DEF RunState, PCs
        <4> QED
          BY <2>2, <4>2 DEF TypeOK
      <3>1. TypeOK'
        BY <1>5, <2>1, <2>2, <3>a DEF TypeOK, Mark, world, Statuses
      <3>2. RunInv(r)'
        BY <2>1, <2>2 DEF TypeOK, RunInv, RunState
      <3>3. ListsInv' /\ JobsInv'
        BY <2>1, <2>2 DEF TypeOK, RowExists, ListsInv, JobsInv
      <3>4. OneRunPerJob' /\ \A q \in Runs : RunInv(q)'
        BY <2>2, <3>1, <3>2, LocalShape DEF TypeOK, RunState
      <3> QED
        BY <3>1, <3>3, <3>4
    <2>3. CASE Return(r, FALSE) /\ UNCHANGED rows
      <3>1. ListsInv'
        BY <2>3 DEF rows, ListsInv
      <3>2. TypeOK'
        BY <1>5, <2>3, ReturnShape DEF TypeOK, Mark, rows, world
      <3> QED
        BY <2>3, <3>1, <3>2, ReturnShape
    <2> QED
      BY <1>5, <2>2, <2>3 DEF Mark
  <1> QED
    BY <1>1, <1>2, <1>3, <1>4, <1>5

\* A step of one run that changes no other run, no job and no list.
LEMMA QuietShape ==
  ASSUME ShapeInv, NEW r \in Runs, run[r].pc # "idle",
         NEW x \in RunState, run' = [run EXCEPT ![r] = x],
         x.job = run[r].job, RunInv(r)',
         UNCHANGED <<platforms, scheduledAt, job, now>>,
         status' \in [Posts -> Statuses],
         \A p \in Posts : status'[p] # "none" => status[p] # "none",
         okRows' \in [Posts -> SUBSET Platforms],
         failRows' \in [Posts -> SUBSET Platforms],
         delivered' \in [Posts -> SUBSET Platforms],
         jobSent' \in [Jobs -> SUBSET Nat]
  PROVE  ShapeInv'
  <1> USE DEF ShapeInv
  <1>1. run' \in [Runs -> RunState]
    BY DEF TypeOK
  <1>2. TypeOK'
    BY <1>1 DEF TypeOK
  <1>3. ListsInv' /\ JobsInv'
    BY DEF ListsInv, JobsInv
  <1>4. /\ \A q \in Runs \ {r} : run'[q] = run[q]
        /\ run'[r].job = run[r].job
    BY DEF TypeOK
  <1>5. OneRunPerJob' /\ \A q \in Runs : RunInv(q)'
    BY <1>1, <1>4, LocalShape
  <1> QED
    BY <1>2, <1>3, <1>5

\* What Advance does to the local state of its run.
LEMMA AdvanceEffect ==
  ASSUME ShapeInv, NEW r \in Runs, NEW F, Advance(r, F), UNCHANGED job,
         run[r].pc \in {"send", "record"},
         F \subseteq run[r].failed \cup {run[r].idx}
  PROVE  \E x \in RunState : /\ run' = [run EXCEPT ![r] = x]
                             /\ x.job = run[r].job
                             /\ RunInv(r)'
  <1> DEFINE pc == IF run[r].idx < Len(run[r].list) THEN "send" ELSE "conclude"
             x == [run[r] EXCEPT !.idx = @ + 1, !.failed = F, !.pc = pc]
  <1>1. /\ run[r] \in RunState
        /\ RunInv(r)
    BY DEF ShapeInv, TypeOK
  <1>2. /\ run[r].idx \in Nat
        /\ Len(run[r].list) \in Nat
        /\ run[r].idx \in 1..Len(run[r].list)
        /\ run[r].failed \subseteq 1..Len(run[r].list)
        /\ \A i \in run[r].failed : i < run[r].idx
    BY <1>1 DEF RunInv, RunState
  <1>3. /\ F \subseteq 1..Len(run[r].list)
        /\ \A i \in F : i < run[r].idx + 1
    BY <1>2
  <1>4. x \in RunState
    <2>1. run[r].idx + 1 \in Nat /\ F \in SUBSET Nat /\ pc \in PCs
      BY <1>2, <1>3 DEF PCs
    <2> HIDE DEF pc
    <2> QED
      BY <1>1, <2>1 DEF RunState
  <1>5. run' = [run EXCEPT ![r] = x]
    BY DEF Advance, ShapeInv, TypeOK
  <1>6. /\ x.post = run[r].post /\ x.job = run[r].job
        /\ x.list = run[r].list /\ x.idx = run[r].idx + 1
        /\ x.failed = F /\ x.pc = pc
    BY <1>1 DEF RunState
  <1>7. run'[r] = x
    BY <1>5 DEF ShapeInv, TypeOK
  <1>8. /\ pc \in {"send", "conclude"}
        /\ pc = "send" => run[r].idx + 1 \in 1..Len(run[r].list)
        /\ pc = "conclude" => run[r].idx + 1 = Len(run[r].list) + 1
        /\ Len(run[r].list) > 0
    BY <1>2
  <1> HIDE DEF pc, x
  <1>9. RunInv(r)'
    BY <1>1, <1>3, <1>6, <1>7, <1>8 DEF RunInv
  <1> QED
    BY <1>4, <1>5, <1>6, <1>9

\* The loop over the platforms, and the end of publishing.
LEMMA LoopShape ==
  ASSUME ShapeInv, NEW r \in Runs,
         \/ SendOk(r) \/ SendFails(r) \/ SendLost(r) \/ RecordSuccess(r)
         \/ RecordFailures(r) \/ Conclude(r)
  PROVE  ShapeInv'
  <1> USE DEF ShapeInv
  <1>1. run[r] \in RunState /\ RunInv(r)
    BY DEF TypeOK
  <1>2. run[r].pc # "idle" => run[r].post \in Posts
    BY <1>1 DEF RunInv
  <1>3. run[r].pc \in {"send", "record"} =>
          run[r].idx \in Nat /\ PlatformAt(r) \in Platforms
    BY <1>1 DEF RunInv, RunState, PlatformAt
  <1>4. run[r].pc = "send" /\ Deliver(r) =>
          /\ delivered' \in [Posts -> SUBSET Platforms]
          /\ jobSent' \in [Jobs -> SUBSET Nat]
    BY <1>2, <1>3 DEF TypeOK, Deliver
  <1>5. CASE SendOk(r)
    <2> DEFINE x == [run[r] EXCEPT !.pc = "record"]
    <2>1. x \in RunState
      BY <1>1 DEF RunState, PCs
    <2>2. x.job = run[r].job
      BY <1>1 DEF RunState
    <2>3. run' = [run EXCEPT ![r] = x]
      BY <1>5 DEF SendOk, TypeOK
    <2>4. RunInv(r)'
      BY <1>1, <1>5 DEF SendOk, RunInv, TypeOK, RunState
    <2> HIDE DEF x
    <2> QED
      BY <1>4, <1>5, <2>1, <2>2, <2>3, <2>4, QuietShape DEF SendOk, rows, TypeOK
  <1>6. CASE SendFails(r) \/ SendLost(r)
    <2>1. /\ run[r].pc = "send"
          /\ Advance(r, run[r].failed \cup {run[r].idx})
          /\ UNCHANGED <<rows, job, now>>
          /\ UNCHANGED world \/ Deliver(r)
      BY <1>6 DEF SendFails, SendLost
    <2>2. PICK x \in RunState : /\ run' = [run EXCEPT ![r] = x]
                                /\ x.job = run[r].job
                                /\ RunInv(r)'
      BY <2>1, AdvanceEffect
    <2>3. /\ delivered' \in [Posts -> SUBSET Platforms]
          /\ jobSent' \in [Jobs -> SUBSET Nat]
      BY <1>4, <2>1 DEF world, TypeOK
    <2> QED
      BY <2>1, <2>2, <2>3, QuietShape DEF rows, TypeOK
  <1>7. CASE RecordSuccess(r)
    <2>1. PICK x \in RunState : /\ run' = [run EXCEPT ![r] = x]
                                /\ x.job = run[r].job
                                /\ RunInv(r)'
      BY <1>7, AdvanceEffect DEF RecordSuccess
    <2>2. okRows' \in [Posts -> SUBSET Platforms]
      <3>1. /\ run[r].post \in Posts
            /\ PlatformAt(r) \in Platforms
            /\ \/ okRows' = [okRows EXCEPT ![run[r].post] = @ \cup {PlatformAt(r)}]
               \/ UNCHANGED okRows
        BY <1>2, <1>3, <1>7 DEF RecordSuccess
      <3>2. okRows \in [Posts -> SUBSET Platforms]
        BY DEF TypeOK
      <3> QED
        BY <3>1, <3>2
    <2> QED
      BY <1>7, <2>1, <2>2, QuietShape DEF RecordSuccess, world, TypeOK
  <1>8. CASE RecordFailures(r)
    <2> DEFINE x == [run[r] EXCEPT !.pc = "final"]
    <2>1. x \in RunState
      BY <1>1 DEF RunState, PCs
    <2>2. x.job = run[r].job
      BY <1>1 DEF RunState
    <2>3. run' = [run EXCEPT ![r] = x]
      BY <1>8 DEF RecordFailures, TypeOK
    <2>4. RunInv(r)'
      BY <1>1, <1>8 DEF RecordFailures, RunInv, TypeOK, RunState
    <2>5. FailedPlatforms(r) \subseteq Platforms
      BY <1>1 DEF FailedPlatforms, RunInv, RunState
    <2>6. failRows' \in [Posts -> SUBSET Platforms]
      <3>1. PICK F \in FailuresWritten(r) :
              failRows' = IF RowExists(run[r].post)
                          THEN [failRows EXCEPT ![run[r].post] = @ \cup F]
                          ELSE failRows
        BY <1>8 DEF RecordFailures
      <3>2. F \subseteq Platforms
        BY <2>5 DEF FailuresWritten
      <3> QED
        BY <3>1, <3>2 DEF TypeOK
    <2> HIDE DEF x
    <2> QED
      BY <1>8, <2>1, <2>2, <2>3, <2>4, <2>6, QuietShape
         DEF RecordFailures, world, TypeOK
  <1>9. CASE Conclude(r)
    <2>1. run[r].post \in Posts /\ Outcome(r) \in Statuses
      BY <1>2, <1>9 DEF Conclude, Outcome, Statuses
    <2>2. /\ status' \in [Posts -> Statuses]
          /\ \A p \in Posts : status'[p] # "none" => status[p] # "none"
      BY <1>9, <2>1 DEF Conclude, RowExists, TypeOK
    <2>3. PICK ok \in BOOLEAN : Return(r, ok)
      BY <1>9 DEF Conclude
    <2>4. ListsInv'
      BY <1>9, <2>2 DEF Conclude, ListsInv
    <2>5. TypeOK'
      BY <1>9, <2>2, <2>3, ReturnShape DEF Conclude, TypeOK, world
    <2> QED
      BY <2>3, <2>4, <2>5, ReturnShape
  <1> QED
    BY <1>5, <1>6, <1>7, <1>8, <1>9

\* A worker takes a job that no run has.
LEMMA FetchShape ==
  ASSUME ShapeInv, NEW w \in Workers, NEW j \in Jobs, Fetch(w, j)
  PROVE  ShapeInv'
  <1> USE DEF ShapeInv
  <1> DEFINE x == [IdleRun EXCEPT !.pc = "load", !.job = j, !.post = job[j].post]
             y == [job[j] EXCEPT !.state = "running", !.tries = @ + 1]
  <1>1. w \in Runs /\ job[j] \in JobState /\ job[j].post \in Posts
    BY DEF Runs, Fetch, TypeOK, JobsInv
  <1>2. x \in RunState /\ y \in JobState
    <2>1. <<>> \in Seq(Platforms) /\ {} \subseteq Nat /\ job[j].tries + 1 \in Nat
      BY <1>1 DEF JobState
    <2>2. x \in RunState
      BY <1>1, <2>1 DEF IdleRun, RunState, PCs
    <2>3. y \in JobState
      BY <1>1, <2>1 DEF JobState
    <2> QED
      BY <2>2, <2>3
  <1>3. run' = [run EXCEPT ![w] = x] /\ job' = [job EXCEPT ![j] = y]
    BY DEF Fetch, TypeOK
  <1>4. /\ x.pc = "load" /\ x.job = j /\ x.post = job[j].post /\ x.failed = {}
        /\ y.state = "running" /\ y.post = job[j].post
    BY <1>1 DEF IdleRun, JobState
  <1>5. job[j].state = "available"
    BY DEF Fetch
  <1> HIDE DEF x, y
  <1>6. run' \in [Runs -> RunState] /\ job' \in [Jobs -> JobState]
    BY <1>1, <1>2, <1>3 DEF TypeOK
  <1>7. TypeOK' /\ ListsInv'
    BY <1>6 DEF Fetch, TypeOK, ListsInv, rows, world
  <1>8. JobsInv'
    BY <1>1, <1>3, <1>4 DEF JobsInv, TypeOK
  <1>9. \A q \in Runs : run[q].job # j
    BY <1>5 DEF RunInv
  <1>10. OneRunPerJob'
    BY <1>1, <1>3, <1>4, <1>9 DEF OneRunPerJob, TypeOK
  <1>11. RunInv(w)'
    BY <1>1, <1>3, <1>4 DEF RunInv, TypeOK
  <1>12. ASSUME NEW q \in Runs, q # w
         PROVE  RunInv(q)'
    <2>1. run'[q] = run[q] /\ RunInv(q)
      BY <1>3, <1>12 DEF TypeOK
    <2>2. run[q].job \in Jobs => job'[run[q].job] = job[run[q].job]
      BY <1>3, <1>9 DEF TypeOK
    <2> QED
      BY <2>1, <2>2 DEF RunInv
  <1> QED
    BY <1>7, <1>8, <1>10, <1>11, <1>12

LEMMA CrashShape ==
  ASSUME ShapeInv, Crash
  PROVE  ShapeInv'
  <1> USE DEF ShapeInv
  <1>1. /\ run' = [r \in Runs |-> IdleRun]
        /\ UNCHANGED <<status, platforms, scheduledAt, okRows, failRows, now,
                       delivered, jobSent>>
    BY DEF Crash, rows, world
  <1>2. ASSUME NEW j \in Jobs
        PROVE  /\ job'[j] \in JobState
               /\ job'[j].post = job[j].post
               /\ job'[j].state # "none" => job[j].state # "none"
    <2>1. job[j] \in JobState
      BY DEF TypeOK
    <2>2. job'[j] \in {job[j], [job[j] EXCEPT !.state = "available"],
                       [job[j] EXCEPT !.state = "discarded"]}
          /\ (job'[j] # job[j] => job[j].state = "running")
      BY DEF Crash, AfterError
    <2> QED
      BY <2>1, <2>2 DEF JobState
  <1>3. job' \in [Jobs -> JobState]
    BY <1>2 DEF Crash
  <1>4. TypeOK' /\ ListsInv'
    BY <1>1, <1>3, IdleIsRunState DEF TypeOK, ListsInv
  <1>5. JobsInv'
    BY <1>2 DEF JobsInv
  <1>6. OneRunPerJob' /\ \A r \in Runs : RunInv(r)'
    BY <1>1, NoneAssumption DEF OneRunPerJob, RunInv, IdleRun
  <1> QED
    BY <1>4, <1>5, <1>6

LEMMA ShapeNext == ShapeInv /\ [Next]_vars => ShapeInv'
  <1> SUFFICES ASSUME ShapeInv, [Next]_vars PROVE ShapeInv'
    OBVIOUS
  <1>1. CASE Request
    BY <1>1, RequestShape
  <1>2. ASSUME NEW w \in Workers, NEW j \in Jobs, Fetch(w, j)
        PROVE  ShapeInv'
    BY <1>2, FetchShape
  <1>3. ASSUME NEW r \in Runs, Continue(r)
        PROVE  ShapeInv'
    BY <1>3, StartShape, LoopShape DEF Continue
  <1>4. CASE Tick
    <2>1. TypeOK'
      BY <1>4 DEF Tick, ShapeInv, TypeOK, rows, world
    <2> QED
      BY <1>4, <2>1 DEF Tick, ShapeInv, rows, ListsInv, JobsInv, OneRunPerJob, RunInv
  <1>5. CASE Crash
    BY <1>5, CrashShape
  <1>6. CASE UNCHANGED vars
    <2>1. TypeOK'
      BY <1>6 DEF vars, ShapeInv, TypeOK, rows, world
    <2> QED
      BY <1>6, <2>1 DEF vars, ShapeInv, rows, ListsInv, JobsInv, OneRunPerJob, RunInv
  <1> QED
    BY <1>1, <1>2, <1>3, <1>4, <1>5, <1>6 DEF Next

THEOREM Shape == Spec => []ShapeInv
  <1>1. Init => ShapeInv
    BY ShapeInit
  <1>2. ShapeInv /\ [Next]_vars => ShapeInv'
    BY ShapeNext
  <1> QED
    BY <1>1, <1>2, PTL DEF Spec

\* Every variable keeps its type, whatever requests, workers and faults do.
THEOREM TypeCorrect == Spec => []TypeOK
  <1>1. ShapeInv => TypeOK
    BY DEF ShapeInv
  <1> QED
    BY <1>1, Shape, PTL

-----------------------------------------------------------------------------
(***************************************************************************)
(* What is out is committed.                                               *)
(***************************************************************************)

\* Every step keeps a committed post committed and its target list as it is.
LEMMA CommittedStep ==
  ASSUME ShapeInv, CommitInv, [Next]_vars, NEW p \in Posts,
         status[p] \in Committed
  PROVE  status'[p] \in Committed /\ platforms'[p] = platforms[p]
  <1> USE DEF ShapeInv, TypeOK, Committed
  <1>1. CASE Request
    BY <1>1 DEF Request, Create, Update, Unschedule, DeleteRead, Publish, ScheduleRow,
                Editable, Unschedulable, BackToDraft, rows
  <1>2. ASSUME NEW w \in Workers, NEW j \in Jobs, Fetch(w, j)
        PROVE  UNCHANGED <<status, platforms>>
    BY <1>2 DEF Fetch, rows
  <1>3. ASSUME NEW r \in Runs, Continue(r)
        PROVE  status'[p] \in Committed /\ platforms'[p] = platforms[p]
    <2>1. CASE DeleteRow(r)
      BY <2>1 DEF DeleteRow, Editable, rows
    <2>2. CASE EnqueueFails(r)
      BY <2>2 DEF EnqueueFails, BackToDraft, Unschedulable, rows
    <2>3. CASE Mark(r)
      BY <2>3 DEF Mark, rows
    <2>4. CASE Conclude(r)
      BY <2>4 DEF Conclude, Outcome
    <2>5. CASE \/ \E j \in Jobs : EnqueueJob(r, j)
               \/ Load(r) \/ SendOk(r) \/ SendFails(r) \/ SendLost(r)
               \/ RecordSuccess(r) \/ RecordFailures(r)
      BY <2>5 DEF EnqueueJob, Load, SendOk, SendFails, SendLost, RecordSuccess,
                  RecordFailures, rows
    <2> QED
      BY <1>3, <2>1, <2>2, <2>3, <2>4, <2>5 DEF Continue
  <1>4. CASE Tick \/ Crash \/ UNCHANGED vars
    BY <1>4 DEF Tick, Crash, vars, rows
  <1> QED
    BY <1>1, <1>2, <1>3, <1>4 DEF Next

\* Only a run that is sending changes what is out.
LEMMA WorldStep ==
  ASSUME [Next]_vars
  PROVE  \/ UNCHANGED <<delivered, jobSent>>
         \/ \E r \in Runs : /\ SendOk(r) \/ SendLost(r)
                            /\ run[r].pc = "send"
                            /\ Deliver(r)
  <1>1. CASE Request
    BY <1>1 DEF Request, Create, Update, Unschedule, DeleteRead, Publish, ScheduleRow, world
  <1>2. CASE \E w \in Workers, j \in Jobs : Fetch(w, j)
    BY <1>2 DEF Fetch, world
  <1>3. ASSUME NEW r \in Runs, Continue(r)
        PROVE  \/ UNCHANGED <<delivered, jobSent>>
               \/ /\ SendOk(r) \/ SendLost(r)
                  /\ run[r].pc = "send"
                  /\ Deliver(r)
    BY <1>3 DEF Continue, DeleteRow, EnqueueFails, EnqueueJob, Load, Mark, SendOk,
                SendFails, SendLost, RecordSuccess, RecordFailures, Conclude, world
  <1>4. CASE Tick \/ Crash \/ UNCHANGED vars
    BY <1>4 DEF Tick, Crash, vars, world
  <1> QED
    BY <1>1, <1>2, <1>3, <1>4 DEF Next

\* A run that is publishing after a step was publishing before it, the same
\* post, or has just marked it.
LEMMA RunStep ==
  ASSUME ShapeInv, [Next]_vars, NEW r \in Runs, run'[r].pc \in Publishing
  PROVE  /\ run'[r].post = run[r].post
         /\ \/ run[r].pc \in Publishing
            \/ Mark(r) /\ status'[run[r].post] = "publishing"
  <1> USE DEF ShapeInv, TypeOK
  <1>1. CASE Request
    <2>1. ASSUME NEW h \in Http, NEW x, x.pc \notin Publishing,
                 run' = [run EXCEPT ![h] = x]
          PROVE  run'[r] = run[r]
      BY <2>1 DEF Runs
    <2>2. ASSUME NEW h \in Http, NEW p \in Posts, DeleteRead(h, p)
          PROVE  run'[r] = run[r]
      BY <2>1, <2>2 DEF DeleteRead, IdleRun, Publishing
    <2>3. ASSUME NEW h \in Http, NEW p \in Posts, Publish(h, p)
          PROVE  run'[r] = run[r]
      BY <2>1, <2>3 DEF Publish, TakeSnapshot, IdleRun, Publishing
    <2>4. ASSUME NEW h \in Http, NEW p \in Posts, NEW t \in 1..MaxTime,
                 ScheduleRow(h, p, t)
          PROVE  run'[r] = run[r]
      BY <2>1, <2>4 DEF ScheduleRow, IdleRun, Publishing
    <2>5. ASSUME NEW p \in Posts, NEW l \in Lists,
                 Create(p, l) \/ Update(p, l)
          PROVE  run'[r] = run[r]
      BY <2>5 DEF Create, Update
    <2>6. ASSUME NEW p \in Posts, Unschedule(p)
          PROVE  run'[r] = run[r]
      BY <2>6 DEF Unschedule
    <2>7. run'[r] = run[r]
      BY <1>1, <2>2, <2>3, <2>4, <2>5, <2>6 DEF Request
    <2> QED
      BY <2>7
  <1>2. ASSUME NEW w \in Workers, NEW j \in Jobs, Fetch(w, j)
        PROVE  run'[r] = run[r]
    BY <1>2 DEF Fetch, IdleRun, Publishing, Runs
  <1>3. ASSUME NEW q \in Runs, Continue(q)
        PROVE  /\ run'[r].post = run[r].post
               /\ \/ run[r].pc \in Publishing
                  \/ Mark(r) /\ status'[run[r].post] = "publishing"
    <2>1. CASE q # r
      <3>1. run'[r] = run[r]
        BY <1>3, <2>1
           DEF Continue, DeleteRow, EnqueueFails, EnqueueJob, Load, Mark, TakeSnapshot,
               Return, SendOk, SendFails, SendLost, Advance, RecordSuccess,
               RecordFailures, Conclude
      <3> QED
        BY <3>1
    <2>2. CASE q = r
      <3>1. CASE \/ DeleteRow(r) \/ EnqueueFails(r)
                 \/ \E j \in Jobs : EnqueueJob(r, j)
                 \/ Load(r)
        <4>1. ASSUME NEW x, x.pc \notin Publishing, run' = [run EXCEPT ![r] = x]
              PROVE  FALSE
          BY <4>1
        <4>2. CASE Load(r)
          BY <4>1, <4>2 DEF Load, TakeSnapshot, Return, IdleRun, Publishing
        <4> QED
          BY <3>1, <4>1, <4>2 DEF DeleteRow, EnqueueFails, EnqueueJob, IdleRun, Publishing
      <3>2. CASE Mark(r)
        <4>1. run[r].post \in Posts
          BY <3>2 DEF Mark, RunInv
        <4> QED
          BY <3>2, <4>1 DEF Mark, Return, IdleRun, Publishing, RunState
      <3>3. CASE SendOk(r) \/ RecordFailures(r)
        BY <3>3 DEF SendOk, RecordFailures, Publishing, RunState
      <3>4. CASE SendFails(r) \/ SendLost(r) \/ RecordSuccess(r)
        BY <3>4 DEF SendFails, SendLost, RecordSuccess, Advance, Publishing, RunState
      <3>5. CASE Conclude(r)
        BY <3>5 DEF Conclude, Return, IdleRun, Publishing
      <3> QED
        BY <1>3, <2>2, <3>1, <3>2, <3>3, <3>4, <3>5 DEF Continue
    <2> QED
      BY <2>1, <2>2
  <1>4. CASE Tick \/ Crash \/ UNCHANGED vars
    BY <1>4 DEF Tick, Crash, vars, IdleRun, Publishing
  <1> QED
    BY <1>1, <1>2, <1>3, <1>4 DEF Next

\* A job keeps its post, and stays in the table.
LEMMA JobStep ==
  ASSUME ShapeInv, [Next]_vars, NEW j \in Jobs, job[j].state # "none"
  PROVE  job'[j].state # "none" /\ job'[j].post = job[j].post
  <1> USE DEF ShapeInv, TypeOK
  <1>0. job[j] \in JobState
    OBVIOUS
  <1>1. CASE Request
    BY <1>1 DEF Request, Create, Update, Unschedule, DeleteRead, Publish, ScheduleRow
  <1>2. ASSUME NEW w \in Workers, NEW k \in Jobs, Fetch(w, k)
        PROVE  job'[j].state # "none" /\ job'[j].post = job[j].post
    BY <1>0, <1>2 DEF Fetch, JobState
  <1>3. ASSUME NEW r \in Runs, Continue(r)
        PROVE  job'[j].state # "none" /\ job'[j].post = job[j].post
    <2>1. CASE \E ok \in BOOLEAN : Return(r, ok)
      BY <2>1, ReturnEffect
    <2>2. CASE \E k \in Jobs : EnqueueJob(r, k)
      BY <2>2 DEF EnqueueJob, UnusedJobs, InsertJob
    <2>3. CASE UNCHANGED job
      BY <2>3
    <2> QED
      BY <1>3, <2>1, <2>2, <2>3
         DEF Continue, DeleteRow, EnqueueFails, Load, Mark, SendOk, SendFails, SendLost,
             RecordSuccess, RecordFailures, Conclude
  <1>4. CASE Tick \/ UNCHANGED vars
    BY <1>4 DEF Tick, vars
  <1>5. CASE Crash
    BY <1>0, <1>5 DEF Crash, AfterError, JobState
  <1> QED
    BY <1>1, <1>2, <1>3, <1>4, <1>5 DEF Next

LEMMA CommitNext == ShapeInv /\ CommitInv /\ [Next]_vars => CommitInv'
  <1> SUFFICES ASSUME ShapeInv, CommitInv, [Next]_vars PROVE CommitInv'
    OBVIOUS
  <1>1. \A r \in Runs : run'[r].pc \in Publishing => status'[run'[r].post] \in Committed
    <2> SUFFICES ASSUME NEW r \in Runs, run'[r].pc \in Publishing
                 PROVE  status'[run[r].post] \in Committed
      BY RunStep
    <2>1. CASE run[r].pc \in Publishing
      <3>1. run[r].post \in Posts /\ status[run[r].post] \in Committed
        BY <2>1 DEF ShapeInv, RunInv, CommitInv, Publishing
      <3> QED
        BY <3>1, CommittedStep
    <2> QED
      BY <2>1, RunStep DEF Committed
  <1>2. NothingSentUncommitted'
    <2> SUFFICES ASSUME NEW p \in Posts, delivered'[p] # {}
                 PROVE  status'[p] \in Committed
      BY DEF NothingSentUncommitted
    <2>1. status[p] \in Committed
      <3>1. CASE UNCHANGED delivered
        BY <3>1 DEF CommitInv, NothingSentUncommitted
      <3>2. ASSUME NEW r \in Runs, run[r].pc = "send", Deliver(r)
            PROVE  status[p] \in Committed
        BY <3>2 DEF Deliver, CommitInv, NothingSentUncommitted, Publishing, ShapeInv, TypeOK
      <3> QED
        BY <3>1, <3>2, WorldStep
    <2> QED
      BY <2>1, CommittedStep
  <1>3. ASSUME NEW j \in Jobs, jobSent'[j] # {}
        PROVE  job'[j].state # "none" /\ status'[job'[j].post] \in Committed
    <2>1. job[j].state # "none" /\ status[job[j].post] \in Committed
      <3>1. CASE UNCHANGED jobSent
        BY <1>3, <3>1 DEF CommitInv
      <3>2. ASSUME NEW r \in Runs, run[r].pc = "send", Deliver(r)
            PROVE  job[j].state # "none" /\ status[job[j].post] \in Committed
        <4>1. CASE j = run[r].job
          BY <3>2, <4>1 DEF CommitInv, Publishing, ShapeInv, RunInv
        <4>2. CASE j # run[r].job
          BY <1>3, <3>2, <4>2 DEF Deliver, CommitInv
        <4> QED
          BY <4>1, <4>2
      <3> QED
        BY <3>1, <3>2, WorldStep
    <2>2. job[j].post \in Posts
      BY <2>1 DEF ShapeInv, JobsInv
    <2> QED
      BY <2>1, <2>2, JobStep, CommittedStep
  <1> QED
    BY <1>1, <1>2, <1>3 DEF CommitInv

THEOREM Commit == Spec => [](ShapeInv /\ CommitInv)
  <1>1. Init => CommitInv
    BY DEF Init, CommitInv, NothingSentUncommitted, IdleRun, Publishing
  <1>2. ShapeInv /\ CommitInv /\ [Next]_vars => CommitInv'
    BY CommitNext
  <1> QED
    BY <1>1, <1>2, Shape, PTL DEF Spec

\* Whatever is on a platform belongs to a post that can no longer be edited,
\* cancelled or deleted.
THEOREM SentIsCommitted == Spec => []NothingSentUncommitted
  <1>1. CommitInv => NothingSentUncommitted
    BY DEF CommitInv
  <1> QED
    BY <1>1, Commit, PTL

\* A committed post stays committed, and keeps its target platforms.
THEOREM CommittedForGood == Spec => CommittedStays
  <1>1. ShapeInv /\ CommitInv /\ [Next]_vars =>
          [\A p \in Posts : status[p] \in Committed =>
              status'[p] \in Committed /\ platforms'[p] = platforms[p]]_vars
    BY CommittedStep
  <1> QED
    BY <1>1, Commit, PTL DEF Spec, CommittedStays

-----------------------------------------------------------------------------
(***************************************************************************)
(* A job posts to no place twice, and what a run claims is out.            *)
(***************************************************************************)

\* The steps that leave a run in its loop, or about to begin it.
OwnStep(r) ==
    \/ /\ r \in Http
       /\ \E p \in Posts : Publish(r, p)
    \/ /\ run[r].pc = "load" /\ status[run[r].post] \in Executable
       /\ TakeSnapshot(r, run[r].post, run[r].job)
    \/ /\ run[r].pc = "mark" /\ run' = [run EXCEPT ![r].pc = "send"]
    \/ SendOk(r) \/ SendFails(r) \/ SendLost(r) \/ RecordSuccess(r)
    \/ RecordFailures(r)

LEMMA Steps ==
  ASSUME ShapeInv, [Next]_vars, NEW r \in Runs,
         run'[r].pc \in Publishing \cup {"mark"}
  PROVE  run'[r] = run[r] \/ OwnStep(r)
  <1> USE DEF ShapeInv, TypeOK
  <1>a. ASSUME NEW q \in Runs, NEW x, x.pc \notin Publishing \cup {"mark"},
               run' = [run EXCEPT ![q] = x]
        PROVE  run'[r] = run[r]
    BY <1>a
  <1>1. CASE Request
    <2>1. ASSUME NEW h \in Http, NEW p \in Posts, DeleteRead(h, p)
          PROVE  run'[r] = run[r]
      BY <1>a, <2>1 DEF DeleteRead, IdleRun, Publishing, Runs
    <2>2. ASSUME NEW h \in Http, NEW p \in Posts, Publish(h, p)
          PROVE  run'[r] = run[r] \/ OwnStep(r)
      <3>1. CASE h = r
        BY <2>2, <3>1 DEF OwnStep
      <3>2. CASE h # r
        BY <2>2, <3>2 DEF Publish, TakeSnapshot, Runs
      <3> QED
        BY <3>1, <3>2
    <2>3. ASSUME NEW h \in Http, NEW p \in Posts, NEW t \in 1..MaxTime,
                 ScheduleRow(h, p, t)
          PROVE  run'[r] = run[r]
      BY <1>a, <2>3 DEF ScheduleRow, IdleRun, Publishing, Runs
    <2>4. ASSUME NEW p \in Posts, NEW l \in Lists, Create(p, l) \/ Update(p, l)
          PROVE  run'[r] = run[r]
      BY <2>4 DEF Create, Update
    <2>5. ASSUME NEW p \in Posts, Unschedule(p)
          PROVE  run'[r] = run[r]
      BY <2>5 DEF Unschedule
    <2> QED
      BY <1>1, <2>1, <2>2, <2>3, <2>4, <2>5 DEF Request
  <1>2. ASSUME NEW w \in Workers, NEW j \in Jobs, Fetch(w, j)
        PROVE  run'[r] = run[r]
    BY <1>a, <1>2 DEF Fetch, IdleRun, Publishing, Runs
  <1>3. ASSUME NEW q \in Runs, Continue(q)
        PROVE  run'[r] = run[r] \/ OwnStep(r)
    <2>1. CASE q # r
      <3>1. run'[r] = run[r]
        BY <1>3, <2>1
           DEF Continue, DeleteRow, EnqueueFails, EnqueueJob, Load, Mark, TakeSnapshot,
               Return, SendOk, SendFails, SendLost, Advance, RecordSuccess,
               RecordFailures, Conclude
      <3> QED
        BY <3>1
    <2>2. CASE q = r
      <3>1. CASE \/ DeleteRow(r) \/ EnqueueFails(r)
                 \/ \E j \in Jobs : EnqueueJob(r, j)
                 \/ \E ok \in BOOLEAN : Return(r, ok)
        <4>1. run' = [run EXCEPT ![r] = IdleRun]
          BY <3>1 DEF DeleteRow, EnqueueFails, EnqueueJob, Return
        <4> QED
          BY <1>a, <4>1 DEF IdleRun, Publishing
      <3>2. CASE Load(r)
        BY <3>1, <3>2 DEF Load, OwnStep
      <3>3. CASE Mark(r)
        BY <3>1, <3>3 DEF Mark, OwnStep
      <3>4. CASE Conclude(r)
        BY <3>1, <3>4 DEF Conclude
      <3> QED
        BY <1>3, <2>2, <3>1, <3>2, <3>3, <3>4 DEF Continue, OwnStep
    <2> QED
      BY <2>1, <2>2
  <1>4. CASE Tick \/ UNCHANGED vars
    BY <1>4 DEF Tick, vars
  <1>5. CASE Crash
    BY <1>5 DEF Crash, IdleRun, Publishing
  <1> QED
    BY <1>1, <1>2, <1>3, <1>4, <1>5 DEF Next

\* What the own steps of a run do to its local state.
LEMMA OwnStepEffect ==
  ASSUME ShapeInv, NEW r \in Runs, OwnStep(r)
  PROVE  \/ /\ run'[r].pc = "mark" /\ run'[r].idx = 1
            /\ run'[r].job = IF r \in Http THEN None ELSE run[r].job
            /\ r \in Workers => /\ run[r].pc = "load"
                                /\ status[run[r].post] \in Executable
         \/ /\ run[r].pc = "mark" /\ run' = [run EXCEPT ![r].pc = "send"]
            /\ run'[r] = [run[r] EXCEPT !.pc = "send"]
         \/ /\ SendOk(r)
            /\ run'[r] = [run[r] EXCEPT !.pc = "record"]
         \/ /\ SendFails(r) \/ SendLost(r)
            /\ run'[r] = [run[r] EXCEPT !.idx = @ + 1,
                             !.failed = run[r].failed \cup {run[r].idx},
                             !.pc = IF run[r].idx < Len(run[r].list)
                                    THEN "send" ELSE "conclude"]
         \/ /\ RecordSuccess(r)
            /\ run'[r] = [run[r] EXCEPT !.idx = @ + 1, !.failed = run[r].failed,
                             !.pc = IF run[r].idx < Len(run[r].list)
                                    THEN "send" ELSE "conclude"]
         \/ /\ RecordFailures(r)
            /\ run'[r] = [run[r] EXCEPT !.pc = "final"]
  <1> USE DEF ShapeInv, TypeOK
  <1>1. ASSUME r \in Http, NEW p \in Posts, Publish(r, p)
        PROVE  run'[r].pc = "mark" /\ run'[r].idx = 1 /\ run'[r].job = None
               /\ r \notin Workers
    BY <1>1, RunsAssumption DEF Publish, TakeSnapshot, IdleRun
  <1>2. CASE /\ run[r].pc = "load" /\ status[run[r].post] \in Executable
             /\ TakeSnapshot(r, run[r].post, run[r].job)
    <2>1. run'[r].pc = "mark" /\ run'[r].idx = 1 /\ run'[r].job = run[r].job
      BY <1>2 DEF TakeSnapshot, IdleRun
    <2>2. run[r].job \in Jobs \cup {None} /\ (run[r].job \in Jobs => r \in Workers)
      BY DEF RunState, RunInv
    <2> QED
      BY <1>2, <2>1, <2>2, RunsAssumption
  <1>3. CASE run[r].pc = "mark" /\ run' = [run EXCEPT ![r].pc = "send"]
    BY <1>3
  <1>4. CASE SendOk(r) \/ RecordFailures(r)
    BY <1>4 DEF SendOk, RecordFailures
  <1>5. CASE SendFails(r) \/ SendLost(r) \/ RecordSuccess(r)
    BY <1>5 DEF SendFails, SendLost, RecordSuccess, Advance
  <1> QED
    BY <1>1, <1>2, <1>3, <1>4, <1>5 DEF OwnStep

LEMMA JobNext == ShapeInv /\ CommitInv /\ JobInv /\ [Next]_vars => JobInv'
  <1> SUFFICES ASSUME ShapeInv, CommitInv, JobInv, [Next]_vars,
                      NEW w \in Workers, run'[w].pc \in {"mark", "send", "record"}
               PROVE  /\ run'[w].pc = "mark" => jobSent'[run'[w].job] = {}
                      /\ run'[w].pc = "send" =>
                            \A i \in jobSent'[run'[w].job] : i < run'[w].idx
                      /\ run'[w].pc = "record" =>
                            \A i \in jobSent'[run'[w].job] : i <= run'[w].idx
    BY DEF JobInv
  <1>1. w \in Runs /\ run[w] \in RunState /\ RunInv(w)
    BY DEF Runs, ShapeInv, TypeOK
  <1>2. run[w].pc # "idle" => run[w].job \in Jobs
    BY <1>1 DEF RunInv
  \* Another run does not post for the job of w.
  <1>3. ASSUME run[w].pc # "idle", ~(SendOk(w) \/ SendLost(w))
        PROVE  jobSent'[run[w].job] = jobSent[run[w].job]
    <2>1. CASE UNCHANGED jobSent
      BY <2>1
    <2>2. ASSUME NEW q \in Runs, q # w, Deliver(q)
          PROVE  jobSent'[run[w].job] = jobSent[run[w].job]
      BY <1>1, <1>2, <1>3, <2>2 DEF Deliver, ShapeInv, OneRunPerJob
    <2> QED
      BY <1>3, <2>1, <2>2, WorldStep
  <1>4. CASE run'[w] = run[w]
    <2>1. ~(SendOk(w) \/ SendLost(w))
      BY <1>1, <1>4 DEF SendOk, SendLost, Advance, ShapeInv, TypeOK, RunState
    <2> QED
      BY <1>1, <1>3, <1>4, <2>1 DEF JobInv
  <1>5. CASE OwnStep(w)
    <2>1. jobSent[run[w].job] \subseteq Nat /\ run[w].idx \in Nat
          /\ run[w].job \in Jobs /\ run[w].pc # "idle"
      <3>1. run[w].pc # "idle"
        BY <1>5, <1>1, RunsAssumption
           DEF OwnStep, SendOk, SendFails, SendLost, RecordSuccess, RecordFailures
      <3> QED
        BY <1>1, <1>2, <3>1 DEF ShapeInv, TypeOK, RunState
    <2>2. CASE /\ run'[w].pc = "mark" /\ run'[w].job = run[w].job
               /\ run[w].pc = "load" /\ status[run[w].post] \in Executable
      <3>1. jobSent'[run[w].job] = jobSent[run[w].job]
        BY <1>3, <2>2 DEF SendOk, SendLost
      <3>2. jobSent[run[w].job] = {}
        BY <1>1, <2>1, <2>2 DEF CommitInv, RunInv, Executable, Committed
      <3> QED
        BY <2>2, <3>1, <3>2
    <2>3. CASE run[w].pc = "mark" /\ run'[w] = [run[w] EXCEPT !.pc = "send"]
      <3>1. jobSent'[run[w].job] = jobSent[run[w].job]
        BY <1>3, <2>3 DEF SendOk, SendLost
      <3> QED
        BY <1>1, <2>3, <3>1 DEF JobInv, RunState
    <2>4. CASE SendOk(w) /\ run'[w] = [run[w] EXCEPT !.pc = "record"]
      <3>1. /\ run'[w].idx = run[w].idx /\ run'[w].job = run[w].job
            /\ run'[w].pc = "record"
        BY <1>1, <2>4 DEF RunState
      <3>2. /\ jobSent'[run[w].job] \subseteq jobSent[run[w].job] \cup {run[w].idx}
            /\ run[w].pc = "send"
        BY <2>1, <2>4 DEF SendOk, Deliver
      <3>3. \A i \in jobSent[run[w].job] : i < run[w].idx
        BY <3>2 DEF JobInv
      <3> QED
        BY <2>1, <3>1, <3>2, <3>3
    <2>5. CASE /\ SendFails(w) \/ SendLost(w)
               /\ run'[w] = [run[w] EXCEPT !.idx = @ + 1,
                             !.failed = run[w].failed \cup {run[w].idx},
                             !.pc = IF run[w].idx < Len(run[w].list)
                                    THEN "send" ELSE "conclude"]
      <3>1. /\ run'[w].idx = run[w].idx + 1 /\ run'[w].job = run[w].job
            /\ run'[w].pc \in {"send", "conclude"}
        BY <1>1, <2>5 DEF RunState
      <3>2. jobSent'[run[w].job] \subseteq jobSent[run[w].job] \cup {run[w].idx}
        BY <1>3, <2>1, <2>5 DEF SendLost, Deliver, SendOk, SendFails
      <3>3. run[w].pc = "send"
        BY <2>5 DEF SendFails, SendLost
      <3>4. \A i \in jobSent[run[w].job] : i < run[w].idx
        BY <3>3 DEF JobInv
      <3> QED
        BY <2>1, <3>1, <3>2, <3>4
    <2>6. CASE /\ RecordSuccess(w)
               /\ run'[w] = [run[w] EXCEPT !.idx = @ + 1, !.failed = run[w].failed,
                             !.pc = IF run[w].idx < Len(run[w].list)
                                    THEN "send" ELSE "conclude"]
      <3>1. /\ run'[w].idx = run[w].idx + 1 /\ run'[w].job = run[w].job
            /\ run'[w].pc \in {"send", "conclude"}
        BY <1>1, <2>6 DEF RunState
      <3>2. jobSent'[run[w].job] = jobSent[run[w].job] /\ run[w].pc = "record"
        BY <1>3, <2>6 DEF RecordSuccess, SendOk, SendLost
      <3>3. \A i \in jobSent[run[w].job] : i <= run[w].idx
        BY <3>2 DEF JobInv
      <3> QED
        BY <2>1, <3>1, <3>2, <3>3
    <2>7. CASE run'[w] = [run[w] EXCEPT !.pc = "final"]
      BY <1>1, <2>7 DEF RunState
    <2> QED
      BY <1>1, <1>5, <2>2, <2>3, <2>4, <2>5, <2>6, <2>7, OwnStepEffect, RunsAssumption
  <1> QED
    BY <1>1, <1>4, <1>5, Steps DEF Publishing

\* The attempts that river makes at one job, however many and whatever ends
\* them, never post twice to one place of the platform list.
THEOREM JobsSendOnce == Spec => []JobSendsOnce
  <1>1. Init => JobInv
    BY DEF Init, JobInv, IdleRun, Runs
  <1>2. ShapeInv /\ CommitInv /\ JobInv /\ [Next]_vars => JobInv'
    BY JobNext
  <1>3. ShapeInv /\ JobInv => JobSendsOnce
    <2> SUFFICES ASSUME ShapeInv, JobInv, NEW w \in Workers, run[w].pc = "send"
                 PROVE  run[w].idx \notin jobSent[run[w].job]
      BY DEF JobSendsOnce
    <2>1. run[w].idx \in Nat
      BY DEF ShapeInv, TypeOK, RunState, Runs
    <2> QED
      BY <2>1 DEF JobInv
  <1> QED
    BY <1>1, <1>2, <1>3, Commit, PTL DEF Spec

-----------------------------------------------------------------------------

LEMMA DeliveredGrows ==
  ASSUME ShapeInv, [Next]_vars, NEW p \in Posts
  PROVE  delivered[p] \subseteq delivered'[p]
  BY WorldStep DEF Deliver, ShapeInv, TypeOK

\* A success row is written by the run that has just posted.
LEMMA RowStep ==
  ASSUME ShapeInv, [Next]_vars, NEW p \in Posts
  PROVE  \/ okRows'[p] \subseteq okRows[p]
         \/ \E r \in Runs : /\ run[r].pc = "record" /\ run[r].post = p
                            /\ okRows'[p] = okRows[p] \cup {PlatformAt(r)}
  <1> USE DEF ShapeInv, TypeOK
  <1>1. CASE Request
    BY <1>1 DEF Request, Create, Update, Unschedule, BackToDraft, DeleteRead, Publish,
                ScheduleRow, rows
  <1>2. CASE \E w \in Workers, j \in Jobs : Fetch(w, j)
    BY <1>2 DEF Fetch, rows
  <1>3. ASSUME NEW r \in Runs, Continue(r)
        PROVE  \/ okRows'[p] \subseteq okRows[p]
               \/ /\ run[r].pc = "record" /\ run[r].post = p
                  /\ okRows'[p] = okRows[p] \cup {PlatformAt(r)}
    <2>1. CASE RecordSuccess(r)
      BY <2>1 DEF RecordSuccess
    <2>2. CASE DeleteRow(r)
      BY <2>2 DEF DeleteRow, rows
    <2>3. CASE ~(RecordSuccess(r) \/ DeleteRow(r))
      BY <1>3, <2>3
         DEF Continue, EnqueueFails, BackToDraft, EnqueueJob, Load, Mark, SendOk,
             SendFails, SendLost, RecordFailures, Conclude, rows
    <2> QED
      BY <2>1, <2>2, <2>3
  <1>4. CASE Tick \/ Crash \/ UNCHANGED vars
    BY <1>4 DEF Tick, Crash, vars, rows
  <1> QED
    BY <1>1, <1>2, <1>3, <1>4 DEF Next

LEMMA ClaimNext == ShapeInv /\ ClaimInv /\ [Next]_vars => ClaimInv'
  <1> SUFFICES ASSUME ShapeInv, ClaimInv, [Next]_vars PROVE ClaimInv'
    OBVIOUS
  <1>1. RowsAreTrue'
    <2> SUFFICES ASSUME NEW p \in Posts
                 PROVE  okRows'[p] \subseteq delivered'[p]
      BY DEF RowsAreTrue
    <2>1. okRows'[p] \subseteq delivered[p]
      BY RowStep DEF ClaimInv, RowsAreTrue
    <2> QED
      BY <2>1, DeliveredGrows
  <1>2. ASSUME NEW r \in Runs, run'[r].pc \in Publishing
        PROVE  /\ \A i \in 1..Len(run'[r].list) :
                     i < run'[r].idx /\ i \notin run'[r].failed =>
                        run'[r].list[i] \in delivered'[run'[r].post]
               /\ run'[r].pc = "record" =>
                     run'[r].list[run'[r].idx] \in delivered'[run'[r].post]
    <2>1. /\ run[r] \in RunState /\ RunInv(r)
          /\ Len(run[r].list) \in Nat /\ run[r].idx \in Nat
      BY DEF ShapeInv, TypeOK, RunState
    <2>2. /\ run'[r].post = run[r].post
          /\ run[r].pc \in Publishing \cup {"mark"}
      BY <1>2, RunStep DEF Mark
    <2>3. run[r].post \in Posts
      BY <2>1, <2>2 DEF RunInv, Publishing
    <2>4. delivered[run[r].post] \subseteq delivered'[run[r].post]
      BY <2>3, DeliveredGrows
    <2>5. /\ run[r].pc \in Publishing =>
               \A i \in 1..Len(run[r].list) :
                  i < run[r].idx /\ i \notin run[r].failed =>
                     run[r].list[i] \in delivered'[run[r].post]
          /\ run[r].pc = "record" =>
               run[r].list[run[r].idx] \in delivered'[run[r].post]
      BY <2>4 DEF ClaimInv, PlatformAt
    <2>6. CASE run'[r] = run[r]
      BY <1>2, <2>5, <2>6
    <2>7. CASE run[r].pc = "mark" /\ run'[r] = [run[r] EXCEPT !.pc = "send"]
      BY <2>1, <2>7 DEF RunState, RunInv
    <2>8. CASE SendOk(r) /\ run'[r] = [run[r] EXCEPT !.pc = "record"]
      <3>1. /\ run'[r].list = run[r].list /\ run'[r].idx = run[r].idx
            /\ run'[r].failed = run[r].failed
        BY <2>1, <2>8 DEF RunState
      <3>2. run[r].list[run[r].idx] \in delivered'[run[r].post]
        BY <2>3, <2>8 DEF SendOk, Deliver, PlatformAt, ShapeInv, TypeOK
      <3>3. run[r].pc \in Publishing
        BY <2>8 DEF SendOk, Publishing
      <3> QED
        BY <2>2, <2>5, <3>1, <3>2, <3>3
    <2>9. ASSUME run[r].pc \in {"send", "record"},
                 run'[r].list = run[r].list, run'[r].idx = run[r].idx + 1,
                 run'[r].pc \in {"send", "conclude"},
                 run[r].failed \subseteq run'[r].failed,
                 run[r].pc = "send" => run[r].idx \in run'[r].failed
          PROVE  /\ \A i \in 1..Len(run'[r].list) :
                       i < run'[r].idx /\ i \notin run'[r].failed =>
                          run'[r].list[i] \in delivered'[run'[r].post]
                 /\ run'[r].pc = "record" =>
                       run'[r].list[run'[r].idx] \in delivered'[run'[r].post]
      <3>1. run[r].pc \in Publishing
        BY <2>9 DEF Publishing
      <3>2. ASSUME NEW i \in 1..Len(run[r].list), i < run[r].idx + 1,
                   i \notin run'[r].failed
            PROVE  run[r].list[i] \in delivered'[run[r].post]
        <4>1. CASE i < run[r].idx
          BY <2>5, <2>9, <3>1, <3>2, <4>1
        <4>2. CASE i = run[r].idx
          BY <2>5, <2>9, <3>2, <4>2
        <4> QED
          BY <2>1, <3>2, <4>1, <4>2
      <3> QED
        BY <2>2, <2>9, <3>2
    <2>10. CASE /\ SendFails(r) \/ SendLost(r)
                /\ run'[r] = [run[r] EXCEPT !.idx = @ + 1,
                             !.failed = run[r].failed \cup {run[r].idx},
                             !.pc = IF run[r].idx < Len(run[r].list)
                                    THEN "send" ELSE "conclude"]
      <3>1. run[r].pc = "send"
        BY <2>10 DEF SendFails, SendLost
      <3>2. /\ run'[r].list = run[r].list /\ run'[r].idx = run[r].idx + 1
            /\ run'[r].pc \in {"send", "conclude"}
            /\ run'[r].failed = run[r].failed \cup {run[r].idx}
        BY <2>1, <2>10 DEF RunState
      <3> QED
        BY <2>9, <3>1, <3>2
    <2>11. CASE /\ RecordSuccess(r)
                /\ run'[r] = [run[r] EXCEPT !.idx = @ + 1, !.failed = run[r].failed,
                             !.pc = IF run[r].idx < Len(run[r].list)
                                    THEN "send" ELSE "conclude"]
      <3>1. run[r].pc = "record"
        BY <2>11 DEF RecordSuccess
      <3>2. /\ run'[r].list = run[r].list /\ run'[r].idx = run[r].idx + 1
            /\ run'[r].pc \in {"send", "conclude"}
            /\ run'[r].failed = run[r].failed
        BY <2>1, <2>11 DEF RunState
      <3> QED
        BY <2>9, <3>1, <3>2
    <2>12. CASE RecordFailures(r) /\ run'[r] = [run[r] EXCEPT !.pc = "final"]
      <3>1. /\ run'[r].list = run[r].list /\ run'[r].idx = run[r].idx
            /\ run'[r].failed = run[r].failed /\ run'[r].pc = "final"
        BY <2>1, <2>12 DEF RunState
      <3>2. run[r].pc \in Publishing
        BY <2>12 DEF RecordFailures, Publishing
      <3> QED
        BY <2>2, <2>5, <3>1, <3>2
    <2>13. run'[r].pc # "mark"
      BY <1>2 DEF Publishing
    <2> QED
      BY <1>2, <2>6, <2>7, <2>8, <2>10, <2>11, <2>12, <2>13, Steps, OwnStepEffect
  <1> QED
    BY <1>1, <1>2 DEF ClaimInv, PlatformAt, Publishing

THEOREM Claim == Spec => [](ShapeInv /\ ClaimInv)
  <1>1. Init => ClaimInv
    BY DEF Init, ClaimInv, RowsAreTrue, IdleRun, Publishing
  <1>2. ShapeInv /\ ClaimInv /\ [Next]_vars => ClaimInv'
    BY ClaimNext
  <1> QED
    BY <1>1, <1>2, Shape, PTL DEF Spec

\* A success row names a platform that has the post.
THEOREM RowsNeverLie == Spec => []RowsAreTrue
  <1>1. ClaimInv => RowsAreTrue
    BY DEF ClaimInv
  <1> QED
    BY <1>1, Claim, PTL

\* Only the end of a run makes a post published.
LEMMA PublishedStep ==
  ASSUME ShapeInv, [Next]_vars, NEW p \in Posts,
         status[p] # "published", status'[p] = "published"
  PROVE  \E r \in Runs : /\ run[r].pc = "final" /\ run[r].post = p
                         /\ run[r].failed = {}
  <1> USE DEF ShapeInv, TypeOK
  <1>1. CASE Request
    BY <1>1 DEF Request, Create, Update, Unschedule, BackToDraft, DeleteRead, Publish,
                ScheduleRow, rows
  <1>2. CASE \E w \in Workers, j \in Jobs : Fetch(w, j)
    BY <1>2 DEF Fetch, rows
  <1>3. ASSUME NEW r \in Runs, Continue(r)
        PROVE  /\ run[r].pc = "final" /\ run[r].post = p
               /\ run[r].failed = {}
    <2>1. CASE Conclude(r)
      BY <2>1 DEF Conclude, Outcome
    <2>2. CASE DeleteRow(r)
      BY <2>2 DEF DeleteRow, rows
    <2>3. CASE Mark(r)
      BY <2>3 DEF Mark, rows
    <2>4. CASE ~(Conclude(r) \/ DeleteRow(r) \/ Mark(r))
      BY <1>3, <2>4
         DEF Continue, EnqueueFails, BackToDraft, EnqueueJob, Load, SendOk,
             SendFails, SendLost, RecordSuccess, RecordFailures, rows
    <2> QED
      BY <2>1, <2>2, <2>3, <2>4
  <1>4. CASE Tick \/ Crash \/ UNCHANGED vars
    BY <1>4 DEF Tick, Crash, vars, rows
  <1> QED
    BY <1>1, <1>2, <1>3, <1>4 DEF Next

\* A post becomes published only when every platform its run read has it.
THEOREM PublishedIsOut == Spec => PublishedWasSent
  <1>1. ASSUME ShapeInv, ClaimInv, [Next]_vars, NEW p \in Posts,
               status[p] # "published", status'[p] = "published"
        PROVE  \E r \in Runs : /\ run[r].post = p
                               /\ PlatformsOf(run[r].list) \subseteq delivered[p]
    <2>1. PICK r \in Runs : /\ run[r].pc = "final" /\ run[r].post = p
                            /\ run[r].failed = {}
      BY <1>1, PublishedStep
    <2>2. Len(run[r].list) \in Nat /\ run[r].idx = Len(run[r].list) + 1
      BY <1>1, <2>1 DEF ShapeInv, TypeOK, RunState, RunInv
    <2>3. \A i \in 1..Len(run[r].list) : run[r].list[i] \in delivered[p]
      BY <1>1, <2>1, <2>2 DEF ClaimInv, Publishing
    <2> QED
      BY <2>1, <2>3 DEF PlatformsOf
  <1>2. ShapeInv /\ ClaimInv /\ [Next]_vars =>
          [\A p \in Posts : status[p] # "published" /\ status'[p] = "published" =>
              \E r \in Runs : /\ run[r].post = p
                              /\ PlatformsOf(run[r].list) \subseteq delivered[p]]_vars
    BY <1>1
  <1> QED
    BY <1>2, Claim, PTL DEF Spec, PublishedWasSent

-----------------------------------------------------------------------------
(***************************************************************************)
(* Publishing implements its lifecycle.                                    *)
(***************************************************************************)

\* The moves of a status.  A post is published only when it is out.
StatusMove(p, s) ==
    \/ status[p] = "none" /\ s = "draft"
    \/ status[p] \in {"draft", "scheduled"} /\ s \in {"draft", "scheduled", "deleted"}
    \/ status[p] \in {"draft", "scheduled"} \cup Committed /\ s = "publishing"
    \/ status[p] \in Committed /\ s = "failed"
    \/ status[p] \in Committed /\ s = "published" /\ delivered[p] # {}

\* A step makes at most one move, and does not post in the same step.
LEMMA StatusStep ==
  ASSUME ShapeInv, CommitInv, ClaimInv, [Next]_vars
  PROVE  \/ UNCHANGED status
         \/ /\ UNCHANGED delivered
            /\ \E p \in Posts, s \in Statuses :
                  status' = [status EXCEPT ![p] = s] /\ StatusMove(p, s)
  <1> USE DEF ShapeInv, TypeOK
  <1>1. CASE Request
    BY <1>1 DEF Request, Create, Update, Unschedule, BackToDraft, DeleteRead, Publish,
                ScheduleRow, rows, world, Unschedulable, Statuses, StatusMove
  <1>2. CASE \E w \in Workers, j \in Jobs : Fetch(w, j)
    BY <1>2 DEF Fetch, rows
  <1>3. ASSUME NEW r \in Runs, Continue(r)
        PROVE  \/ UNCHANGED status
               \/ /\ UNCHANGED delivered
                  /\ \E s \in Statuses :
                        /\ run[r].post \in Posts
                        /\ status' = [status EXCEPT ![run[r].post] = s]
                        /\ StatusMove(run[r].post, s)
    <2>0. run[r].pc # "idle" => run[r].post \in Posts
      BY DEF RunInv
    <2>1. CASE DeleteRow(r)
      BY <2>0, <2>1 DEF DeleteRow, Editable, rows, world, Statuses, StatusMove
    <2>2. CASE EnqueueFails(r)
      BY <2>0, <2>2 DEF EnqueueFails, BackToDraft, Unschedulable, rows, world, Statuses,
                        StatusMove
    <2>3. CASE Mark(r)
      BY <2>0, <2>3 DEF Mark, RowExists, rows, world, Statuses, StatusMove, Committed
    <2>4. CASE Conclude(r)
      <3>1. run[r].pc = "final" /\ run[r].post \in Posts
        BY <2>0, <2>4 DEF Conclude
      <3>2. status[run[r].post] \in Committed
        BY <3>1 DEF CommitInv, Publishing
      <3>3. run[r].failed = {} => delivered[run[r].post] # {}
        <4>1. ASSUME run[r].failed = {} PROVE delivered[run[r].post] # {}
          <5>1. /\ Len(run[r].list) \in Nat
                /\ run[r].idx = Len(run[r].list) + 1
                /\ run[r] \in RunState /\ RunInv(r)
            BY <3>1 DEF RunState, RunInv
          <5>2. 1 \in 1..Len(run[r].list) /\ 1 < run[r].idx
            BY <3>1, <5>1 DEF RunInv
          <5>3. run[r].list[1] \in delivered[run[r].post]
            BY <3>1, <4>1, <5>1, <5>2 DEF ClaimInv, Publishing
          <5> QED
            BY <5>3
        <4> QED
          BY <4>1
      <3>4. Outcome(r) \in Statuses
        BY DEF Outcome, Statuses
      <3>5. StatusMove(run[r].post, Outcome(r))
        BY <3>2, <3>3 DEF StatusMove, Outcome
      <3> QED
        BY <2>4, <3>1, <3>4, <3>5 DEF Conclude, world
    <2>5. CASE \/ \E j \in Jobs : EnqueueJob(r, j)
               \/ Load(r) \/ SendOk(r) \/ SendFails(r) \/ SendLost(r)
               \/ RecordSuccess(r) \/ RecordFailures(r)
      BY <2>5 DEF EnqueueJob, Load, SendOk, SendFails, SendLost, RecordSuccess,
                  RecordFailures, rows
    <2> QED
      BY <1>3, <2>1, <2>2, <2>3, <2>4, <2>5 DEF Continue
  <1>4. CASE Tick \/ Crash \/ UNCHANGED vars
    BY <1>4 DEF Tick, Crash, vars, rows
  <1> QED
    BY <1>1, <1>2, <1>3, <1>4 DEF Next

LEMMA LifecycleStep ==
  ASSUME ShapeInv, CommitInv, ClaimInv, [Next]_vars
  PROVE  [Lifecycle!LifecycleNext]_(Lifecycle!lifecycleVars)
  <1> USE DEF ShapeInv, TypeOK
  <1> DEFINE phase == [p \in Posts |-> Phase(status[p])]
  <1>1. ASSUME UNCHANGED status, UNCHANGED delivered
        PROVE  UNCHANGED Lifecycle!lifecycleVars
    BY <1>1 DEF Lifecycle!lifecycleVars
  <1>2. ASSUME UNCHANGED delivered, NEW p \in Posts, NEW s \in Statuses,
               status' = [status EXCEPT ![p] = s], StatusMove(p, s)
        PROVE  Lifecycle!LifecycleNext \/ UNCHANGED Lifecycle!lifecycleVars
    <2>1. phase' = [phase EXCEPT ![p] = Phase(s)]
      BY <1>2
    <2>2. phase[p] = Phase(status[p])
      OBVIOUS
    <2>3. CASE status[p] = "none" /\ s = "draft"
      <3>1. phase[p] = "unwritten" /\ Phase(s) = "open"
        BY <2>2, <2>3 DEF Phase
      <3>2. Lifecycle!Write(p)
        BY <1>2, <2>1, <3>1 DEF Lifecycle!Write
      <3> QED
        BY <3>2 DEF Lifecycle!LifecycleNext
    <2>4. CASE status[p] \in {"draft", "scheduled"} /\ s \in {"draft", "scheduled"}
      <3>1. phase[p] = Phase(s)
        BY <2>2, <2>4 DEF Phase
      <3>2. phase' = phase
        BY <2>1, <3>1
      <3> QED
        BY <1>2, <3>2 DEF Lifecycle!lifecycleVars
    <2>5. CASE status[p] \in {"draft", "scheduled"} /\ s = "deleted"
      <3>1. phase[p] = "open" /\ Phase(s) = "gone"
        BY <2>2, <2>5 DEF Phase
      <3>2. Lifecycle!Discard(p)
        BY <1>2, <2>1, <3>1 DEF Lifecycle!Discard
      <3> QED
        BY <3>2 DEF Lifecycle!LifecycleNext
    <2>6. CASE status[p] \in {"draft", "scheduled"} \cup Committed /\ s = "publishing"
      <3>1. phase[p] \in {"open", "pending", "published", "failed"} /\ Phase(s) = "pending"
        BY <2>2, <2>6 DEF Phase, Committed
      <3>2. Lifecycle!Begin(p)
        BY <1>2, <2>1, <3>1 DEF Lifecycle!Begin, Lifecycle!Begun
      <3> QED
        BY <3>2 DEF Lifecycle!LifecycleNext
    <2>7. CASE /\ status[p] \in Committed /\ s \in {"published", "failed"}
               /\ s = "published" => delivered[p] # {}
      <3>1. phase[p] \in {"pending", "published", "failed"} /\ Phase(s) = s
        BY <2>2, <2>7 DEF Phase, Committed
      <3>2. Lifecycle!Settle(p, s)
        BY <1>2, <2>1, <2>7, <3>1 DEF Lifecycle!Settle, Lifecycle!Begun
      <3> QED
        BY <2>7, <3>2 DEF Lifecycle!LifecycleNext
    <2> QED
      BY <1>2, <2>3, <2>4, <2>5, <2>6, <2>7 DEF StatusMove
  <1>3. ASSUME UNCHANGED status, NEW r \in Runs, run[r].pc = "send", Deliver(r)
        PROVE  Lifecycle!LifecycleNext
    <2>1. /\ run[r].post \in Posts /\ status[run[r].post] \in Committed
          /\ PlatformAt(r) \in Platforms
      <3>1. run[r] \in RunState /\ RunInv(r)
        OBVIOUS
      <3>2. run[r].list \in Seq(Platforms) /\ run[r].idx \in 1..Len(run[r].list)
        BY <1>3, <3>1 DEF RunState, RunInv
      <3> QED
        BY <1>3, <3>1, <3>2 DEF RunInv, CommitInv, Publishing, PlatformAt
    <2>2. phase[run[r].post] \in {"pending", "published", "failed"}
      BY <2>1 DEF Phase, Committed
    <2>3. Lifecycle!Send(run[r].post, PlatformAt(r))
      BY <1>3, <2>2 DEF Lifecycle!Send, Lifecycle!Begun, Deliver
    <2> QED
      BY <2>1, <2>3 DEF Lifecycle!LifecycleNext
  <1>4. ASSUME NEW r \in Runs, SendOk(r) \/ SendLost(r)
        PROVE  UNCHANGED status
    BY <1>4 DEF SendOk, SendLost, rows
  <1>5. CASE UNCHANGED delivered
    BY <1>1, <1>2, <1>5, StatusStep
  <1>6. ASSUME NEW r \in Runs, SendOk(r) \/ SendLost(r), run[r].pc = "send", Deliver(r)
        PROVE  Lifecycle!LifecycleNext
    BY <1>3, <1>4, <1>6
  <1> QED
    BY <1>5, <1>6, WorldStep

\* Publishing implements its lifecycle: whatever requests, workers, faults and
\* crashes do, each step is a step of the lifecycle or invisible to it.
THEOREM LifecycleImplemented == Spec => ImplementsLifecycle
  <1>1. Init => Lifecycle!LifecycleInit
    BY DEF Init, Lifecycle!LifecycleInit, Phase
  <1>2. ShapeInv /\ CommitInv /\ ClaimInv /\ [Next]_vars =>
          [Lifecycle!LifecycleNext]_(Lifecycle!lifecycleVars)
    BY LifecycleStep
  <1> QED
    BY <1>1, <1>2, Commit, Claim, PTL DEF Spec, ImplementsLifecycle, Lifecycle!LifecycleSpec

-----------------------------------------------------------------------------
(***************************************************************************)
(* The results tell what became of a post.                                 *)
(***************************************************************************)

\* While the process lives, only its own steps change a run under way.
LEMMA RunKeeps ==
  ASSUME ShapeInv, [Next]_vars, "crash" \notin Faults,
         NEW r \in Runs, run[r].pc # "idle"
  PROVE  run'[r] = run[r] \/ Continue(r)
  <1> USE DEF ShapeInv, TypeOK
  <1>1. CASE Request
    BY <1>1 DEF Request, Create, Update, Unschedule, DeleteRead, Publish, TakeSnapshot,
                ScheduleRow
  <1>2. ASSUME NEW w \in Workers, NEW j \in Jobs, Fetch(w, j)
        PROVE  run'[r] = run[r]
    BY <1>2 DEF Fetch
  <1>3. ASSUME NEW q \in Runs, Continue(q), q # r
        PROVE  run'[r] = run[r]
    BY <1>3 DEF Continue, DeleteRow, EnqueueFails, EnqueueJob, Load, Mark, TakeSnapshot,
                Return, SendOk, SendFails, SendLost, Advance, RecordSuccess,
                RecordFailures, Conclude
  <1>4. CASE Tick \/ UNCHANGED vars
    BY <1>4 DEF Tick, vars
  <1> QED
    BY <1>1, <1>2, <1>3, <1>4 DEF Next, Crash

\* The rows of the results stay, but for those of a post that is deleted.
LEMMA ResultsStay ==
  ASSUME ShapeInv, [Next]_vars, NEW p \in Posts
  PROVE  \/ okRows[p] \subseteq okRows'[p] /\ failRows[p] \subseteq failRows'[p]
         \/ status[p] \in {"draft", "scheduled"} /\ status'[p] = "deleted"
  <1> USE DEF ShapeInv, TypeOK
  <1>1. CASE Request
    BY <1>1 DEF Request, Create, Update, Unschedule, BackToDraft, DeleteRead, Publish,
                ScheduleRow, rows
  <1>2. CASE \E w \in Workers, j \in Jobs : Fetch(w, j)
    BY <1>2 DEF Fetch, rows
  <1>3. ASSUME NEW r \in Runs, Continue(r)
        PROVE  \/ okRows[p] \subseteq okRows'[p] /\ failRows[p] \subseteq failRows'[p]
               \/ status[p] \in {"draft", "scheduled"} /\ status'[p] = "deleted"
    <2>1. CASE DeleteRow(r)
      BY <2>1 DEF DeleteRow, Editable, rows
    <2>2. CASE RecordSuccess(r)
      BY <2>2 DEF RecordSuccess
    <2>3. CASE RecordFailures(r)
      BY <2>3 DEF RecordFailures
    <2>4. CASE ~(DeleteRow(r) \/ RecordSuccess(r) \/ RecordFailures(r))
      BY <1>3, <2>4
         DEF Continue, EnqueueFails, BackToDraft, EnqueueJob, Load, Mark, SendOk,
             SendFails, SendLost, Conclude, rows
    <2> QED
      BY <2>1, <2>2, <2>3, <2>4
  <1>4. CASE Tick \/ Crash \/ UNCHANGED vars
    BY <1>4 DEF Tick, Crash, vars, rows
  <1> QED
    BY <1>1, <1>2, <1>3, <1>4 DEF Next

LEMMA UnrecordedNext ==
  ASSUME Faults \cap {"db", "crash", "lost"} = {},
         ShapeInv, CommitInv, NothingUnrecorded, [Next]_vars
  PROVE  NothingUnrecorded'
  <1> SUFFICES ASSUME NEW p \in Posts, NEW x \in delivered'[p], x \notin okRows'[p]
               PROVE  \E r \in Runs : /\ run'[r].pc = "record" /\ run'[r].post = p
                                      /\ run'[r].list[run'[r].idx] = x
    BY DEF NothingUnrecorded, Busy, PlatformAt
  <1> USE DEF ShapeInv, TypeOK
  \* What is out before the step has a row, or a run that is about to write it.
  <1>1. ASSUME x \in delivered[p]
        PROVE  \E r \in Runs : /\ run'[r].pc = "record" /\ run'[r].post = p
                               /\ run'[r].list[run'[r].idx] = x
    <2>1. status[p] \in Committed
      BY <1>1 DEF CommitInv, NothingSentUncommitted
    <2>2. x \notin okRows[p]
      BY <2>1, ResultsStay DEF Committed
    <2>3. PICK r \in Runs : /\ run[r].pc = "record" /\ run[r].post = p
                            /\ run[r].list[run[r].idx] = x
      BY <1>1, <2>2 DEF NothingUnrecorded, Busy, PlatformAt
    <2>4. ~RecordSuccess(r)
      <3>1. SUFFICES ASSUME RecordSuccess(r) PROVE FALSE
        OBVIOUS
      <3>2. RowExists(p)
        BY <2>1 DEF RowExists, Committed
      <3>3. x \in okRows'[p]
        BY <2>3, <3>1, <3>2 DEF RecordSuccess, PlatformAt
      <3> QED
        BY <3>3
    <2>5. ~Continue(r)
      BY <2>3, <2>4
         DEF Continue, DeleteRow, EnqueueFails, EnqueueJob, Load, Mark, SendOk,
             SendFails, SendLost, RecordFailures, Conclude
    <2>6. run'[r] = run[r]
      BY <2>3, <2>5, RunKeeps
    <2> QED
      BY <2>3, <2>6
  <1>2. ASSUME x \notin delivered[p], NEW r \in Runs, SendOk(r), run[r].pc = "send",
               Deliver(r)
        PROVE  /\ run'[r].pc = "record" /\ run'[r].post = p
               /\ run'[r].list[run'[r].idx] = x
    <2>1. run[r].post = p /\ x = run[r].list[run[r].idx]
      BY <1>2 DEF Deliver, PlatformAt
    <2>2. run[r] \in RunState /\ run'[r] = [run[r] EXCEPT !.pc = "record"]
      BY <1>2 DEF SendOk
    <2> QED
      BY <2>1, <2>2 DEF RunState
  <1>3. ASSUME NEW r \in Runs
        PROVE  ~SendLost(r)
    BY DEF SendLost
  <1> QED
    BY <1>1, <1>2, <1>3, WorldStep

\* A run that has recorded its failures has left a failure row.
ReasonInv ==
    /\ FailedHasReason
    /\ \A r \in Runs : run[r].pc = "final" /\ run[r].failed # {} =>
          failRows[run[r].post] # {}

LEMMA ReasonNext ==
  ASSUME "db" \notin Faults, ShapeInv, CommitInv, ReasonInv, [Next]_vars
  PROVE  ReasonInv'
  <1> USE DEF ShapeInv, TypeOK
  <1>1. ASSUME NEW p \in Posts, status[p] \in Committed, failRows[p] # {}
        PROVE  failRows'[p] # {}
    BY <1>1, ResultsStay DEF Committed
  <1>2. ASSUME NEW r \in Runs, run'[r].pc = "final", run'[r].failed # {}
        PROVE  failRows'[run'[r].post] # {}
    <2>1. /\ run[r] \in RunState /\ RunInv(r)
          /\ Len(run[r].list) \in Nat
      BY DEF RunState
    <2>2. run'[r] = run[r] \/ RecordFailures(r)
      BY <1>2, <2>1, Steps, OwnStepEffect DEF Publishing, RunState
    <2>3. CASE run'[r] = run[r]
      <3>1. run[r].post \in Posts /\ status[run[r].post] \in Committed
        BY <1>2, <2>1, <2>3 DEF RunInv, CommitInv, Publishing
      <3> QED
        BY <1>1, <1>2, <2>3, <3>1 DEF ReasonInv
    <2>4. CASE RecordFailures(r)
      <3>1. /\ run[r].pc = "conclude" /\ run[r].post \in Posts
            /\ status[run[r].post] \in Committed
        BY <2>1, <2>4 DEF RecordFailures, RunInv, CommitInv, Publishing
      <3>2. RowExists(run[r].post)
        BY <3>1 DEF RowExists, Committed
      <3>3. run'[r].failed = run[r].failed /\ run'[r].post = run[r].post
        BY <2>1, <2>4 DEF RecordFailures, RunState
      <3>4. FailedPlatforms(r) # {} /\ FailedPlatforms(r) \subseteq Platforms
        <4>1. run[r].list \in Seq(Platforms) /\ run[r].failed \subseteq 1..Len(run[r].list)
          BY <2>1 DEF RunState, RunInv
        <4>2. PICK i : i \in run[r].failed
          BY <1>2, <3>3
        <4>3. run[r].list[i] \in FailedPlatforms(r)
          BY <4>2 DEF FailedPlatforms
        <4>4. FailedPlatforms(r) \subseteq Platforms
          BY <4>1 DEF FailedPlatforms
        <4> QED
          BY <4>3, <4>4
      <3>5. failRows'[run[r].post] = failRows[run[r].post] \cup FailedPlatforms(r)
        BY <2>4, <3>1, <3>2 DEF RecordFailures, FailuresWritten
      <3> QED
        BY <3>3, <3>4, <3>5
    <2> QED
      BY <2>2, <2>3, <2>4
  <1>3. ASSUME NEW p \in Posts, status'[p] = "failed"
        PROVE  failRows'[p] # {}
    <2>1. CASE status[p] = "failed"
      BY <1>1, <2>1 DEF ReasonInv, FailedHasReason, Committed
    <2>2. ASSUME status[p] # "failed"
          PROVE  \E r \in Runs : /\ Conclude(r) /\ run[r].post = p
                                 /\ status' = [status EXCEPT ![p] = Outcome(r)]
      <3>1. CASE Request
        BY <1>3, <2>2, <3>1
           DEF Request, Create, Update, Unschedule, BackToDraft, DeleteRead, Publish,
               ScheduleRow, rows
      <3>2. CASE \E w \in Workers, j \in Jobs : Fetch(w, j)
        BY <1>3, <2>2, <3>2 DEF Fetch, rows
      <3>3. ASSUME NEW r \in Runs, Continue(r)
            PROVE  /\ Conclude(r) /\ run[r].post = p
                   /\ status' = [status EXCEPT ![p] = Outcome(r)]
        <4>1. CASE Conclude(r)
          BY <1>3, <2>2, <4>1 DEF Conclude
        <4>2. CASE ~Conclude(r)
          BY <1>3, <2>2, <3>3, <4>2
             DEF Continue, DeleteRow, EnqueueFails, BackToDraft, EnqueueJob, Load, Mark,
                 SendOk, SendFails, SendLost, RecordSuccess, RecordFailures, rows
        <4> QED
          BY <4>1, <4>2
      <3>4. CASE Tick \/ Crash \/ UNCHANGED vars
        BY <1>3, <2>2, <3>4 DEF Tick, Crash, vars, rows
      <3> QED
        BY <3>1, <3>2, <3>3, <3>4 DEF Next
    <2>3. ASSUME NEW r \in Runs, Conclude(r), run[r].post = p,
                 status' = [status EXCEPT ![p] = Outcome(r)]
          PROVE  failRows'[p] # {}
      <3>1. run[r].pc = "final" /\ run[r].failed # {} /\ failRows' = failRows
        BY <1>3, <2>3 DEF Conclude, Outcome
      <3> QED
        BY <2>3, <3>1 DEF ReasonInv
    <2> QED
      BY <2>1, <2>2, <2>3
  <1> QED
    BY <1>2, <1>3 DEF ReasonInv, FailedHasReason

\* While statements succeed, the process lives and platforms answer, the
\* results tell what became of every post on every platform.
THEOREM OutcomesAreRecorded ==
  ASSUME Faults \cap {"db", "crash", "lost"} = {}
  PROVE  Spec => []OutcomesRecorded
  <1> DEFINE RecordInv == NothingUnrecorded /\ ReasonInv
  <1>1. Init => RecordInv
    BY DEF Init, NothingUnrecorded, ReasonInv, FailedHasReason, IdleRun
  <1>2. ShapeInv /\ CommitInv /\ RecordInv /\ [Next]_vars => RecordInv'
    BY UnrecordedNext, ReasonNext
  <1>3. RecordInv => OutcomesRecorded
    BY DEF ReasonInv, OutcomesRecorded
  <1> HIDE DEF RecordInv
  <1> QED
    BY <1>1, <1>2, <1>3, Commit, PTL DEF Spec

-----------------------------------------------------------------------------
(***************************************************************************)
(* A scheduled post is not left behind.                                    *)
(***************************************************************************)

\* A job that waits goes on waiting, or a worker takes it.
LEMMA JobWaits ==
  ASSUME ShapeInv, [Next]_vars, NEW j \in Jobs, job[j].state = "available"
  PROVE  job'[j] = job[j] \/ \E w \in Workers : Fetch(w, j)
  <1> USE DEF ShapeInv, TypeOK
  <1>1. CASE Request
    BY <1>1 DEF Request, Create, Update, Unschedule, DeleteRead, Publish, ScheduleRow
  <1>2. ASSUME NEW w \in Workers, NEW k \in Jobs, Fetch(w, k), k # j
        PROVE  job'[j] = job[j]
    BY <1>2 DEF Fetch
  <1>3. ASSUME NEW r \in Runs, Continue(r)
        PROVE  job'[j] = job[j]
    <2>1. ASSUME NEW ok \in BOOLEAN, Return(r, ok)
          PROVE  job'[j] = job[j]
      <3>1. run[r].job # j
        BY DEF RunInv
      <3> QED
        BY <2>1, <3>1 DEF Return
    <2>2. CASE \E k \in Jobs : EnqueueJob(r, k)
      BY <2>2 DEF EnqueueJob, UnusedJobs, InsertJob
    <2>3. CASE UNCHANGED job
      BY <2>3
    <2> QED
      BY <1>3, <2>1, <2>2, <2>3
         DEF Continue, DeleteRow, EnqueueFails, Load, Mark, SendOk, SendFails, SendLost,
             RecordSuccess, RecordFailures, Conclude
  <1>4. CASE Tick \/ Crash \/ UNCHANGED vars
    BY <1>4 DEF Tick, Crash, vars
  <1> QED
    BY <1>1, <1>2, <1>3, <1>4 DEF Next

LEMMA ScheduledNext ==
  ASSUME Faults \cap {"db", "crash"} = {}, ShapeInv, ScheduledHasJob, [Next]_vars
  PROVE  ScheduledHasJob'
  <1> USE DEF ShapeInv, TypeOK
  <1> DEFINE Waiting(p) == \E j \in Jobs : job[j].post = p /\ job[j].state = "available"
             UnderWay(p) == \E r \in Runs : /\ run[r].post = p
                                            /\ run[r].pc \in {"enqueue", "load", "mark"}
  <1> SUFFICES ASSUME NEW p \in Posts, status'[p] = "scheduled"
               PROVE  Waiting(p)' \/ UnderWay(p)'
    BY DEF ScheduledHasJob, Busy
  <1>1. ASSUME status[p] # "scheduled"
        PROVE  UnderWay(p)'
    <2>1. PICK h \in Http, t \in 1..MaxTime : ScheduleRow(h, p, t)
      <3>1. CASE Request
        BY <1>1, <3>1 DEF Request, Create, Update, Unschedule, BackToDraft, DeleteRead,
                          Publish, ScheduleRow, rows
      <3>2. CASE \E w \in Workers, j \in Jobs : Fetch(w, j)
        BY <1>1, <3>2 DEF Fetch, rows
      <3>3. CASE \E r \in Runs : Continue(r)
        BY <1>1, <3>3
           DEF Continue, DeleteRow, EnqueueFails, BackToDraft, EnqueueJob, Load, Mark,
               SendOk, SendFails, SendLost, RecordSuccess, RecordFailures, Conclude,
               Outcome, rows
      <3>4. CASE Tick \/ Crash \/ UNCHANGED vars
        BY <1>1, <3>4 DEF Tick, Crash, vars, rows
      <3> QED
        BY <3>1, <3>2, <3>3, <3>4 DEF Next
    <2>2. h \in Runs /\ run'[h].pc = "enqueue" /\ run'[h].post = p
      BY <2>1 DEF Runs, ScheduleRow, IdleRun
    <2> QED
      BY <2>2
  <1>2. ASSUME NEW j \in Jobs, job[j].post = p, job[j].state = "available"
        PROVE  Waiting(p)' \/ UnderWay(p)'
    <2>1. CASE job'[j] = job[j]
      BY <1>2, <2>1
    <2>2. ASSUME NEW w \in Workers, Fetch(w, j)
          PROVE  UnderWay(p)'
      <3>1. w \in Runs /\ run'[w].pc = "load" /\ run'[w].post = p
        BY <1>2, <2>2 DEF Runs, Fetch, IdleRun
      <3> QED
        BY <3>1
    <2> QED
      BY <1>2, <2>1, <2>2, JobWaits
  <1>3. ASSUME NEW r \in Runs, run[r].post = p, status[p] = "scheduled",
               run[r].pc \in {"enqueue", "load", "mark"}
        PROVE  Waiting(p)' \/ UnderWay(p)'
    <2>1. CASE run'[r] = run[r]
      BY <1>3, <2>1
    <2>2. ASSUME NEW j \in Jobs, EnqueueJob(r, j)
          PROVE  Waiting(p)'
      BY <1>3, <2>2 DEF EnqueueJob, InsertJob
    <2>3. CASE Load(r)
      <3>1. TakeSnapshot(r, p, run[r].job)
        BY <1>3, <2>3 DEF Load, Executable, RowExists
      <3>2. run'[r].pc = "mark" /\ run'[r].post = p
        BY <3>1 DEF TakeSnapshot, IdleRun
      <3> QED
        BY <3>2
    <2>4. ~Mark(r)
      BY <1>3 DEF Mark, RowExists, rows
    <2>5. CASE Continue(r)
      BY <1>3, <2>2, <2>3, <2>4, <2>5
         DEF Continue, DeleteRow, EnqueueFails, SendOk, SendFails, SendLost,
             RecordSuccess, RecordFailures, Conclude
    <2> QED
      BY <1>3, <2>1, <2>5, RunKeeps
  <1> QED
    BY <1>1, <1>2, <1>3 DEF ScheduledHasJob, Busy

\* While statements succeed and the process lives, no cancellation,
\* rescheduling, stale job or race leaves a scheduled post without a job.
THEOREM ScheduledHasAJob ==
  ASSUME Faults \cap {"db", "crash"} = {}
  PROVE  Spec => []ScheduledHasJob
  <1>1. Init => ScheduledHasJob
    BY DEF Init, ScheduledHasJob
  <1>2. ShapeInv /\ ScheduledHasJob /\ [Next]_vars => ScheduledHasJob'
    BY ScheduledNext
  <1> QED
    BY <1>1, <1>2, Shape, PTL DEF Spec
=============================================================================
