--------------------------- MODULE BackgroundWork ---------------------------
(***************************************************************************)
(* The background-work protocol of Lin-DB: how a write schedules a flush   *)
(* or a compaction on the thread of PosixEnv, how that thread runs it, and *)
(* how the destructor of a DBImpl waits for it (db/db_impl.cc 103-119,     *)
(* 158-196, 531-663 and util/env.cc 559-569, 642-654).                     *)
(*                                                                         *)
(* Every open DBImpl has one user thread; all of them share the queue and  *)
(* the single thread of Env::Default().  One action is one critical        *)
(* section of background_mu_ or background_work_mutex_, or one access to   *)
(* the fields no lock protects (mem_, imm_, the current Version).          *)
(*                                                                         *)
(* Data is abstracted to what the protocol reads: the number of entries of *)
(* mem_, whether imm_ is set, the number of level-0 files.  A step that    *)
(* uses memory another thread has freed has no defined outcome: it sets    *)
(* undefined, and nothing is claimed of what follows.                      *)
(***************************************************************************)
EXTENDS Naturals, SequencesExt

CONSTANTS
  DBs,           \* the DBImpl objects that share the Env
  MemLimit,      \* entries that fit in write_buffer_size
  L0Trigger,     \* kL0CompactionTrigger
  MaxWrites,     \* bound, for each DB: the writes its user starts
  NoDB           \* the worker has not run a task yet

ASSUME ConstantsAssumption ==
  /\ MemLimit \in Nat
  /\ L0Trigger \in Nat \ {0}
  /\ MaxWrites \in [DBs -> Nat]
  /\ NoDB \notin DBs

VARIABLES
  mem,             \* [DBs -> Nat] entries of mem_
  imm,             \* [DBs -> BOOLEAN] imm_ != nullptr
  l0,              \* [DBs -> Nat] level-0 files of the current Version
  shutting_down,   \* [DBs -> BOOLEAN]
  scheduled,       \* [DBs -> BOOLEAN] background_compaction_scheduled_
  running,         \* [DBs -> BOOLEAN] background_compaction_running_
  bg_error,        \* [DBs -> BOOLEAN] ~bg_error_.ok()
  user,            \* [DBs -> UserPC] where the user thread stands
  started,         \* [DBs -> Nat] writes started, for MaxWrites
  settled,         \* [DBs -> BOOLEAN] the latest Write, or Open, ran to its end
  queue,           \* background_work_queue_, its items' arg
  worker,          \* WorkerPC: where the thread of the Env stands
  job,             \* the DBImpl whose BackgroundCall the worker runs
  inputs,          \* level-0 files the running compaction took
  undefined        \* a freed object was used

memory  == <<mem, imm, l0>>
flags   == <<shutting_down, scheduled, running, bg_error>>
client  == <<user, started, settled>>
env     == <<queue, worker, job, inputs>>
vars    == <<memory, flags, client, env, undefined>>

(* Where a user thread stands: Write is flush and flushing (FlushMemTable  *)
(* before and after its test of imm_), log, maybe (MaybeScheduleCompaction,*)
(* where Open ends too), push and signal (Env::Schedule).                  *)
UserPC == {"idle", "flush", "flushing", "log", "maybe", "push", "signal",
           "waiting", "woken", "destroyed"}

(* The steps of BackgroundCall up to the section that clears both flags... *)
ExecutingPC == {"enter", "choose", "memtable", "flush", "flushing",
                "compact", "record", "clear"}
(* ...and those after it, which still use the DBImpl.                      *)
LeavingPC == {"maybe", "push", "signal", "notify"}
WorkerPC  == {"unstarted", "blocked", "look"} \cup ExecutingPC \cup LeavingPC

TypeOK ==
  /\ mem \in [DBs -> Nat] /\ imm \in [DBs -> BOOLEAN] /\ l0 \in [DBs -> Nat]
  /\ shutting_down \in [DBs -> BOOLEAN] /\ scheduled \in [DBs -> BOOLEAN]
  /\ running \in [DBs -> BOOLEAN] /\ bg_error \in [DBs -> BOOLEAN]
  /\ user \in [DBs -> UserPC] /\ started \in [DBs -> Nat]
  /\ settled \in [DBs -> BOOLEAN]
  /\ queue \in Seq(DBs) /\ worker \in WorkerPC /\ inputs \in Nat
  /\ job \in DBs \cup {NoDB}
  /\ worker \in ExecutingPC \cup LeavingPC => job \in DBs
  /\ undefined \in BOOLEAN

(* Every user stands at the last step of DBImpl::Open (db_impl.cc 361-364),*)
(* its MaybeScheduleCompaction: imm_ is null, and the recovered Version may*)
(* hold any number of level-0 files up to the trigger.                     *)
Init ==
  /\ mem = [d \in DBs |-> 0] /\ imm = [d \in DBs |-> FALSE]
  /\ l0 \in [DBs -> 0 .. L0Trigger]
  /\ shutting_down = [d \in DBs |-> FALSE] /\ scheduled = [d \in DBs |-> FALSE]
  /\ running = [d \in DBs |-> FALSE] /\ bg_error = [d \in DBs |-> FALSE]
  /\ user = [d \in DBs |-> "maybe"] /\ started = [d \in DBs |-> 0]
  /\ settled = [d \in DBs |-> FALSE]
  /\ queue = <<>> /\ worker = "unstarted" /\ job = NoDB /\ inputs = 0
  /\ undefined = FALSE

-----------------------------------------------------------------------------
(* Conditions and helpers shared by both threads.                          *)

NeedsCompaction(d) == l0[d] >= L0Trigger

NeedsWork(d) == imm[d] \/ NeedsCompaction(d)

(* Mutant of MaySchedule: the flag is not tested.                          *)
MayScheduleTwice(d) == ~shutting_down[d] /\ ~bg_error[d] /\ NeedsWork(d)

(* The tests of MaybeScheduleCompaction, under background_mu_.             *)
MaySchedule(d) ==
  /\ ~scheduled[d] /\ ~shutting_down[d] /\ ~bg_error[d]
  /\ NeedsWork(d)

(* Mutant of NoBackgroundTask: a task still in the queue is overlooked.    *)
NoRunningTask(d) == ~running[d]

(* The predicate the destructor waits for.                                 *)
NoBackgroundTask(d) == ~running[d] /\ ~scheduled[d]

(* A thread stands at pc and may go on.                                    *)
At(d, pc)    == user[d] = pc /\ ~undefined
WorkerAt(pc) == worker = pc /\ ~undefined

Goto(d, pc) == user' = [user EXCEPT ![d] = pc]

(* imm_ = std::move(mem_); mem_ = a new MemTable.                          *)
Rotate(d) ==
  /\ imm' = [imm EXCEPT ![d] = TRUE]
  /\ mem' = [mem EXCEPT ![d] = 0]

(* The successful end of FlushMemTable: the table is a level-0 file of the *)
(* new Version and imm_ is freed.                                          *)
InstallFlush(d) ==
  /\ l0' = [l0 EXCEPT ![d] = @ + 1]
  /\ imm' = [imm EXCEPT ![d] = FALSE]

(* Mutant of NotifyWorker: Schedule forgets to notify.                     *)
NotifyNobody == UNCHANGED worker

(* background_work_cv_.notify_one(): only the worker waits on it.          *)
NotifyWorker == worker' = IF worker = "blocked" THEN "look" ELSE worker

(* Mutant of NotifyAll: nobody is woken once the DB shuts down.            *)
NotifyAllIfOpen(d) ==
  IF user[d] = "waiting" /\ ~shutting_down[d] THEN Goto(d, "woken") ELSE UNCHANGED user

(* background_cv_.notify_all(): only the destructor waits on it.           *)
NotifyAll(d) == IF user[d] = "waiting" THEN Goto(d, "woken") ELSE UNCHANGED user

-----------------------------------------------------------------------------
(* The user thread: Write.                                                 *)

(* Write's entry and MakeRoomForWrite: flush a pending imm_, or rotate a   *)
(* full mem_ and flush it, or go straight to the log.                      *)
BeginWrite(d) ==
  /\ At(d, "idle") /\ started[d] < MaxWrites[d]
  /\ started' = [started EXCEPT ![d] = @ + 1]
  /\ settled' = [settled EXCEPT ![d] = FALSE]
  /\ \/ /\ imm[d]
        /\ Goto(d, "flush") /\ UNCHANGED <<mem, imm>>
     \/ /\ ~imm[d] /\ mem[d] <= MemLimit
        /\ Goto(d, "log") /\ UNCHANGED <<mem, imm>>
     \/ /\ ~imm[d] /\ mem[d] > MemLimit
        /\ Goto(d, "flush") /\ Rotate(d)
  /\ UNCHANGED <<l0, flags, env, undefined>>

(* FlushMemTable returns OK at once when the worker has reset imm_.        *)
UserFlushEnter(d) ==
  /\ At(d, "flush")
  /\ Goto(d, IF imm[d] THEN "flushing" ELSE "log")
  /\ UNCHANGED <<memory, flags, started, settled, env, undefined>>

(* BuildTable or LogAndApply failed: the write returns and keeps imm_.     *)
UserFlushFail(d) ==
  /\ At(d, "flushing")
  /\ Goto(d, "idle")
  /\ UNCHANGED <<memory, flags, started, settled, env, undefined>>

(* The flush succeeds.  If the worker is flushing the same imm_, the reset *)
(* frees the memtable the worker's iterator stands on.                     *)
UserFlushDone(d) ==
  /\ At(d, "flushing")
  /\ InstallFlush(d) /\ Goto(d, "log")
  /\ undefined' = (job = d /\ worker = "flushing")
  /\ UNCHANGED <<mem, flags, started, settled, env>>

(* AddRecord, Sync and InsertInto, all successful.                         *)
UserLog(d) ==
  /\ At(d, "log")
  /\ mem' = [mem EXCEPT ![d] = @ + 1] /\ Goto(d, "maybe")
  /\ UNCHANGED <<imm, l0, flags, started, settled, env, undefined>>

(* AddRecord or Sync failed: Write returns without scheduling anything.    *)
UserLogFail(d) ==
  /\ At(d, "log")
  /\ Goto(d, "idle")
  /\ UNCHANGED <<memory, flags, started, settled, env, undefined>>

(* MaybeScheduleCompaction, its critical section.                          *)
UserMaybeSchedule(d) ==
  /\ At(d, "maybe")
  /\ settled' = [settled EXCEPT ![d] = TRUE]
  /\ \/ /\ MaySchedule(d)
        /\ scheduled' = [scheduled EXCEPT ![d] = TRUE] /\ Goto(d, "push")
     \/ /\ ~MaySchedule(d)
        /\ UNCHANGED scheduled /\ Goto(d, "idle")
  /\ UNCHANGED <<memory, shutting_down, running, bg_error, started, env, undefined>>

(* Env::Schedule under background_work_mutex_: the first call starts the   *)
(* thread.                                                                 *)
UserPush(d) ==
  /\ At(d, "push")
  /\ queue' = Append(queue, d)
  /\ worker' = IF worker = "unstarted" THEN "look" ELSE worker
  /\ Goto(d, "signal")
  /\ UNCHANGED <<memory, flags, started, settled, job, inputs, undefined>>

UserSignal(d) ==
  /\ At(d, "signal")
  /\ NotifyWorker /\ Goto(d, "idle")
  /\ UNCHANGED <<memory, flags, started, settled, queue, job, inputs, undefined>>

-----------------------------------------------------------------------------
(* The user thread: the destructor.                                        *)

(* wait(lock, pred): return if pred holds, else release the lock and join  *)
(* the waiters, in one step.                                               *)
WaitForTask(d) == Goto(d, IF NoBackgroundTask(d) THEN "destroyed" ELSE "waiting")

BeginDestroy(d) ==
  /\ At(d, "idle")
  /\ shutting_down' = [shutting_down EXCEPT ![d] = TRUE]
  /\ WaitForTask(d)
  /\ UNCHANGED <<memory, scheduled, running, bg_error, started, settled, env, undefined>>

SpuriousWakeup(d) ==
  /\ At(d, "waiting")
  /\ Goto(d, "woken")
  /\ UNCHANGED <<memory, flags, started, settled, env, undefined>>

ResumeDestroy(d) ==
  /\ At(d, "woken")
  /\ WaitForTask(d)
  /\ UNCHANGED <<memory, flags, started, settled, env, undefined>>

-----------------------------------------------------------------------------
(* The thread of the Env: BackgroundThreadMain.                            *)

WorkerSleep ==
  /\ WorkerAt("look") /\ queue = <<>>
  /\ worker' = "blocked"
  /\ UNCHANGED <<memory, flags, client, queue, job, inputs, undefined>>

WorkerTake ==
  /\ WorkerAt("look") /\ queue # <<>>
  /\ job' = Head(queue) /\ queue' = Tail(queue) /\ worker' = "enter"
  /\ UNCHANGED <<memory, flags, client, inputs, undefined>>

(* BackgroundCall, its first critical section.                             *)
WorkerEnter ==
  /\ WorkerAt("enter")
  /\ running' = [running EXCEPT ![job] = TRUE]
  /\ worker' = IF ~shutting_down[job] /\ ~bg_error[job] THEN "choose" ELSE "clear"
  /\ UNCHANGED <<memory, shutting_down, scheduled, bg_error, client, queue, job,
                 inputs, undefined>>

(* Mutants of WorkerChoose: one input file too many; a compaction is       *)
(* picked only above the trigger at which it was scheduled.                *)
WorkerChooseTooMany ==
  /\ WorkerAt("choose")
  /\ \/ /\ imm[job] /\ worker' = "memtable" /\ UNCHANGED inputs
     \/ /\ ~imm[job] /\ NeedsCompaction(job)
        /\ worker' = "compact" /\ inputs' \in 1 .. l0[job] + 1
     \/ /\ ~imm[job] /\ ~NeedsCompaction(job)
        /\ worker' = "clear" /\ UNCHANGED inputs
  /\ UNCHANGED <<memory, flags, client, queue, job, undefined>>

WorkerChooseAboveTrigger ==
  /\ WorkerAt("choose")
  /\ \/ /\ imm[job] /\ worker' = "memtable" /\ UNCHANGED inputs
     \/ /\ ~imm[job] /\ l0[job] > L0Trigger
        /\ worker' = "compact" /\ inputs' \in 1 .. l0[job]
     \/ /\ ~imm[job] /\ l0[job] <= L0Trigger
        /\ worker' = "clear" /\ UNCHANGED inputs
  /\ UNCHANGED <<memory, flags, client, queue, job, undefined>>

(* BackgroundCompaction: an imm_ goes first, then PickCompaction, which    *)
(* yields nothing when no level is over its limit.                         *)
WorkerChoose ==
  /\ WorkerAt("choose")
  /\ \/ /\ imm[job] /\ worker' = "memtable" /\ UNCHANGED inputs
     \/ /\ ~imm[job] /\ NeedsCompaction(job)
        /\ worker' = "compact" /\ inputs' \in 1 .. l0[job]
     \/ /\ ~imm[job] /\ ~NeedsCompaction(job)
        /\ worker' = "clear" /\ UNCHANGED inputs
  /\ UNCHANGED <<memory, flags, client, queue, job, undefined>>

(* CompactMemTable tests imm_ again: if the user thread has flushed it in  *)
(* between, the worker rotates the live mem_.                              *)
WorkerMemTable ==
  /\ WorkerAt("memtable")
  /\ \/ /\ imm[job] /\ worker' = "flush" /\ UNCHANGED <<mem, imm>>
     \/ /\ ~imm[job] /\ mem[job] = 0
        /\ worker' = "clear" /\ UNCHANGED <<mem, imm>>
     \/ /\ ~imm[job] /\ mem[job] > 0
        /\ Rotate(job) /\ worker' = "flush"
  /\ UNCHANGED <<l0, flags, client, queue, job, inputs, undefined>>

WorkerFlushEnter ==
  /\ WorkerAt("flush")
  /\ worker' = IF imm[job] THEN "flushing" ELSE "clear"
  /\ UNCHANGED <<memory, flags, client, queue, job, inputs, undefined>>

WorkerFlushDone ==
  /\ WorkerAt("flushing")
  /\ InstallFlush(job) /\ worker' = "clear"
  /\ undefined' = (user[job] = "flushing")
  /\ UNCHANGED <<mem, flags, client, queue, job, inputs>>

(* RunCompaction: its edit removes the files it took.                      *)
WorkerCompactDone ==
  /\ WorkerAt("compact")
  /\ l0' = [l0 EXCEPT ![job] = @ - inputs] /\ worker' = "clear"
  /\ UNCHANGED <<mem, imm, flags, client, queue, job, inputs, undefined>>

WorkerFail ==
  /\ WorkerAt("flushing") \/ WorkerAt("compact")
  /\ worker' = "record"
  /\ UNCHANGED <<memory, flags, client, queue, job, inputs, undefined>>

RecordBackgroundError ==
  /\ WorkerAt("record")
  /\ bg_error' = [bg_error EXCEPT ![job] = TRUE] /\ worker' = "clear"
  /\ UNCHANGED <<memory, shutting_down, scheduled, running, client, queue, job,
                 inputs, undefined>>

(* Mutant of WorkerClear: BackgroundCall does not call                     *)
(* MaybeScheduleCompaction again.                                          *)
WorkerClearAndLeave ==
  /\ WorkerAt("clear")
  /\ running' = [running EXCEPT ![job] = FALSE]
  /\ scheduled' = [scheduled EXCEPT ![job] = FALSE]
  /\ worker' = "notify"
  /\ UNCHANGED <<memory, shutting_down, bg_error, client, queue, job, inputs, undefined>>

(* BackgroundCall, its last critical section.                              *)
WorkerClear ==
  /\ WorkerAt("clear")
  /\ running' = [running EXCEPT ![job] = FALSE]
  /\ scheduled' = [scheduled EXCEPT ![job] = FALSE]
  /\ worker' = "maybe"
  /\ UNCHANGED <<memory, shutting_down, bg_error, client, queue, job, inputs, undefined>>

(* The rest of BackgroundCall runs without the flags that hold the         *)
(* destructor back: if it has returned, these steps use a freed DBImpl.    *)
WorkerMaybeSchedule ==
  /\ WorkerAt("maybe") /\ user[job] # "destroyed"
  /\ \/ /\ MaySchedule(job)
        /\ scheduled' = [scheduled EXCEPT ![job] = TRUE] /\ worker' = "push"
     \/ /\ ~MaySchedule(job)
        /\ UNCHANGED scheduled /\ worker' = "notify"
  /\ UNCHANGED <<memory, shutting_down, running, bg_error, client, queue, job,
                 inputs, undefined>>

WorkerPush ==
  /\ WorkerAt("push")
  /\ queue' = Append(queue, job) /\ worker' = "signal"
  /\ UNCHANGED <<memory, flags, client, job, inputs, undefined>>

(* The worker's own notify_one finds nobody waiting.                       *)
WorkerSignal ==
  /\ WorkerAt("signal")
  /\ worker' = "notify"
  /\ UNCHANGED <<memory, flags, client, queue, job, inputs, undefined>>

WorkerNotify ==
  /\ WorkerAt("notify") /\ user[job] # "destroyed"
  /\ NotifyAll(job) /\ worker' = "look"
  /\ UNCHANGED <<memory, flags, started, settled, queue, job, inputs, undefined>>

UseAfterDestroy ==
  /\ WorkerAt("maybe") \/ WorkerAt("notify")
  /\ user[job] = "destroyed"
  /\ undefined' = TRUE
  /\ UNCHANGED <<memory, flags, client, env>>

-----------------------------------------------------------------------------
UserStep(d) ==
  \/ UserFlushEnter(d) \/ UserFlushFail(d) \/ UserFlushDone(d)
  \/ UserLog(d) \/ UserLogFail(d) \/ UserMaybeSchedule(d)
  \/ UserPush(d) \/ UserSignal(d) \/ ResumeDestroy(d)

WorkerStep ==
  \/ WorkerSleep \/ WorkerTake \/ WorkerEnter \/ WorkerChoose
  \/ WorkerMemTable \/ WorkerFlushEnter \/ WorkerFlushDone
  \/ WorkerCompactDone \/ WorkerFail \/ RecordBackgroundError
  \/ WorkerClear \/ WorkerMaybeSchedule \/ WorkerPush \/ WorkerSignal
  \/ WorkerNotify \/ UseAfterDestroy

(* What a caller chooses to do, never obliged to.                          *)
Choice(d) == BeginWrite(d) \/ BeginDestroy(d) \/ SpuriousWakeup(d)

(* Every DB is closed, or the program has no defined behaviour any more.   *)
Terminated ==
  /\ undefined \/ (worker \in {"unstarted", "blocked"}
                     /\ \A d \in DBs : user[d] = "destroyed")
  /\ UNCHANGED vars

Next == (\E d \in DBs : Choice(d) \/ UserStep(d)) \/ WorkerStep \/ Terminated

(* The operating system schedules every runnable thread, and a call that   *)
(* has begun goes on; nobody has to write, to close or to wake spuriously. *)
Fairness ==
  /\ \A d \in DBs : WF_vars(UserStep(d))
  /\ WF_vars(WorkerStep)

Spec == Init /\ [][Next]_vars

FairSpec == Spec /\ Fairness
-----------------------------------------------------------------------------
(* Properties.                                                             *)

Pushing(d)   == user[d] = "push" \/ (worker = "push" /\ job = d)
Queued(d)    == Contains(queue, d)
Executing(d) == worker \in ExecutingPC /\ job = d
InCall(d)    == worker \in ExecutingPC \cup LeavingPC /\ job = d

(* background_compaction_scheduled_ is set exactly while one task of the   *)
(* DB exists - about to be queued, in the queue, or in BackgroundCall up   *)
(* to the section that clears the flag - and there is never a second one,  *)
(* whichever of the two threads scheduled it.                              *)
SingleTask ==
  /\ IsInjective(queue)
  /\ \A d \in DBs :
       /\ scheduled[d] <=> (Pushing(d) \/ Queued(d) \/ Executing(d))
       /\ ~(Queued(d) /\ Pushing(d)) /\ ~(Queued(d) /\ Executing(d))
       /\ ~(Executing(d) /\ Pushing(d))
       /\ ~(user[d] = "push" /\ worker = "push" /\ job = d)

(* Once the destructor has returned, no task of the DB is queued or about  *)
(* to be, and the worker is not in the part of BackgroundCall that flushes *)
(* or compacts: what the wait in ~DBImpl is for.                           *)
DestroyedIsQuiet ==
  \A d \in DBs : user[d] = "destroyed" =>
    shutting_down[d] /\ ~Pushing(d) /\ ~Queued(d) /\ ~Executing(d)

(* Neither condition variable loses a wakeup: when the Env's thread sleeps *)
(* on a non-empty queue, a Schedule that will notify it is under way, and  *)
(* when a destructor sleeps with its predicate true, the worker is on its  *)
(* way to notify_all.                                                      *)
NoLostWakeup ==
  /\ worker = "blocked" /\ queue # <<>> => \E d \in DBs : user[d] = "signal"
  /\ \A d \in DBs : user[d] = "waiting" /\ NoBackgroundTask(d) =>
       worker \in LeavingPC /\ job = d

(* A write that found the flag set and left the scheduling to the running  *)
(* task is not forgotten, nor what Open recovered: with the user thread    *)
(* idle after Open or a complete write, work to do means a task is         *)
(* scheduled, or the worker is about to call MaybeScheduleCompaction.      *)
NoForgottenWork ==
  \A d \in DBs :
    user[d] = "idle" /\ settled[d] /\ NeedsWork(d) /\ ~bg_error[d] /\ ~undefined
      => scheduled[d] \/ (worker = "maybe" /\ job = d)

(* ~DBImpl returns, however many tasks of other DBs are before its own in  *)
(* the queue of the Env and whatever fails in them.                        *)
DestructorReturns ==
  \A d \in DBs : shutting_down[d] ~> (user[d] = "destroyed" \/ undefined)

(* Work that Open or a complete write left behind is done, unless an error *)
(* stopped the background thread for good or the DB is closed.             *)
WorkIsDone ==
  \A d \in DBs :
    (settled[d] /\ NeedsWork(d))
      ~> (~NeedsWork(d) \/ bg_error[d] \/ shutting_down[d] \/ undefined)

(* The repository's claim (db/db_impl.h 119, 125): the destructor is woken *)
(* when the background task has ended, so no BackgroundCall outlives it.   *)
(* The code clears the flags before BackgroundCall's last two calls.       *)
NoCallOutlivesObject ==
  \A d \in DBs : user[d] = "destroyed" => ~InCall(d)
=============================================================================
