------------------------ MODULE BackgroundWorkProofs ------------------------
(***************************************************************************)
(* Proofs about BackgroundWork, for any number of DBImpl objects sharing   *)
(* the Env and any number of writes: type correctness, at most one task    *)
(* per DB, a destructor that returns only when none is left, condition     *)
(* variables that lose no wakeup, and no work forgotten.                   *)
(***************************************************************************)
EXTENDS BackgroundWork, SequenceTheorems, TLAPS

(* What SingleTask and NoLostWakeup need to be inductive: the running flag *)
(* lies within the scheduled one, a destructor that has begun has set      *)
(* shutting_down_ and one that has returned left no task, and a compaction *)
(* removes files that are there (the user thread only adds some).          *)
Steady ==
  /\ \A d \in DBs : running[d] => Executing(d)
  /\ \A d \in DBs : user[d] \in {"waiting", "woken", "destroyed"} => shutting_down[d]
  /\ \A d \in DBs : user[d] = "destroyed" => ~scheduled[d]
  /\ worker = "compact" => inputs <= l0[job]

(* NoForgottenWork in the form that every step preserves: it holds from    *)
(* the end of UserPush already, when the user thread has yet to notify;    *)
(* until then the thread holds the task itself (SingleTask).  A thread in  *)
(* a Write has not settled it, and an idle one has not begun to destroy,   *)
(* so shutting_down_ does not keep the worker from rescheduling.           *)
Remembered ==
  \A d \in DBs :
    /\ shutting_down[d] => user[d] \in {"waiting", "woken", "destroyed"}
    /\ settled[d] => user[d] \notin {"flush", "flushing", "log", "maybe"}
    /\ user[d] \in {"idle", "signal"} /\ settled[d] /\ NeedsWork(d) /\ ~bg_error[d] /\ ~undefined
         => scheduled[d] \/ (worker = "maybe" /\ job = d)

IInv == TypeOK /\ SingleTask /\ Steady /\ NoLostWakeup /\ Remembered

-----------------------------------------------------------------------------
(* Appending to the queue adds one member; an injective queue stays so     *)
(* when the new member was not in it.                                      *)
LEMMA QueueAppend ==
  ASSUME NEW S, NEW q \in Seq(S), NEW e \in S
  PROVE  /\ \A d : Contains(Append(q, e), d) <=> Contains(q, d) \/ d = e
         /\ IsInjective(q) /\ ~Contains(q, e) => IsInjective(Append(q, e))
<1>. DEFINE a == Append(q, e)
<1>1. /\ Len(a) = Len(q) + 1 /\ Len(q) \in Nat
      /\ a \in Seq(S)
      /\ \A i \in 1 .. Len(q) : a[i] = q[i]
      /\ a[Len(q) + 1] = e
  BY AppendProperties, LenProperties
<1>2. DOMAIN a = 1 .. Len(a) /\ DOMAIN q = 1 .. Len(q)
  BY <1>1, LenProperties
<1>. HIDE DEF a
<1>3. ASSUME NEW d PROVE Contains(a, d) <=> Contains(q, d) \/ d = e
  BY <1>1 DEF Contains
<1>4. IsInjective(q) /\ ~Contains(q, e) => IsInjective(a)
  BY <1>1, <1>2 DEF Contains, IsInjective
<1>. QED  BY <1>3, <1>4 DEF a

(* Taking the head of an injective queue removes exactly that member.      *)
LEMMA QueueTail ==
  ASSUME NEW S, NEW q \in Seq(S), q # <<>>, IsInjective(q)
  PROVE  /\ Head(q) \in S /\ Tail(q) \in Seq(S)
         /\ Contains(q, Head(q))
         /\ \A d : Contains(Tail(q), d) <=> Contains(q, d) /\ d # Head(q)
         /\ IsInjective(Tail(q))
<1>. DEFINE t == Tail(q)
<1>1. /\ Head(q) \in S /\ t \in Seq(S) /\ Len(t) = Len(q) - 1
      /\ \A i \in 1 .. Len(t) : t[i] = q[i + 1]
      /\ Head(q) = q[1]
  BY HeadTailProperties
<1>2. Len(q) \in Nat /\ Len(q) > 0
  BY EmptySeq, LenProperties
<1>3. DOMAIN t = 1 .. Len(t) /\ DOMAIN q = 1 .. Len(q)
  BY <1>1, LenProperties
<1>. HIDE DEF t
<1>4. Contains(q, Head(q))
  BY <1>1, <1>2 DEF Contains
<1>5. IsInjective(t)
  BY <1>1, <1>2, <1>3 DEF IsInjective
<1>6. ASSUME NEW d, Contains(t, d) PROVE Contains(q, d) /\ d # Head(q)
  BY <1>1, <1>2, <1>3, <1>6 DEF Contains, IsInjective
<1>7. ASSUME NEW d, Contains(q, d), d # Head(q) PROVE Contains(t, d)
  <2>1. PICK i \in 1 .. Len(q) : q[i] = d
    BY <1>7 DEF Contains
  <2>2. i # 1
    BY <2>1, <1>1, <1>7
  <2>3. PICK j \in 1 .. Len(t) : i = j + 1
    BY <2>2, <1>1, <1>2
  <2>4. t[j] = d
    BY <2>1, <2>3, <1>1
  <2>. QED  BY <2>4 DEF Contains
<1>. QED  BY <1>1, <1>4, <1>5, <1>6, <1>7 DEF t
-----------------------------------------------------------------------------
LEMMA InitInvariant == Init => IInv
<1>. SUFFICES ASSUME Init PROVE IInv
  OBVIOUS
<1>1. \A d : ~Contains(queue, d)
  BY DEF Init, Contains
<1>2. IsInjective(queue)
  BY DEF Init, IsInjective
<1>3. TypeOK
  <2>1. queue \in Seq(DBs) /\ l0 \in [DBs -> Nat]
    BY ConstantsAssumption, EmptySeq DEF Init
  <2>. QED  BY <2>1 DEF Init, TypeOK, UserPC, WorkerPC, ExecutingPC, LeavingPC
<1>4. SingleTask
  BY <1>1, <1>2, <1>3 DEF Init, SingleTask, Pushing, Queued, Executing, ExecutingPC
<1>5. Steady /\ NoLostWakeup
  BY <1>3 DEF Init, Steady, NoLostWakeup, Executing, ExecutingPC, NoBackgroundTask
<1>6. Remembered
  BY DEF Init, Remembered
<1>. QED  BY <1>3, <1>4, <1>5, <1>6 DEF IInv

(* Rotating the memtables, or leaving them, keeps their types.             *)
LEMMA RotateTypes ==
  ASSUME mem \in [DBs -> Nat], imm \in [DBs -> BOOLEAN], NEW d \in DBs,
         Rotate(d) \/ UNCHANGED <<mem, imm>>
  PROVE  mem' \in [DBs -> Nat] /\ imm' \in [DBs -> BOOLEAN]
<1>1. mem' = [mem EXCEPT ![d] = 0] \/ mem' = mem
  BY DEF Rotate
<1>2. imm' = [imm EXCEPT ![d] = TRUE] \/ imm' = imm
  BY DEF Rotate
<1>3. mem' \in [DBs -> Nat]
  BY <1>1
<1>4. imm' \in [DBs -> BOOLEAN]
  BY <1>2
<1>. QED  BY <1>3, <1>4

(* Types, step by step.  Taking inputs away leaves a natural number because *)
(* of Steady.                                                               *)
LEMMA TypeStep == IInv /\ [Next]_vars => TypeOK'
<1>. SUFFICES ASSUME IInv, [Next]_vars PROVE TypeOK'
  OBVIOUS
<1>1. TypeOK /\ SingleTask /\ Steady
  BY DEF IInv
<1>2. Next \/ UNCHANGED vars
  OBVIOUS
<1>3. ASSUME NEW d \in DBs, BeginWrite(d) PROVE TypeOK'
  <2>1. /\ UNCHANGED <<mem, imm>> \/ Rotate(d)
        /\ \E pc \in UserPC : Goto(d, pc)
    BY <1>3 DEF BeginWrite, UserPC
  <2>2. mem' \in [DBs -> Nat] /\ imm' \in [DBs -> BOOLEAN]
    BY <1>1, <2>1, RotateTypes DEF TypeOK
  <2>3. user' \in [DBs -> UserPC]
    BY <1>1, <2>1 DEF Goto, TypeOK
  <2>4. started' \in [DBs -> Nat] /\ settled' \in [DBs -> BOOLEAN]
    BY <1>1, <1>3 DEF BeginWrite, TypeOK
  <2>. QED  BY <1>1, <1>3, <2>2, <2>3, <2>4 DEF BeginWrite, memory, flags, env, TypeOK
<1>4. ASSUME NEW d \in DBs, BeginDestroy(d) PROVE TypeOK'
  BY <1>1, <1>4 DEF BeginDestroy, At, Goto, WaitForTask, NoBackgroundTask, memory, flags, client, env, TypeOK, UserPC, WorkerPC, ExecutingPC, LeavingPC
<1>5. ASSUME NEW d \in DBs, SpuriousWakeup(d) PROVE TypeOK'
  BY <1>1, <1>5 DEF SpuriousWakeup, At, Goto, memory, flags, client, env, TypeOK, UserPC, WorkerPC, ExecutingPC, LeavingPC
<1>6. ASSUME NEW d \in DBs, UserFlushEnter(d) PROVE TypeOK'
  BY <1>1, <1>6 DEF UserFlushEnter, At, Goto, memory, flags, client, env, TypeOK, UserPC, WorkerPC, ExecutingPC, LeavingPC
<1>7. ASSUME NEW d \in DBs, UserFlushFail(d) PROVE TypeOK'
  BY <1>1, <1>7 DEF UserFlushFail, At, Goto, memory, flags, client, env, TypeOK, UserPC, WorkerPC, ExecutingPC, LeavingPC
<1>8. ASSUME NEW d \in DBs, UserFlushDone(d) PROVE TypeOK'
  BY <1>1, <1>8 DEF UserFlushDone, At, Goto, InstallFlush, memory, flags, client, env, TypeOK, UserPC, WorkerPC, ExecutingPC, LeavingPC
<1>9. ASSUME NEW d \in DBs, UserLog(d) PROVE TypeOK'
  BY <1>1, <1>9 DEF UserLog, At, Goto, memory, flags, client, env, TypeOK, UserPC, WorkerPC, ExecutingPC, LeavingPC
<1>10. ASSUME NEW d \in DBs, UserLogFail(d) PROVE TypeOK'
  BY <1>1, <1>10 DEF UserLogFail, At, Goto, memory, flags, client, env, TypeOK, UserPC, WorkerPC, ExecutingPC, LeavingPC
<1>11. ASSUME NEW d \in DBs, UserMaybeSchedule(d) PROVE TypeOK'
  BY <1>1, <1>11 DEF UserMaybeSchedule, At, Goto, MaySchedule, memory, flags, client, env, TypeOK, UserPC, WorkerPC, ExecutingPC, LeavingPC
<1>12. ASSUME NEW d \in DBs, UserPush(d) PROVE TypeOK'
  BY <1>1, <1>12, AppendProperties DEF UserPush, At, Goto, memory, flags, client, env, TypeOK, UserPC, WorkerPC, ExecutingPC, LeavingPC
<1>13. ASSUME NEW d \in DBs, UserSignal(d) PROVE TypeOK'
  BY <1>1, <1>13 DEF UserSignal, At, Goto, NotifyWorker, memory, flags, client, env, TypeOK, UserPC, WorkerPC, ExecutingPC, LeavingPC
<1>14. ASSUME NEW d \in DBs, ResumeDestroy(d) PROVE TypeOK'
  BY <1>1, <1>14 DEF ResumeDestroy, At, Goto, WaitForTask, NoBackgroundTask, memory, flags, client, env, TypeOK, UserPC, WorkerPC, ExecutingPC, LeavingPC
<1>15. ASSUME WorkerSleep PROVE TypeOK'
  BY <1>1, <1>15 DEF WorkerSleep, WorkerAt, memory, flags, client, env, TypeOK, UserPC, WorkerPC, ExecutingPC, LeavingPC
<1>16. ASSUME WorkerTake PROVE TypeOK'
  BY <1>1, <1>16, QueueTail, HeadTailProperties DEF WorkerTake, WorkerAt, memory, flags, client, env, TypeOK, UserPC, WorkerPC, ExecutingPC, LeavingPC
<1>17. ASSUME WorkerEnter PROVE TypeOK'
  BY <1>1, <1>17 DEF WorkerEnter, WorkerAt, memory, flags, client, env, TypeOK, UserPC, WorkerPC, ExecutingPC, LeavingPC
<1>18. ASSUME WorkerChoose PROVE TypeOK'
  BY <1>1, <1>18 DEF WorkerChoose, WorkerAt, memory, flags, client, env, TypeOK, UserPC, WorkerPC, ExecutingPC, LeavingPC
<1>19. ASSUME WorkerMemTable PROVE TypeOK'
  <2>1. job \in DBs /\ worker' \in {"clear", "flush"}
    BY <1>1, <1>19 DEF WorkerMemTable, WorkerAt, TypeOK, UserPC, WorkerPC, ExecutingPC, LeavingPC
  <2>2. UNCHANGED <<mem, imm>> \/ Rotate(job)
    BY <1>19 DEF WorkerMemTable
  <2>3. mem' \in [DBs -> Nat] /\ imm' \in [DBs -> BOOLEAN]
    BY <1>1, <2>1, <2>2, RotateTypes DEF TypeOK
  <2>. QED  BY <1>1, <1>19, <2>1, <2>3 DEF WorkerMemTable, flags, client, TypeOK, UserPC, WorkerPC, ExecutingPC, LeavingPC
<1>20. ASSUME WorkerFlushEnter PROVE TypeOK'
  BY <1>1, <1>20 DEF WorkerFlushEnter, WorkerAt, memory, flags, client, env, TypeOK, UserPC, WorkerPC, ExecutingPC, LeavingPC
<1>21. ASSUME WorkerFlushDone PROVE TypeOK'
  BY <1>1, <1>21 DEF WorkerFlushDone, WorkerAt, InstallFlush, memory, flags, client, env, TypeOK, UserPC, WorkerPC, ExecutingPC, LeavingPC
<1>22. ASSUME WorkerCompactDone PROVE TypeOK'
  BY <1>1, <1>22 DEF WorkerCompactDone, WorkerAt, Steady, memory, flags, client, env, TypeOK, UserPC, WorkerPC, ExecutingPC, LeavingPC
<1>23. ASSUME WorkerFail PROVE TypeOK'
  BY <1>1, <1>23 DEF WorkerFail, WorkerAt, memory, flags, client, env, TypeOK, UserPC, WorkerPC, ExecutingPC, LeavingPC
<1>24. ASSUME RecordBackgroundError PROVE TypeOK'
  BY <1>1, <1>24 DEF RecordBackgroundError, WorkerAt, memory, flags, client, env, TypeOK, UserPC, WorkerPC, ExecutingPC, LeavingPC
<1>25. ASSUME WorkerClear PROVE TypeOK'
  BY <1>1, <1>25 DEF WorkerClear, WorkerAt, memory, flags, client, env, TypeOK, UserPC, WorkerPC, ExecutingPC, LeavingPC
<1>26. ASSUME WorkerMaybeSchedule PROVE TypeOK'
  BY <1>1, <1>26 DEF WorkerMaybeSchedule, WorkerAt, MaySchedule, memory, flags, client, env, TypeOK, UserPC, WorkerPC, ExecutingPC, LeavingPC
<1>27. ASSUME WorkerPush PROVE TypeOK'
  BY <1>1, <1>27, AppendProperties DEF WorkerPush, WorkerAt, memory, flags, client, env, TypeOK, UserPC, WorkerPC, ExecutingPC, LeavingPC
<1>28. ASSUME WorkerSignal PROVE TypeOK'
  BY <1>1, <1>28 DEF WorkerSignal, WorkerAt, memory, flags, client, env, TypeOK, UserPC, WorkerPC, ExecutingPC, LeavingPC
<1>29. ASSUME WorkerNotify PROVE TypeOK'
  BY <1>1, <1>29 DEF WorkerNotify, WorkerAt, NotifyAll, Goto, memory, flags, client, env, TypeOK, UserPC, WorkerPC, ExecutingPC, LeavingPC
<1>30. ASSUME UseAfterDestroy PROVE TypeOK'
  BY <1>1, <1>30 DEF UseAfterDestroy, WorkerAt, memory, flags, client, env, TypeOK, UserPC, WorkerPC, ExecutingPC, LeavingPC
<1>31. ASSUME UNCHANGED vars PROVE TypeOK'
  BY <1>1, <1>31 DEF vars, memory, flags, client, env, memory, flags, client, env, TypeOK, UserPC, WorkerPC, ExecutingPC, LeavingPC
<1>. QED  BY <1>2, <1>3, <1>4, <1>5, <1>6, <1>7, <1>8, <1>9, <1>10, <1>11, <1>12, <1>13, <1>14, <1>15, <1>16, <1>17, <1>18, <1>19, <1>20, <1>21, <1>22, <1>23, <1>24, <1>25, <1>26, <1>27, <1>28, <1>29, <1>30, <1>31 DEF Next, Choice, UserStep, WorkerStep, Terminated


(* One task per DB, step by step: a task enters the queue by the two push  *)
(* steps, which held the only one, and leaves it by WorkerTake.            *)
LEMMA SingleTaskStep == IInv /\ TypeOK' /\ [Next]_vars => SingleTask'
<1>. SUFFICES ASSUME IInv, TypeOK', [Next]_vars PROVE SingleTask'
  OBVIOUS
<1>1. TypeOK /\ SingleTask /\ Steady
  BY DEF IInv
<1>2. Next \/ UNCHANGED vars
  OBVIOUS
<1>3. ASSUME NEW d \in DBs, BeginWrite(d) PROVE SingleTask'
  BY <1>1, <1>3 DEF BeginWrite, At, Goto, Rotate, TypeOK, SingleTask, Pushing, Queued, Executing, ExecutingPC, memory, flags, client, env
<1>4. ASSUME NEW d \in DBs, BeginDestroy(d) PROVE SingleTask'
  BY <1>1, <1>4 DEF BeginDestroy, At, Goto, WaitForTask, NoBackgroundTask, TypeOK, SingleTask, Pushing, Queued, Executing, ExecutingPC, memory, flags, client, env
<1>5. ASSUME NEW d \in DBs, SpuriousWakeup(d) PROVE SingleTask'
  BY <1>1, <1>5 DEF SpuriousWakeup, At, Goto, TypeOK, SingleTask, Pushing, Queued, Executing, ExecutingPC, memory, flags, client, env
<1>6. ASSUME NEW d \in DBs, UserFlushEnter(d) PROVE SingleTask'
  BY <1>1, <1>6 DEF UserFlushEnter, At, Goto, TypeOK, SingleTask, Pushing, Queued, Executing, ExecutingPC, memory, flags, client, env
<1>7. ASSUME NEW d \in DBs, UserFlushFail(d) PROVE SingleTask'
  BY <1>1, <1>7 DEF UserFlushFail, At, Goto, TypeOK, SingleTask, Pushing, Queued, Executing, ExecutingPC, memory, flags, client, env
<1>8. ASSUME NEW d \in DBs, UserFlushDone(d) PROVE SingleTask'
  BY <1>1, <1>8 DEF UserFlushDone, At, Goto, InstallFlush, TypeOK, SingleTask, Pushing, Queued, Executing, ExecutingPC, memory, flags, client, env
<1>9. ASSUME NEW d \in DBs, UserLog(d) PROVE SingleTask'
  BY <1>1, <1>9 DEF UserLog, At, Goto, TypeOK, SingleTask, Pushing, Queued, Executing, ExecutingPC, memory, flags, client, env
<1>10. ASSUME NEW d \in DBs, UserLogFail(d) PROVE SingleTask'
  BY <1>1, <1>10 DEF UserLogFail, At, Goto, TypeOK, SingleTask, Pushing, Queued, Executing, ExecutingPC, memory, flags, client, env
<1>11. ASSUME NEW d \in DBs, UserMaybeSchedule(d) PROVE SingleTask'
  BY <1>1, <1>11 DEF UserMaybeSchedule, At, Goto, MaySchedule, TypeOK, SingleTask, Pushing, Queued, Executing, ExecutingPC, memory, flags, client, env
<1>12. ASSUME NEW d \in DBs, UserPush(d) PROVE SingleTask'
  BY <1>1, <1>12, QueueAppend DEF UserPush, At, Goto, TypeOK, SingleTask, Pushing, Queued, Executing, ExecutingPC, memory, flags, client, env
<1>13. ASSUME NEW d \in DBs, UserSignal(d) PROVE SingleTask'
  BY <1>1, <1>13 DEF UserSignal, At, Goto, NotifyWorker, TypeOK, SingleTask, Pushing, Queued, Executing, ExecutingPC, memory, flags, client, env
<1>14. ASSUME NEW d \in DBs, ResumeDestroy(d) PROVE SingleTask'
  BY <1>1, <1>14 DEF ResumeDestroy, At, Goto, WaitForTask, NoBackgroundTask, TypeOK, SingleTask, Pushing, Queued, Executing, ExecutingPC, memory, flags, client, env
<1>15. ASSUME WorkerSleep PROVE SingleTask'
  BY <1>1, <1>15 DEF WorkerSleep, WorkerAt, TypeOK, SingleTask, Pushing, Queued, Executing, ExecutingPC, memory, flags, client, env
<1>16. ASSUME WorkerTake PROVE SingleTask'
  BY <1>1, <1>16, QueueTail DEF WorkerTake, WorkerAt, TypeOK, SingleTask, Pushing, Queued, Executing, ExecutingPC, memory, flags, client, env
<1>17. ASSUME WorkerEnter PROVE SingleTask'
  BY <1>1, <1>17 DEF WorkerEnter, WorkerAt, TypeOK, SingleTask, Pushing, Queued, Executing, ExecutingPC, memory, flags, client, env
<1>18. ASSUME WorkerChoose PROVE SingleTask'
  BY <1>1, <1>18 DEF WorkerChoose, WorkerAt, TypeOK, SingleTask, Pushing, Queued, Executing, ExecutingPC, memory, flags, client, env
<1>19. ASSUME WorkerMemTable PROVE SingleTask'
  BY <1>1, <1>19 DEF WorkerMemTable, WorkerAt, Rotate, TypeOK, SingleTask, Pushing, Queued, Executing, ExecutingPC, memory, flags, client, env
<1>20. ASSUME WorkerFlushEnter PROVE SingleTask'
  BY <1>1, <1>20 DEF WorkerFlushEnter, WorkerAt, TypeOK, SingleTask, Pushing, Queued, Executing, ExecutingPC, memory, flags, client, env
<1>21. ASSUME WorkerFlushDone PROVE SingleTask'
  BY <1>1, <1>21 DEF WorkerFlushDone, WorkerAt, InstallFlush, TypeOK, SingleTask, Pushing, Queued, Executing, ExecutingPC, memory, flags, client, env
<1>22. ASSUME WorkerCompactDone PROVE SingleTask'
  BY <1>1, <1>22 DEF WorkerCompactDone, WorkerAt, TypeOK, SingleTask, Pushing, Queued, Executing, ExecutingPC, memory, flags, client, env
<1>23. ASSUME WorkerFail PROVE SingleTask'
  BY <1>1, <1>23 DEF WorkerFail, WorkerAt, TypeOK, SingleTask, Pushing, Queued, Executing, ExecutingPC, memory, flags, client, env
<1>24. ASSUME RecordBackgroundError PROVE SingleTask'
  BY <1>1, <1>24 DEF RecordBackgroundError, WorkerAt, TypeOK, SingleTask, Pushing, Queued, Executing, ExecutingPC, memory, flags, client, env
<1>25. ASSUME WorkerClear PROVE SingleTask'
  BY <1>1, <1>25 DEF WorkerClear, WorkerAt, TypeOK, SingleTask, Pushing, Queued, Executing, ExecutingPC, memory, flags, client, env
<1>26. ASSUME WorkerMaybeSchedule PROVE SingleTask'
  BY <1>1, <1>26 DEF WorkerMaybeSchedule, WorkerAt, MaySchedule, TypeOK, SingleTask, Pushing, Queued, Executing, ExecutingPC, memory, flags, client, env
<1>27. ASSUME WorkerPush PROVE SingleTask'
  BY <1>1, <1>27, QueueAppend DEF WorkerPush, WorkerAt, TypeOK, SingleTask, Pushing, Queued, Executing, ExecutingPC, memory, flags, client, env
<1>28. ASSUME WorkerSignal PROVE SingleTask'
  BY <1>1, <1>28 DEF WorkerSignal, WorkerAt, TypeOK, SingleTask, Pushing, Queued, Executing, ExecutingPC, memory, flags, client, env
<1>29. ASSUME WorkerNotify PROVE SingleTask'
  BY <1>1, <1>29 DEF WorkerNotify, WorkerAt, NotifyAll, Goto, TypeOK, SingleTask, Pushing, Queued, Executing, ExecutingPC, memory, flags, client, env
<1>30. ASSUME UseAfterDestroy PROVE SingleTask'
  BY <1>1, <1>30 DEF UseAfterDestroy, WorkerAt, TypeOK, SingleTask, Pushing, Queued, Executing, ExecutingPC, memory, flags, client, env
<1>31. ASSUME UNCHANGED vars PROVE SingleTask'
  BY <1>1, <1>31 DEF vars, memory, flags, client, env, TypeOK, SingleTask, Pushing, Queued, Executing, ExecutingPC
<1>. QED  BY <1>2, <1>3, <1>4, <1>5, <1>6, <1>7, <1>8, <1>9, <1>10, <1>11, <1>12, <1>13, <1>14, <1>15, <1>16, <1>17, <1>18, <1>19, <1>20, <1>21, <1>22, <1>23, <1>24, <1>25, <1>26, <1>27, <1>28, <1>29, <1>30, <1>31
       DEF Next, Choice, UserStep, WorkerStep, Terminated

LEMMA SteadyStep == IInv /\ TypeOK' /\ [Next]_vars => Steady'
<1>. SUFFICES ASSUME IInv, TypeOK', [Next]_vars PROVE Steady'
  OBVIOUS
<1>1. TypeOK /\ SingleTask /\ Steady
  BY DEF IInv
<1>2. Next \/ UNCHANGED vars
  OBVIOUS
<1>3. ASSUME NEW d \in DBs, BeginWrite(d) PROVE Steady'
  BY <1>1, <1>3 DEF BeginWrite, At, Goto, Rotate, TypeOK, Steady, SingleTask, Pushing, Executing, ExecutingPC, memory, flags, client, env
<1>4. ASSUME NEW d \in DBs, BeginDestroy(d) PROVE Steady'
  BY <1>1, <1>4 DEF BeginDestroy, At, Goto, WaitForTask, NoBackgroundTask, TypeOK, Steady, SingleTask, Pushing, Executing, ExecutingPC, memory, flags, client, env
<1>5. ASSUME NEW d \in DBs, SpuriousWakeup(d) PROVE Steady'
  BY <1>1, <1>5 DEF SpuriousWakeup, At, Goto, TypeOK, Steady, SingleTask, Pushing, Executing, ExecutingPC, memory, flags, client, env
<1>6. ASSUME NEW d \in DBs, UserFlushEnter(d) PROVE Steady'
  BY <1>1, <1>6 DEF UserFlushEnter, At, Goto, TypeOK, Steady, SingleTask, Pushing, Executing, ExecutingPC, memory, flags, client, env
<1>7. ASSUME NEW d \in DBs, UserFlushFail(d) PROVE Steady'
  BY <1>1, <1>7 DEF UserFlushFail, At, Goto, TypeOK, Steady, SingleTask, Pushing, Executing, ExecutingPC, memory, flags, client, env
<1>8. ASSUME NEW d \in DBs, UserFlushDone(d) PROVE Steady'
  BY <1>1, <1>8 DEF UserFlushDone, At, Goto, InstallFlush, TypeOK, Steady, SingleTask, Pushing, Executing, ExecutingPC, memory, flags, client, env
<1>9. ASSUME NEW d \in DBs, UserLog(d) PROVE Steady'
  BY <1>1, <1>9 DEF UserLog, At, Goto, TypeOK, Steady, SingleTask, Pushing, Executing, ExecutingPC, memory, flags, client, env
<1>10. ASSUME NEW d \in DBs, UserLogFail(d) PROVE Steady'
  BY <1>1, <1>10 DEF UserLogFail, At, Goto, TypeOK, Steady, SingleTask, Pushing, Executing, ExecutingPC, memory, flags, client, env
<1>11. ASSUME NEW d \in DBs, UserMaybeSchedule(d) PROVE Steady'
  <2>1. /\ user[d] = "maybe" /\ user' \in [DBs -> UserPC]
        /\ \A e \in DBs \ {d} : user'[e] = user[e] /\ scheduled'[e] = scheduled[e]
        /\ user'[d] \in {"push", "idle"}
    BY <1>1, <1>11 DEF UserMaybeSchedule, At, Goto, TypeOK, UserPC
  <2>2. UNCHANGED <<l0, shutting_down, running, worker, job, inputs>>
    BY <1>11 DEF UserMaybeSchedule, memory, env
  <2>3. \A e \in DBs : running'[e] => Executing(e)'
    BY <1>1, <2>2 DEF Steady, Executing
  <2>4. \A e \in DBs : user'[e] \in {"waiting", "woken", "destroyed"} => shutting_down'[e]
    BY <1>1, <2>1, <2>2 DEF Steady
  <2>5. \A e \in DBs : user'[e] = "destroyed" => ~scheduled'[e]
    BY <1>1, <2>1 DEF Steady
  <2>6. (worker = "compact" => inputs <= l0[job])'
    BY <1>1, <2>2 DEF Steady
  <2>. QED  BY <2>3, <2>4, <2>5, <2>6 DEF Steady
<1>12. ASSUME NEW d \in DBs, UserPush(d) PROVE Steady'
  BY <1>1, <1>12 DEF UserPush, At, Goto, TypeOK, Steady, SingleTask, Pushing, Executing, ExecutingPC, memory, flags, client, env
<1>13. ASSUME NEW d \in DBs, UserSignal(d) PROVE Steady'
  BY <1>1, <1>13 DEF UserSignal, At, Goto, NotifyWorker, TypeOK, Steady, SingleTask, Pushing, Executing, ExecutingPC, memory, flags, client, env
<1>14. ASSUME NEW d \in DBs, ResumeDestroy(d) PROVE Steady'
  BY <1>1, <1>14 DEF ResumeDestroy, At, Goto, WaitForTask, NoBackgroundTask, TypeOK, Steady, SingleTask, Pushing, Executing, ExecutingPC, memory, flags, client, env
<1>15. ASSUME WorkerSleep PROVE Steady'
  BY <1>1, <1>15 DEF WorkerSleep, WorkerAt, TypeOK, Steady, SingleTask, Pushing, Executing, ExecutingPC, memory, flags, client, env
<1>16. ASSUME WorkerTake PROVE Steady'
  BY <1>1, <1>16 DEF WorkerTake, WorkerAt, TypeOK, Steady, SingleTask, Pushing, Executing, ExecutingPC, memory, flags, client, env
<1>17. ASSUME WorkerEnter PROVE Steady'
  BY <1>1, <1>17 DEF WorkerEnter, WorkerAt, TypeOK, Steady, SingleTask, Pushing, Executing, ExecutingPC, memory, flags, client, env
<1>18. ASSUME WorkerChoose PROVE Steady'
  BY <1>1, <1>18 DEF WorkerChoose, WorkerAt, TypeOK, Steady, SingleTask, Pushing, Executing, ExecutingPC, memory, flags, client, env
<1>19. ASSUME WorkerMemTable PROVE Steady'
  BY <1>1, <1>19 DEF WorkerMemTable, WorkerAt, Rotate, TypeOK, Steady, SingleTask, Pushing, Executing, ExecutingPC, memory, flags, client, env
<1>20. ASSUME WorkerFlushEnter PROVE Steady'
  BY <1>1, <1>20 DEF WorkerFlushEnter, WorkerAt, TypeOK, Steady, SingleTask, Pushing, Executing, ExecutingPC, memory, flags, client, env
<1>21. ASSUME WorkerFlushDone PROVE Steady'
  BY <1>1, <1>21 DEF WorkerFlushDone, WorkerAt, InstallFlush, TypeOK, Steady, SingleTask, Pushing, Executing, ExecutingPC, memory, flags, client, env
<1>22. ASSUME WorkerCompactDone PROVE Steady'
  BY <1>1, <1>22 DEF WorkerCompactDone, WorkerAt, TypeOK, Steady, SingleTask, Pushing, Executing, ExecutingPC, memory, flags, client, env
<1>23. ASSUME WorkerFail PROVE Steady'
  BY <1>1, <1>23 DEF WorkerFail, WorkerAt, TypeOK, Steady, SingleTask, Pushing, Executing, ExecutingPC, memory, flags, client, env
<1>24. ASSUME RecordBackgroundError PROVE Steady'
  BY <1>1, <1>24 DEF RecordBackgroundError, WorkerAt, TypeOK, Steady, SingleTask, Pushing, Executing, ExecutingPC, memory, flags, client, env
<1>25. ASSUME WorkerClear PROVE Steady'
  BY <1>1, <1>25 DEF WorkerClear, WorkerAt, TypeOK, Steady, SingleTask, Pushing, Executing, ExecutingPC, memory, flags, client, env
<1>26. ASSUME WorkerMaybeSchedule PROVE Steady'
  BY <1>1, <1>26 DEF WorkerMaybeSchedule, WorkerAt, MaySchedule, TypeOK, Steady, SingleTask, Pushing, Executing, ExecutingPC, memory, flags, client, env
<1>27. ASSUME WorkerPush PROVE Steady'
  BY <1>1, <1>27 DEF WorkerPush, WorkerAt, TypeOK, Steady, SingleTask, Pushing, Executing, ExecutingPC, memory, flags, client, env
<1>28. ASSUME WorkerSignal PROVE Steady'
  BY <1>1, <1>28 DEF WorkerSignal, WorkerAt, TypeOK, Steady, SingleTask, Pushing, Executing, ExecutingPC, memory, flags, client, env
<1>29. ASSUME WorkerNotify PROVE Steady'
  BY <1>1, <1>29 DEF WorkerNotify, WorkerAt, NotifyAll, Goto, TypeOK, Steady, SingleTask, Pushing, Executing, ExecutingPC, memory, flags, client, env
<1>30. ASSUME UseAfterDestroy PROVE Steady'
  BY <1>1, <1>30 DEF UseAfterDestroy, WorkerAt, TypeOK, Steady, SingleTask, Pushing, Executing, ExecutingPC, memory, flags, client, env
<1>31. ASSUME UNCHANGED vars PROVE Steady'
  BY <1>1, <1>31 DEF vars, memory, flags, client, env, TypeOK, Steady, SingleTask, Pushing, Executing, ExecutingPC
<1>. QED  BY <1>2, <1>3, <1>4, <1>5, <1>6, <1>7, <1>8, <1>9, <1>10, <1>11, <1>12, <1>13, <1>14, <1>15, <1>16, <1>17, <1>18, <1>19, <1>20, <1>21, <1>22, <1>23, <1>24, <1>25, <1>26, <1>27, <1>28, <1>29, <1>30, <1>31
       DEF Next, Choice, UserStep, WorkerStep, Terminated

LEMMA NoLostWakeupStep == IInv /\ TypeOK' /\ [Next]_vars => NoLostWakeup'
<1>. SUFFICES ASSUME IInv, TypeOK', [Next]_vars PROVE NoLostWakeup'
  OBVIOUS
<1>1. TypeOK /\ SingleTask /\ Steady /\ NoLostWakeup
  BY DEF IInv
<1>2. Next \/ UNCHANGED vars
  OBVIOUS
<1>3. ASSUME NEW d \in DBs, BeginWrite(d) PROVE NoLostWakeup'
  <2>1. /\ user[d] = "idle"
        /\ \A e \in DBs \ {d} : user'[e] = user[e]
        /\ user'[d] \in {"flush", "log"}
    BY <1>1, <1>3 DEF BeginWrite, At, Goto, TypeOK
  <2>2. UNCHANGED <<queue, worker, job, running, scheduled>>
    BY <1>3 DEF BeginWrite, flags, env
  <2>. QED  BY <1>1, <2>1, <2>2 DEF NoLostWakeup, NoBackgroundTask
<1>4. ASSUME NEW d \in DBs, BeginDestroy(d) PROVE NoLostWakeup'
  BY <1>1, <1>4 DEF BeginDestroy, At, Goto, WaitForTask, NoBackgroundTask, TypeOK, NoLostWakeup, Steady, SingleTask, Pushing, ExecutingPC, LeavingPC, Executing, memory, flags, client, env
<1>5. ASSUME NEW d \in DBs, SpuriousWakeup(d) PROVE NoLostWakeup'
  BY <1>1, <1>5 DEF SpuriousWakeup, At, Goto, TypeOK, NoLostWakeup, Steady, SingleTask, Pushing, NoBackgroundTask, ExecutingPC, LeavingPC, Executing, memory, flags, client, env
<1>6. ASSUME NEW d \in DBs, UserFlushEnter(d) PROVE NoLostWakeup'
  BY <1>1, <1>6 DEF UserFlushEnter, At, Goto, TypeOK, NoLostWakeup, Steady, SingleTask, Pushing, NoBackgroundTask, ExecutingPC, LeavingPC, Executing, memory, flags, client, env
<1>7. ASSUME NEW d \in DBs, UserFlushFail(d) PROVE NoLostWakeup'
  BY <1>1, <1>7 DEF UserFlushFail, At, Goto, TypeOK, NoLostWakeup, Steady, SingleTask, Pushing, NoBackgroundTask, ExecutingPC, LeavingPC, Executing, memory, flags, client, env
<1>8. ASSUME NEW d \in DBs, UserFlushDone(d) PROVE NoLostWakeup'
  BY <1>1, <1>8 DEF UserFlushDone, At, Goto, InstallFlush, TypeOK, NoLostWakeup, Steady, SingleTask, Pushing, NoBackgroundTask, ExecutingPC, LeavingPC, Executing, memory, flags, client, env
<1>9. ASSUME NEW d \in DBs, UserLog(d) PROVE NoLostWakeup'
  BY <1>1, <1>9 DEF UserLog, At, Goto, TypeOK, NoLostWakeup, Steady, SingleTask, Pushing, NoBackgroundTask, ExecutingPC, LeavingPC, Executing, memory, flags, client, env
<1>10. ASSUME NEW d \in DBs, UserLogFail(d) PROVE NoLostWakeup'
  BY <1>1, <1>10 DEF UserLogFail, At, Goto, TypeOK, NoLostWakeup, Steady, SingleTask, Pushing, NoBackgroundTask, ExecutingPC, LeavingPC, Executing, memory, flags, client, env
<1>11. ASSUME NEW d \in DBs, UserMaybeSchedule(d) PROVE NoLostWakeup'
  <2>1. /\ user[d] = "maybe" /\ UNCHANGED <<queue, worker, job, running>>
        /\ \A e \in DBs : e # d => user'[e] = user[e] /\ scheduled'[e] = scheduled[e]
        /\ user'[d] \in {"push", "idle"}
    BY <1>1, <1>11 DEF UserMaybeSchedule, At, Goto, TypeOK, env
  <2>. QED  BY <1>1, <2>1 DEF NoLostWakeup, NoBackgroundTask
<1>12. ASSUME NEW d \in DBs, UserPush(d) PROVE NoLostWakeup'
  BY <1>1, <1>12 DEF UserPush, At, Goto, TypeOK, NoLostWakeup, Steady, SingleTask, Pushing, NoBackgroundTask, ExecutingPC, LeavingPC, Executing, memory, flags, client, env
<1>13. ASSUME NEW d \in DBs, UserSignal(d) PROVE NoLostWakeup'
  BY <1>1, <1>13 DEF UserSignal, At, Goto, NotifyWorker, TypeOK, NoLostWakeup, Steady, SingleTask, Pushing, NoBackgroundTask, ExecutingPC, LeavingPC, Executing, memory, flags, client, env
<1>14. ASSUME NEW d \in DBs, ResumeDestroy(d) PROVE NoLostWakeup'
  BY <1>1, <1>14 DEF ResumeDestroy, At, Goto, WaitForTask, NoBackgroundTask, TypeOK, NoLostWakeup, Steady, SingleTask, Pushing, ExecutingPC, LeavingPC, Executing, memory, flags, client, env
<1>15. ASSUME WorkerSleep PROVE NoLostWakeup'
  BY <1>1, <1>15 DEF WorkerSleep, WorkerAt, TypeOK, NoLostWakeup, Steady, SingleTask, Pushing, NoBackgroundTask, ExecutingPC, LeavingPC, Executing, memory, flags, client, env
<1>16. ASSUME WorkerTake PROVE NoLostWakeup'
  BY <1>1, <1>16 DEF WorkerTake, WorkerAt, TypeOK, NoLostWakeup, Steady, SingleTask, Pushing, NoBackgroundTask, ExecutingPC, LeavingPC, Executing, memory, flags, client, env
<1>17. ASSUME WorkerEnter PROVE NoLostWakeup'
  BY <1>1, <1>17 DEF WorkerEnter, WorkerAt, TypeOK, NoLostWakeup, Steady, SingleTask, Pushing, NoBackgroundTask, ExecutingPC, LeavingPC, Executing, memory, flags, client, env
<1>18. ASSUME WorkerChoose PROVE NoLostWakeup'
  BY <1>1, <1>18 DEF WorkerChoose, WorkerAt, TypeOK, NoLostWakeup, Steady, SingleTask, Pushing, NoBackgroundTask, ExecutingPC, LeavingPC, Executing, memory, flags, client, env
<1>19. ASSUME WorkerMemTable PROVE NoLostWakeup'
  BY <1>1, <1>19 DEF WorkerMemTable, WorkerAt, Rotate, TypeOK, NoLostWakeup, Steady, SingleTask, Pushing, NoBackgroundTask, ExecutingPC, LeavingPC, Executing, memory, flags, client, env
<1>20. ASSUME WorkerFlushEnter PROVE NoLostWakeup'
  BY <1>1, <1>20 DEF WorkerFlushEnter, WorkerAt, TypeOK, NoLostWakeup, Steady, SingleTask, Pushing, NoBackgroundTask, ExecutingPC, LeavingPC, Executing, memory, flags, client, env
<1>21. ASSUME WorkerFlushDone PROVE NoLostWakeup'
  BY <1>1, <1>21 DEF WorkerFlushDone, WorkerAt, InstallFlush, TypeOK, NoLostWakeup, Steady, SingleTask, Pushing, NoBackgroundTask, ExecutingPC, LeavingPC, Executing, memory, flags, client, env
<1>22. ASSUME WorkerCompactDone PROVE NoLostWakeup'
  BY <1>1, <1>22 DEF WorkerCompactDone, WorkerAt, TypeOK, NoLostWakeup, Steady, SingleTask, Pushing, NoBackgroundTask, ExecutingPC, LeavingPC, Executing, memory, flags, client, env
<1>23. ASSUME WorkerFail PROVE NoLostWakeup'
  BY <1>1, <1>23 DEF WorkerFail, WorkerAt, TypeOK, NoLostWakeup, Steady, SingleTask, Pushing, NoBackgroundTask, ExecutingPC, LeavingPC, Executing, memory, flags, client, env
<1>24. ASSUME RecordBackgroundError PROVE NoLostWakeup'
  BY <1>1, <1>24 DEF RecordBackgroundError, WorkerAt, TypeOK, NoLostWakeup, Steady, SingleTask, Pushing, NoBackgroundTask, ExecutingPC, LeavingPC, Executing, memory, flags, client, env
<1>25. ASSUME WorkerClear PROVE NoLostWakeup'
  BY <1>1, <1>25 DEF WorkerClear, WorkerAt, TypeOK, NoLostWakeup, Steady, SingleTask, Pushing, NoBackgroundTask, ExecutingPC, LeavingPC, Executing, memory, flags, client, env
<1>26. ASSUME WorkerMaybeSchedule PROVE NoLostWakeup'
  BY <1>1, <1>26 DEF WorkerMaybeSchedule, WorkerAt, MaySchedule, TypeOK, NoLostWakeup, Steady, SingleTask, Pushing, NoBackgroundTask, ExecutingPC, LeavingPC, Executing, memory, flags, client, env
<1>27. ASSUME WorkerPush PROVE NoLostWakeup'
  BY <1>1, <1>27 DEF WorkerPush, WorkerAt, TypeOK, NoLostWakeup, Steady, SingleTask, Pushing, NoBackgroundTask, ExecutingPC, LeavingPC, Executing, memory, flags, client, env
<1>28. ASSUME WorkerSignal PROVE NoLostWakeup'
  BY <1>1, <1>28 DEF WorkerSignal, WorkerAt, TypeOK, NoLostWakeup, Steady, SingleTask, Pushing, NoBackgroundTask, ExecutingPC, LeavingPC, Executing, memory, flags, client, env
<1>29. ASSUME WorkerNotify PROVE NoLostWakeup'
  <2>1. /\ job \in DBs /\ worker = "notify" /\ worker' = "look"
        /\ UNCHANGED <<running, scheduled>>
    BY <1>1, <1>29 DEF WorkerNotify, WorkerAt, TypeOK, ExecutingPC, LeavingPC, flags
  <2>2. user'[job] # "waiting" /\ \A e \in DBs : e # job => user'[e] = user[e]
    BY <1>1, <1>29, <2>1 DEF WorkerNotify, NotifyAll, Goto, TypeOK
  <2>. QED  BY <1>1, <2>1, <2>2 DEF NoLostWakeup, NoBackgroundTask
<1>30. ASSUME UseAfterDestroy PROVE NoLostWakeup'
  BY <1>1, <1>30 DEF UseAfterDestroy, WorkerAt, TypeOK, NoLostWakeup, Steady, SingleTask, Pushing, NoBackgroundTask, ExecutingPC, LeavingPC, Executing, memory, flags, client, env
<1>31. ASSUME UNCHANGED vars PROVE NoLostWakeup'
  BY <1>1, <1>31 DEF vars, memory, flags, client, env, TypeOK, NoLostWakeup, Steady, SingleTask, Pushing, NoBackgroundTask, ExecutingPC, LeavingPC, Executing
<1>. QED  BY <1>2, <1>3, <1>4, <1>5, <1>6, <1>7, <1>8, <1>9, <1>10, <1>11, <1>12, <1>13, <1>14, <1>15, <1>16, <1>17, <1>18, <1>19, <1>20, <1>21, <1>22, <1>23, <1>24, <1>25, <1>26, <1>27, <1>28, <1>29, <1>30, <1>31
       DEF Next, Choice, UserStep, WorkerStep, Terminated

(* NoForgottenWork, step by step: a section that ends a task reschedules,  *)
(* and only a scheduled or executing task makes new work for an idle DB.   *)
LEMMA RememberedStep == IInv /\ TypeOK' /\ [Next]_vars => Remembered'
<1>. SUFFICES ASSUME IInv, TypeOK', [Next]_vars PROVE Remembered'
  OBVIOUS
<1>1. TypeOK /\ SingleTask /\ Steady /\ Remembered
  BY DEF IInv
<1>2. Next \/ UNCHANGED vars
  OBVIOUS
<1>3. ASSUME NEW d \in DBs, BeginWrite(d) PROVE Remembered'
  BY <1>1, <1>3 DEF BeginWrite, At, Goto, Rotate, NeedsWork, NeedsCompaction, TypeOK, SingleTask, Pushing, Executing, ExecutingPC, Remembered, memory, flags, client, env
<1>4. ASSUME NEW d \in DBs, BeginDestroy(d) PROVE Remembered'
  BY <1>1, <1>4 DEF BeginDestroy, At, Goto, WaitForTask, NoBackgroundTask, NeedsWork, NeedsCompaction, TypeOK, SingleTask, Pushing, Executing, ExecutingPC, Remembered, memory, flags, client, env
<1>5. ASSUME NEW d \in DBs, SpuriousWakeup(d) PROVE Remembered'
  BY <1>1, <1>5 DEF SpuriousWakeup, At, Goto, NeedsWork, NeedsCompaction, TypeOK, SingleTask, Pushing, Executing, ExecutingPC, Remembered, memory, flags, client, env
<1>6. ASSUME NEW d \in DBs, UserFlushEnter(d) PROVE Remembered'
  BY <1>1, <1>6 DEF UserFlushEnter, At, Goto, NeedsWork, NeedsCompaction, TypeOK, SingleTask, Pushing, Executing, ExecutingPC, Remembered, memory, flags, client, env
<1>7. ASSUME NEW d \in DBs, UserFlushFail(d) PROVE Remembered'
  BY <1>1, <1>7 DEF UserFlushFail, At, Goto, NeedsWork, NeedsCompaction, TypeOK, SingleTask, Pushing, Executing, ExecutingPC, Remembered, memory, flags, client, env
<1>8. ASSUME NEW d \in DBs, UserFlushDone(d) PROVE Remembered'
  BY <1>1, <1>8 DEF UserFlushDone, At, Goto, InstallFlush, NeedsWork, NeedsCompaction, TypeOK, SingleTask, Pushing, Executing, ExecutingPC, Remembered, memory, flags, client, env
<1>9. ASSUME NEW d \in DBs, UserLog(d) PROVE Remembered'
  BY <1>1, <1>9 DEF UserLog, At, Goto, NeedsWork, NeedsCompaction, TypeOK, SingleTask, Pushing, Executing, ExecutingPC, Remembered, memory, flags, client, env
<1>10. ASSUME NEW d \in DBs, UserLogFail(d) PROVE Remembered'
  BY <1>1, <1>10 DEF UserLogFail, At, Goto, NeedsWork, NeedsCompaction, TypeOK, SingleTask, Pushing, Executing, ExecutingPC, Remembered, memory, flags, client, env
<1>11. ASSUME NEW d \in DBs, UserMaybeSchedule(d) PROVE Remembered'
  BY <1>1, <1>11 DEF UserMaybeSchedule, At, Goto, MaySchedule, NeedsWork, NeedsCompaction, TypeOK, SingleTask, Pushing, Executing, ExecutingPC, Remembered, memory, flags, client, env
<1>12. ASSUME NEW d \in DBs, UserPush(d) PROVE Remembered'
  BY <1>1, <1>12 DEF UserPush, At, Goto, NeedsWork, NeedsCompaction, TypeOK, SingleTask, Pushing, Executing, ExecutingPC, Remembered, memory, flags, client, env
<1>13. ASSUME NEW d \in DBs, UserSignal(d) PROVE Remembered'
  BY <1>1, <1>13 DEF UserSignal, At, Goto, NotifyWorker, NeedsWork, NeedsCompaction, TypeOK, SingleTask, Pushing, Executing, ExecutingPC, Remembered, memory, flags, client, env
<1>14. ASSUME NEW d \in DBs, ResumeDestroy(d) PROVE Remembered'
  BY <1>1, <1>14 DEF ResumeDestroy, At, Goto, WaitForTask, NoBackgroundTask, NeedsWork, NeedsCompaction, TypeOK, SingleTask, Pushing, Executing, ExecutingPC, Remembered, memory, flags, client, env
<1>15. ASSUME WorkerSleep PROVE Remembered'
  BY <1>1, <1>15 DEF WorkerSleep, WorkerAt, NeedsWork, NeedsCompaction, TypeOK, SingleTask, Pushing, Executing, ExecutingPC, Remembered, memory, flags, client, env
<1>16. ASSUME WorkerTake PROVE Remembered'
  BY <1>1, <1>16 DEF WorkerTake, WorkerAt, NeedsWork, NeedsCompaction, TypeOK, SingleTask, Pushing, Executing, ExecutingPC, Remembered, memory, flags, client, env
<1>17. ASSUME WorkerEnter PROVE Remembered'
  BY <1>1, <1>17 DEF WorkerEnter, WorkerAt, NeedsWork, NeedsCompaction, TypeOK, SingleTask, Pushing, Executing, ExecutingPC, Remembered, memory, flags, client, env
<1>18. ASSUME WorkerChoose PROVE Remembered'
  BY <1>1, <1>18 DEF WorkerChoose, WorkerAt, NeedsWork, NeedsCompaction, TypeOK, SingleTask, Pushing, Executing, ExecutingPC, Remembered, memory, flags, client, env
<1>19. ASSUME WorkerMemTable PROVE Remembered'
  BY <1>1, <1>19 DEF WorkerMemTable, WorkerAt, Rotate, NeedsWork, NeedsCompaction, TypeOK, SingleTask, Pushing, Executing, ExecutingPC, Remembered, memory, flags, client, env
<1>20. ASSUME WorkerFlushEnter PROVE Remembered'
  BY <1>1, <1>20 DEF WorkerFlushEnter, WorkerAt, NeedsWork, NeedsCompaction, TypeOK, SingleTask, Pushing, Executing, ExecutingPC, Remembered, memory, flags, client, env
<1>21. ASSUME WorkerFlushDone PROVE Remembered'
  BY <1>1, <1>21 DEF WorkerFlushDone, WorkerAt, InstallFlush, NeedsWork, NeedsCompaction, TypeOK, SingleTask, Pushing, Executing, ExecutingPC, Remembered, memory, flags, client, env
<1>22. ASSUME WorkerCompactDone PROVE Remembered'
  BY <1>1, <1>22 DEF WorkerCompactDone, WorkerAt, NeedsWork, NeedsCompaction, TypeOK, SingleTask, Pushing, Executing, ExecutingPC, Remembered, memory, flags, client, env
<1>23. ASSUME WorkerFail PROVE Remembered'
  BY <1>1, <1>23 DEF WorkerFail, WorkerAt, NeedsWork, NeedsCompaction, TypeOK, SingleTask, Pushing, Executing, ExecutingPC, Remembered, memory, flags, client, env
<1>24. ASSUME RecordBackgroundError PROVE Remembered'
  BY <1>1, <1>24 DEF RecordBackgroundError, WorkerAt, NeedsWork, NeedsCompaction, TypeOK, SingleTask, Pushing, Executing, ExecutingPC, Remembered, memory, flags, client, env
<1>25. ASSUME WorkerClear PROVE Remembered'
  BY <1>1, <1>25 DEF WorkerClear, WorkerAt, NeedsWork, NeedsCompaction, TypeOK, SingleTask, Pushing, Executing, ExecutingPC, Remembered, memory, flags, client, env
<1>26. ASSUME WorkerMaybeSchedule PROVE Remembered'
  BY <1>1, <1>26 DEF WorkerMaybeSchedule, WorkerAt, MaySchedule, NeedsWork, NeedsCompaction, TypeOK, SingleTask, Pushing, Executing, ExecutingPC, Remembered, memory, flags, client, env
<1>27. ASSUME WorkerPush PROVE Remembered'
  BY <1>1, <1>27 DEF WorkerPush, WorkerAt, NeedsWork, NeedsCompaction, TypeOK, SingleTask, Pushing, Executing, ExecutingPC, Remembered, memory, flags, client, env
<1>28. ASSUME WorkerSignal PROVE Remembered'
  BY <1>1, <1>28 DEF WorkerSignal, WorkerAt, NeedsWork, NeedsCompaction, TypeOK, SingleTask, Pushing, Executing, ExecutingPC, Remembered, memory, flags, client, env
<1>29. ASSUME WorkerNotify PROVE Remembered'
  BY <1>1, <1>29 DEF WorkerNotify, WorkerAt, NotifyAll, Goto, NeedsWork, NeedsCompaction, TypeOK, SingleTask, Pushing, Executing, ExecutingPC, Remembered, memory, flags, client, env
<1>30. ASSUME UseAfterDestroy PROVE Remembered'
  BY <1>1, <1>30 DEF UseAfterDestroy, WorkerAt, NeedsWork, NeedsCompaction, TypeOK, SingleTask, Pushing, Executing, ExecutingPC, Remembered, memory, flags, client, env
<1>31. ASSUME UNCHANGED vars PROVE Remembered'
  BY <1>1, <1>31 DEF vars, memory, flags, client, env, NeedsWork, NeedsCompaction, TypeOK, SingleTask, Pushing, Executing, ExecutingPC, Remembered
<1>. QED  BY <1>2, <1>3, <1>4, <1>5, <1>6, <1>7, <1>8, <1>9, <1>10, <1>11, <1>12, <1>13, <1>14, <1>15, <1>16, <1>17, <1>18, <1>19, <1>20, <1>21, <1>22, <1>23, <1>24, <1>25, <1>26, <1>27, <1>28, <1>29, <1>30, <1>31
       DEF Next, Choice, UserStep, WorkerStep, Terminated

-----------------------------------------------------------------------------
LEMMA InvariantStep == IInv /\ [Next]_vars => IInv'
BY TypeStep, SingleTaskStep, SteadyStep, NoLostWakeupStep, RememberedStep DEF IInv

LEMMA InvariantHolds == Spec => []IInv
BY InitInvariant, InvariantStep, PTL DEF Spec

(* Every variable keeps its type, whatever the number of DBs and of writes.*)
THEOREM TypeCorrect == Spec => []TypeOK
<1>1. IInv => TypeOK
  BY DEF IInv
<1>. QED  BY <1>1, InvariantHolds, PTL

(* However the user threads, the Env's queue and its thread interleave, a  *)
(* DBImpl never has two background tasks, and the scheduled flag tells     *)
(* whether it has one.                                                     *)
THEOREM AtMostOneTask == Spec => []SingleTask
<1>1. IInv => SingleTask
  BY DEF IInv
<1>. QED  BY <1>1, InvariantHolds, PTL

(* When ~DBImpl has returned, no flush or compaction of that DB is pending *)
(* or under way.                                                           *)
THEOREM DestructorWaits == Spec => []DestroyedIsQuiet
<1>1. IInv => DestroyedIsQuiet
  BY DEF IInv, TypeOK, SingleTask, Steady, DestroyedIsQuiet
<1>. QED  BY <1>1, InvariantHolds, PTL

(* Neither the Env's thread nor a destructor sleeps through a notification *)
(* it needed.                                                              *)
THEOREM WakeupsArrive == Spec => []NoLostWakeup
<1>1. IInv => NoLostWakeup
  BY DEF IInv
<1>. QED  BY <1>1, InvariantHolds, PTL

(* A write that left the scheduling to the running task is not forgotten:  *)
(* when its thread is idle and work remains, a task is scheduled or the    *)
(* worker is about to schedule one, whatever ran in between.               *)
THEOREM WorkRemembered == Spec => []NoForgottenWork
<1>1. IInv => NoForgottenWork
  BY DEF IInv, Remembered, NoForgottenWork
<1>. QED  BY <1>1, InvariantHolds, PTL
=============================================================================
