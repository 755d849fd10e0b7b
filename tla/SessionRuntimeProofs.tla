------------------------ MODULE SessionRuntimeProofs ------------------------
(***************************************************************************)
(* Theorems about SessionRuntime, for every value of its constants: its    *)
(* types, the control lease, that the runtime implements ControlLease, and *)
(* of its batches: requests of a session never interleave, nothing a       *)
(* request took outlives it, and a batch that was cancelled or whose       *)
(* session was taken over posts at most one more input.                    *)
(*                                                                         *)
(* An invariant is proved from an inductive one: Typed for the types,      *)
(* LeaseInv, which adds to LeaseHeld what a stop in progress relies on,    *)
(* BusyInv for the busy lock and the batch tokens, and OverrunInv for what *)
(* a batch still posts.                                                    *)
(***************************************************************************)
EXTENDS SessionRuntime, TLAPS

USE SessionRuntimeAssumption DEF SessionRuntimeAssumption

-----------------------------------------------------------------------------
(* Types.                                                                  *)

\* Program points at which a batch has an action left to run.
Loaded == {"queued", "prepare", "loop", "check", "arming", "posting", "posted",
           "waiting"}

\* TypeOK, and the two facts its steps need: a stop in progress knows its
\* session, and a registered batch has something left to run.
Typed ==
  /\ TypeOK
  /\ \A c \in Stoppers :
       pc[c] \in {"closing", "marking", "releasing"} => on[c] \in Sessions
  /\ \A a \in Acts : pc[a] \in Loaded => left[a] >= 1

\* Reset gives one element of a function a new value of the function's range.
LEMMA ResetType ==
  ASSUME NEW X, NEW Y, NEW f \in [X -> Y], NEW r, NEW v \in Y
  PROVE  Reset(f, r, v) \in [X -> Y]
BY DEF Reset

\* However a request ends, the state it leaves behind is well typed.
LEMMA FinishTyped ==
  ASSUME Typed, NEW r \in Requests, Finish(r), tapActive' \in BOOLEAN,
         UNCHANGED <<lockVars, sessionVars, transVars, humanVars, shutdownVars,
                     stopped>>
  PROVE  Typed'
<1>1. /\ on' \in [Threads -> Sessions \cup {None}]
      /\ \A p \in Threads \ {r} : on'[p] = on[p]
  BY DEF Typed, TypeOK, Finish, Reset
<1>2. token' \in [Acts -> Tokens]
  BY ResetType DEF Typed, TypeOK, Finish, Tokens
<1>3. /\ left' \in [Acts -> 0..MaxActions]
      /\ \A a \in Acts \ {r} : left'[a] = left[a]
  <2>1. 0 \in 0..MaxActions
    OBVIOUS
  <2> QED
    BY <2>1 DEF Typed, TypeOK, Finish, Reset
<1>4. seen' \in [Acts -> Nat] /\ late' \in [Acts -> Nat] /\ after' \in [Acts -> Nat]
  BY ResetType DEF Typed, TypeOK, Finish
<1>5. heuristic' \in [Acts -> BOOLEAN]
  BY ResetType DEF Typed, TypeOK, Finish
<1>6. busy' \in [Sessions -> Requests \cup {None}]
  BY DEF Typed, TypeOK, Finish, Unlocked
<1>7. pc' \in [Threads -> PCs]
  BY DEF Typed, TypeOK, Finish, Goto, PCs
<1>8. TypeOK'
  BY <1>1, <1>2, <1>3, <1>4, <1>5, <1>6, <1>7
  DEF Typed, TypeOK, lockVars, sessionVars, transVars, humanVars, shutdownVars
<1>9. ASSUME NEW c \in Stoppers, pc'[c] \in {"closing", "marking", "releasing"}
      PROVE  on'[c] \in Sessions
  <2>1. c # r /\ c \in Threads
    BY DEF Requests, Stoppers, Threads
  <2> QED
    BY <1>1, <1>9, <2>1 DEF Typed, TypeOK, Finish, Goto
<1>10. ASSUME NEW a \in Acts, pc'[a] \in Loaded
       PROVE  left'[a] >= 1
  <2>1. a # r /\ a \in Threads
    BY <1>10 DEF Typed, TypeOK, Finish, Goto, Loaded, Requests, Threads
  <2> QED
    BY <1>3, <1>10, <2>1 DEF Typed, TypeOK, Finish, Goto
<1> QED
  BY <1>8, <1>9, <1>10 DEF Typed

\* A batch that consumes a human event enters a transition and ends its loop.
LEMMA ConsumeTyped ==
  ASSUME Typed, NEW a \in Acts, NEW to \in {"settle", "leave"}, Consume(a, to)
  PROVE  Typed'
BY DEF Typed, TypeOK, Consume, BeginTransition, Goto, Loaded, Threads, Requests,
       Stoppers, Stages, Ops, PCs, lockVars, sessionVars, batchVars,
       shutdownVars, countVars

\* A batch that only moves on keeps what it has left to run.
LEMMA MoveTyped ==
  ASSUME Typed, NEW a \in Acts, NEW to \in PCs, Move(a, to),
         to \in Loaded => pc[a] \in Loaded
  PROVE  Typed'
BY DEF Typed, TypeOK, Move, Goto, Loaded, Threads, Requests, Stoppers, PCs,
       lockVars, sessionVars, transVars, batchVars, humanVars, shutdownVars,
       countVars

\* Every step of every thread preserves the types.
LEMMA TypedNext ==
  ASSUME Typed, [Next]_vars
  PROVE  Typed'

<1> USE DEF Threads, Requests, Stoppers, PCs, Stages, Tokens, lockVars,
            sessionVars, transVars, batchVars, humanVars, shutdownVars,
            countVars
<1>1. ASSUME NEW p \in Threads, TransitionCheck(p)
      PROVE  Typed'
  BY <1>1 DEF TransitionCheck, EndTransition, Ops, Typed, TypeOK, Loaded
<1>2. ASSUME NEW p \in Threads, TransitionSet(p)
      PROVE  Typed'
  BY <1>2 DEF TransitionSet, Target, SessionStates, Typed, TypeOK, Loaded
<1>3. ASSUME NEW p \in Threads, TransitionEffects(p)
      PROVE  Typed'
  BY <1>3 DEF TransitionEffects, EndTransition, Cancelled, Ops, Typed, TypeOK,
     Loaded
<1>4. ASSUME NEW s \in Sessions, StartOpen(s)
      PROVE  Typed'
  BY <1>4 DEF StartOpen, StartStates, Typed, TypeOK, Loaded
<1>5. ASSUME NEW s \in Sessions, StartAcquire(s)
      PROVE  Typed'
  BY <1>5 DEF StartAcquire, StartStates, Typed, TypeOK, Loaded
<1>6. ASSUME NEW s \in Sessions, StartInsert(s)
      PROVE  Typed'
  BY <1>6 DEF StartInsert, StartStates, Typed, TypeOK, Loaded
<1>7. ASSUME NEW s \in Sessions, StartReturn(s)
      PROVE  Typed'
  BY <1>7 DEF StartReturn, StartStates, Typed, TypeOK, Loaded
<1>8. ASSUME NEW s \in Sessions, StartTimeout(s)
      PROVE  Typed'
  BY <1>8 DEF StartTimeout, StartStates, Typed, TypeOK, Loaded
<1>9. ASSUME NEW c \in Calls, NEW s \in Sessions, SessionPause(c, s)
      PROVE  Typed'
  BY <1>9 DEF SessionPause, CallTransition, BeginTransition, Step, Goto, Ops,
     Typed, TypeOK, Loaded
<1>10. ASSUME NEW c \in Calls, NEW s \in Sessions, SessionResume(c, s)
      PROVE  Typed'
  BY <1>10 DEF SessionResume, CallTransition, BeginTransition, Step, Goto, Ops,
     Typed, TypeOK, Loaded
<1>11. ASSUME NEW c \in Calls, NEW s \in Sessions, SessionTakeover(c, s)
      PROVE  Typed'
  BY <1>11 DEF SessionTakeover, CallTransition, BeginTransition, Step, Goto,
     Ops, Typed, TypeOK, Loaded
<1>12. ASSUME NEW c \in Calls, NEW s \in Sessions, SessionRelease(c, s)
      PROVE  Typed'
  BY <1>12 DEF SessionRelease, CallTransition, BeginTransition, Step, Goto, Ops,
     Typed, TypeOK, Loaded
<1>13. ASSUME NEW c \in Calls, NEW s \in Sessions, SessionCancel(c, s)
      PROVE  Typed'
  BY <1>13 DEF SessionCancel, Step, Goto, Typed, TypeOK, Loaded
<1>14. ASSUME NEW c \in Calls, NEW s \in Sessions, SessionStop(c, s)
      PROVE  Typed'
  BY <1>14 DEF SessionStop, StopSession, Returned, BeginTransition, Goto, Ops,
     Typed, TypeOK, Loaded
<1>15. ASSUME NEW c \in Calls, StopTimeout(c)
      PROVE  Typed'
  BY <1>15 DEF StopTimeout, Step, Goto, Typed, TypeOK, Loaded
<1>16. ASSUME NEW c \in Stoppers, MarkStopped(c)
      PROVE  Typed'
  BY <1>16 DEF MarkStopped, Goto, SessionStates, Typed, TypeOK, Loaded
<1>17. ASSUME NEW c \in Stoppers, ReleaseLock(c)
      PROVE  Typed'
  BY <1>17 DEF ReleaseLock, Released, Returned, Step, Goto, Typed, TypeOK,
     Loaded
<1>18. ASSUME NEW c \in Stoppers, CancelTokens(c)
      PROVE  Typed'
  BY <1>18 DEF CancelTokens, Cancelled, Step, Goto, Typed, TypeOK, Loaded
<1>19. ASSUME ShutdownBegin
      PROVE  Typed'
  BY <1>19 DEF ShutdownBegin, Step, Goto, Typed, TypeOK, Loaded
<1>20. ASSUME ShutdownSnapshot
      PROVE  Typed'
  BY <1>20 DEF ShutdownSnapshot, Inserted, Step, Goto, Typed, TypeOK, Loaded
<1>21. ASSUME ShutdownStop
      PROVE  Typed'
  BY <1>21 DEF ShutdownStop, StopSession, Returned, BeginTransition, Goto, Ops,
     Typed, TypeOK, Loaded
<1>22. ASSUME ShutdownDriver
      PROVE  Typed'
  BY <1>22 DEF ShutdownDriver, Step, Goto, Typed, TypeOK, Loaded
<1>23. ASSUME NEW a \in Acts, NEW s \in Sessions, ActGate(a, s)
      PROVE  Typed'
  BY <1>23 DEF ActGate, Gate, Goto, Typed, TypeOK, Loaded
<1>24. ASSUME NEW a \in Acts, ActRegister(a)
      PROVE  Typed'
  BY <1>24 DEF ActRegister, Step, Goto, Typed, TypeOK, Loaded
<1>25. ASSUME NEW a \in Acts, ActAdmit(a)
      PROVE  Typed'
  <2>1. CASE Finish(a)
    BY <1>25, <2>1, FinishTyped DEF ActAdmit, Typed, TypeOK
  <2>2. CASE ~Finish(a)
    BY <1>25, <2>2 DEF ActAdmit, Goto, Typed, TypeOK, Loaded
  <2> QED
    BY <2>1, <2>2
<1>26. ASSUME NEW a \in Acts, ActPrepare(a)
      PROVE  Typed'
  <2>1. CASE Finish(a)
    BY <1>26, <2>1, FinishTyped DEF ActPrepare, Typed, TypeOK
  <2>2. CASE ~Finish(a)
    BY <1>26, <2>2 DEF ActPrepare, Goto, Typed, TypeOK, Loaded
  <2> QED
    BY <2>1, <2>2
<1>27. ASSUME NEW a \in Acts, LoopConsume(a)
      PROVE  Typed'
  BY <1>27, ConsumeTyped, MoveTyped DEF LoopConsume, Loaded
<1>28. ASSUME NEW a \in Acts, LoopCheck(a)
      PROVE  Typed'
  BY <1>28 DEF LoopCheck, Move, Goto, Typed, TypeOK, Loaded
<1>29. ASSUME NEW a \in Acts, ClickCheck(a)
      PROVE  Typed'
  BY <1>29 DEF ClickCheck, Goto, Typed, TypeOK, Loaded
<1>30. ASSUME NEW a \in Acts, Post(a)
      PROVE  Typed'
  BY <1>30 DEF Post, Step, Goto, Typed, TypeOK, Loaded
<1>31. ASSUME NEW a \in Acts, WaitPoll(a)
      PROVE  Typed'
  BY <1>31, ConsumeTyped, MoveTyped DEF WaitPoll, Loaded
<1>32. ASSUME NEW a \in Acts, ActNext(a)
      PROVE  Typed'
  <2>1. CASE Finish(a)
    BY <1>32, <2>1, FinishTyped DEF ActNext, Typed, TypeOK
  <2>2. CASE ~Finish(a)
    BY <1>32, <2>2 DEF ActNext, Following, Goto, Typed, TypeOK, Loaded
  <2> QED
    BY <2>1, <2>2
<1>33. ASSUME NEW a \in Acts, HeuristicGrab(a)
      PROVE  Typed'
  BY <1>33 DEF HeuristicGrab, BeginTransition, Step, Goto, Ops, Typed, TypeOK,
     Loaded
<1>34. ASSUME NEW a \in Acts, Settle(a)
      PROVE  Typed'
  BY <1>34, ConsumeTyped, MoveTyped DEF Settle, Loaded
<1>35. ASSUME NEW a \in Acts, Final(a)
      PROVE  Typed'
  BY <1>35, MoveTyped DEF Final, Loaded
<1>36. ASSUME NEW r \in Requests, Capture(r)
      PROVE  Typed'
  BY <1>36, FinishTyped DEF Capture, Exit, Typed, TypeOK
<1>37. ASSUME NEW a \in Acts, Leave(a)
      PROVE  Typed'
  BY <1>37, FinishTyped DEF Leave, Exit, Typed, TypeOK
<1>38. ASSUME NEW o \in Observes, NEW s \in Sessions, ObserveGate(o, s)
      PROVE  Typed'
  BY <1>38 DEF ObserveGate, Gate, Goto, Typed, TypeOK, Loaded
<1>39. ASSUME NEW o \in Observes, ObserveAdmit(o)
      PROVE  Typed'
  BY <1>39 DEF ObserveAdmit, Step, Goto, Typed, TypeOK, Loaded
<1>40. ASSUME NEW r \in Requests, RequestTimeout(r)
      PROVE  Typed'
  BY <1>40, FinishTyped DEF RequestTimeout
<1>41. ASSUME HumanEvent
      PROVE  Typed'
  BY <1>41 DEF HumanEvent, Step, Goto, Typed, TypeOK, Loaded
<1>42. ASSUME HumanHook
      PROVE  Typed'
  BY <1>42 DEF HumanHook, Cancelled, Inserted, BeginTransition, Step, Goto, Ops,
     Typed, TypeOK, Loaded
<1>43. CASE UNCHANGED vars
  BY <1>43 DEF Typed, TypeOK, vars
<1> QED
  BY <1>1, <1>2, <1>3, <1>4, <1>5, <1>6, <1>7, <1>8, <1>9, <1>10, <1>11, <1>12,
     <1>13, <1>14, <1>15, <1>16, <1>17, <1>18, <1>19, <1>20, <1>21, <1>22,
     <1>23, <1>24, <1>25, <1>26, <1>27, <1>28, <1>29, <1>30, <1>31, <1>32,
     <1>33, <1>34, <1>35, <1>36, <1>37, <1>38, <1>39, <1>40, <1>41, <1>42, <1>43
  DEF Next, Transition, StartStep, Request, CallStep, ShutdownStep, ActStep,
     ObserveStep

\* The initial states are well typed.
LEMMA InitTyped == Init => Typed
<1> SUFFICES ASSUME Init PROVE Typed
  OBVIOUS
<1>1. 0 \in 0..MaxActions
  OBVIOUS
<1>2. pc \in [Threads -> PCs]
  BY DEF Init, PCs
<1>3. TypeOK
  BY <1>1, <1>2 DEF Init, TypeOK, StartStates, SessionStates, Stages, Tokens,
     Ops
<1>4. \A p \in Threads : pc[p] \in {"idle", "unsent"}
  BY DEF Init
<1> QED
  BY <1>3, <1>4 DEF Typed, Loaded, Threads, Requests, Stoppers

\* The model's types are right (TypeOK).
THEOREM Types == Spec => []TypeOK
<1>1. Init => Typed
  BY InitTyped
<1>2. Typed /\ [Next]_vars => Typed'
  BY TypedNext
<1>3. Typed => TypeOK
  BY DEF Typed
<1> QED
  BY <1>1, <1>2, <1>3, PTL DEF Spec
-----------------------------------------------------------------------------
(* The control lease.                                                      *)

\* What a step may do and leave the lease alone: no lock, start or stop moves.
LeaseUntouched ==
  /\ UNCHANGED <<holder, start, stopped, todo>>
  /\ \A c \in Stoppers : pc'[c] = pc[c] /\ on'[c] = on[c]

\* LeaseHeld, strengthened by what the calls that end a lease rely on: a
\* session that has not started has not stopped, a stop in progress is of a
\* session in the map, and the lock is given back after the session stopped.
LeaseInv ==
  /\ LeaseHeld
  /\ \A s \in Sessions :
       start[s] \in {"unborn", "opening", "rejected"} => s \notin stopped
  /\ \A c \in Stoppers : pc[c] \in {"closing", "marking"} => on[c] \in Inserted
  /\ \A c \in Stoppers : pc[c] = "releasing" => on[c] \in stopped
  /\ todo \subseteq Inserted

LEMMA UntouchedLease ==
  ASSUME LeaseInv, LeaseUntouched
  PROVE  LeaseInv'
BY DEF LeaseInv, LeaseHeld, LeaseUntouched, Inserted

\* The guards a request drops are its own.
LEMMA FinishUntouched ==
  ASSUME Typed, NEW r \in Requests, Finish(r),
         UNCHANGED <<holder, start, stopped, todo>>
  PROVE  LeaseUntouched
BY DEF Typed, TypeOK, Finish, Reset, Goto, LeaseUntouched, Threads, Requests,
   Stoppers

\* Acts, observes and the human never touch the lease.
LEMMA RequestsLeaveLease ==
  ASSUME Typed,
         \/ \E a \in Acts, s \in Sessions : ActGate(a, s)
         \/ \E a \in Acts : ActStep(a)
         \/ \E o \in Observes, s \in Sessions : ObserveGate(o, s)
         \/ \E o \in Observes : ObserveStep(o)
         \/ \E r \in Requests : RequestTimeout(r)
         \/ HumanEvent \/ HumanHook
  PROVE  LeaseUntouched
<1> USE DEF Typed, TypeOK, Threads, Requests, Stoppers, lockVars, shutdownVars
<1>1. ASSUME NEW a \in Acts, NEW s \in Sessions, ActGate(a, s)
      PROVE  LeaseUntouched
  BY <1>1 DEF ActGate, Gate, Goto, LeaseUntouched
<1>2. ASSUME NEW a \in Acts, ActRegister(a)
      PROVE  LeaseUntouched
  BY <1>2 DEF ActRegister, Step, Goto, LeaseUntouched
<1>3. ASSUME NEW a \in Acts, ActAdmit(a)
      PROVE  LeaseUntouched
  <2>1. CASE Finish(a)
    BY <1>3, <2>1, FinishUntouched DEF ActAdmit
  <2>2. CASE ~Finish(a)
    BY <1>3, <2>2 DEF ActAdmit, Goto, LeaseUntouched
  <2> QED
    BY <2>1, <2>2
<1>4. ASSUME NEW a \in Acts, ActPrepare(a)
      PROVE  LeaseUntouched
  <2>1. CASE Finish(a)
    BY <1>4, <2>1, FinishUntouched DEF ActPrepare
  <2>2. CASE ~Finish(a)
    BY <1>4, <2>2 DEF ActPrepare, Goto, LeaseUntouched
  <2> QED
    BY <2>1, <2>2
<1>5. ASSUME NEW a \in Acts, LoopConsume(a)
      PROVE  LeaseUntouched
  BY <1>5 DEF LoopConsume, Consume, Move, BeginTransition, Goto, LeaseUntouched
<1>6. ASSUME NEW a \in Acts, LoopCheck(a)
      PROVE  LeaseUntouched
  BY <1>6 DEF LoopCheck, Move, Goto, LeaseUntouched
<1>7. ASSUME NEW a \in Acts, ClickCheck(a)
      PROVE  LeaseUntouched
  BY <1>7 DEF ClickCheck, Goto, LeaseUntouched
<1>8. ASSUME NEW a \in Acts, Post(a)
      PROVE  LeaseUntouched
  BY <1>8 DEF Post, Step, Goto, LeaseUntouched
<1>9. ASSUME NEW a \in Acts, WaitPoll(a)
      PROVE  LeaseUntouched
  BY <1>9 DEF WaitPoll, Consume, Move, BeginTransition, Goto, LeaseUntouched
<1>10. ASSUME NEW a \in Acts, ActNext(a)
      PROVE  LeaseUntouched
  <2>1. CASE Finish(a)
    BY <1>10, <2>1, FinishUntouched DEF ActNext
  <2>2. CASE ~Finish(a)
    BY <1>10, <2>2 DEF ActNext, Following, Goto, LeaseUntouched
  <2> QED
    BY <2>1, <2>2
<1>11. ASSUME NEW a \in Acts, HeuristicGrab(a)
      PROVE  LeaseUntouched
  BY <1>11 DEF HeuristicGrab, BeginTransition, Step, Goto, LeaseUntouched
<1>12. ASSUME NEW a \in Acts, Settle(a)
      PROVE  LeaseUntouched
  BY <1>12 DEF Settle, Consume, Move, BeginTransition, Goto, LeaseUntouched
<1>13. ASSUME NEW a \in Acts, Final(a)
      PROVE  LeaseUntouched
  BY <1>13 DEF Final, Move, Goto, LeaseUntouched
<1>14. ASSUME NEW r \in Requests, Capture(r)
      PROVE  LeaseUntouched
  BY <1>14, FinishUntouched DEF Capture, Exit
<1>15. ASSUME NEW a \in Acts, Leave(a)
      PROVE  LeaseUntouched
  BY <1>15, FinishUntouched DEF Leave, Exit
<1>16. ASSUME NEW o \in Observes, NEW s \in Sessions, ObserveGate(o, s)
      PROVE  LeaseUntouched
  BY <1>16 DEF ObserveGate, Gate, Goto, LeaseUntouched
<1>17. ASSUME NEW o \in Observes, ObserveAdmit(o)
      PROVE  LeaseUntouched
  BY <1>17 DEF ObserveAdmit, Step, Goto, LeaseUntouched
<1>18. ASSUME NEW r \in Requests, RequestTimeout(r)
      PROVE  LeaseUntouched
  BY <1>18, FinishUntouched DEF RequestTimeout
<1>19. ASSUME HumanEvent
      PROVE  LeaseUntouched
  BY <1>19 DEF HumanEvent, Step, Goto, LeaseUntouched
<1>20. ASSUME HumanHook
      PROVE  LeaseUntouched
  BY <1>20 DEF HumanHook, Cancelled, Inserted, BeginTransition, Step, Goto,
     LeaseUntouched
<1> QED
  BY <1>1, <1>2, <1>3, <1>4, <1>5, <1>6, <1>7, <1>8, <1>9, <1>10, <1>11, <1>12,
     <1>13, <1>14, <1>15, <1>16, <1>17, <1>18, <1>19, <1>20
  DEF ActStep, ObserveStep

\* Every step preserves the lease invariant.
LEMMA LeaseNext ==
  ASSUME Typed, LeaseInv, [Next]_vars
  PROVE  LeaseInv'
<1> USE DEF LeaseInv, LeaseHeld, Inserted, Typed, TypeOK, Threads, Stoppers,
            lockVars, shutdownVars
<1>1. ASSUME NEW p \in Threads, TransitionCheck(p)
      PROVE  LeaseInv'
  BY <1>1 DEF TransitionCheck, EndTransition
<1>2. ASSUME NEW p \in Threads, TransitionSet(p)
      PROVE  LeaseInv'
  BY <1>2 DEF TransitionSet, Target
<1>3. ASSUME NEW p \in Threads, TransitionEffects(p)
      PROVE  LeaseInv'
  BY <1>3 DEF TransitionEffects, EndTransition, Cancelled
<1>4. ASSUME NEW s \in Sessions, StartOpen(s)
      PROVE  LeaseInv'
  BY <1>4 DEF StartOpen
<1>5. ASSUME NEW s \in Sessions, StartAcquire(s)
      PROVE  LeaseInv'
  BY <1>5 DEF StartAcquire, LockFree
<1>6. ASSUME NEW s \in Sessions, StartInsert(s)
      PROVE  LeaseInv'
  BY <1>6 DEF StartInsert
<1>7. ASSUME NEW s \in Sessions, StartReturn(s)
      PROVE  LeaseInv'
  BY <1>7 DEF StartReturn
<1>8. ASSUME NEW s \in Sessions, StartTimeout(s)
      PROVE  LeaseInv'
  BY <1>8 DEF StartTimeout
<1>9. ASSUME NEW c \in Calls, NEW s \in Sessions, SessionPause(c, s)
      PROVE  LeaseInv'
  BY <1>9 DEF SessionPause, CallTransition, BeginTransition, Step, Goto
<1>10. ASSUME NEW c \in Calls, NEW s \in Sessions, SessionResume(c, s)
      PROVE  LeaseInv'
  BY <1>10 DEF SessionResume, CallTransition, BeginTransition, Step, Goto
<1>11. ASSUME NEW c \in Calls, NEW s \in Sessions, SessionTakeover(c, s)
      PROVE  LeaseInv'
  BY <1>11 DEF SessionTakeover, CallTransition, BeginTransition, Step, Goto
<1>12. ASSUME NEW c \in Calls, NEW s \in Sessions, SessionRelease(c, s)
      PROVE  LeaseInv'
  BY <1>12 DEF SessionRelease, CallTransition, BeginTransition, Step, Goto
<1>13. ASSUME NEW c \in Calls, NEW s \in Sessions, SessionCancel(c, s)
      PROVE  LeaseInv'
  BY <1>13 DEF SessionCancel, Step, Goto
<1>14. ASSUME NEW c \in Calls, NEW s \in Sessions, SessionStop(c, s)
      PROVE  LeaseInv'
  BY <1>14 DEF SessionStop, StopSession, Returned, BeginTransition, Goto,
     Addressable
<1>15. ASSUME NEW c \in Calls, StopTimeout(c)
      PROVE  LeaseInv'
  BY <1>15 DEF StopTimeout, Step, Goto
<1>16. ASSUME NEW c \in Stoppers, MarkStopped(c)
      PROVE  LeaseInv'
  BY <1>16 DEF MarkStopped, Goto
<1>17. ASSUME NEW c \in Stoppers, ReleaseLock(c)
      PROVE  LeaseInv'
  BY <1>17 DEF ReleaseLock, Released, Returned, Step, Goto
<1>18. ASSUME NEW c \in Stoppers, CancelTokens(c)
      PROVE  LeaseInv'
  BY <1>18 DEF CancelTokens, Cancelled, Step, Goto
<1>19. ASSUME ShutdownBegin
      PROVE  LeaseInv'
  BY <1>19 DEF ShutdownBegin, Step, Goto
<1>20. ASSUME ShutdownSnapshot
      PROVE  LeaseInv'
  BY <1>20 DEF ShutdownSnapshot, Step, Goto
<1>21. ASSUME ShutdownStop
      PROVE  LeaseInv'
  BY <1>21 DEF ShutdownStop, StopSession, Returned, BeginTransition, Goto
<1>22. ASSUME ShutdownDriver
      PROVE  LeaseInv'
  BY <1>22 DEF ShutdownDriver, Step, Goto
<1>23. CASE LeaseUntouched
  BY <1>23, UntouchedLease
<1>24. CASE UNCHANGED vars
  BY <1>24 DEF vars
<1> QED
  BY <1>1, <1>2, <1>3, <1>4, <1>5, <1>6, <1>7, <1>8, <1>9, <1>10, <1>11, <1>12,
     <1>13, <1>14, <1>15, <1>16, <1>17, <1>18, <1>19, <1>20, <1>21, <1>22,
     <1>23, <1>24, RequestsLeaveLease
  DEF Next, Transition, StartStep, Request, CallStep, ShutdownStep

\* A session that has not been stopped holds the control lock, so control is
\* exclusive (LeaseHeld), however starts, stops and shutdown interleave.
THEOREM ExclusiveControl == Spec => []LeaseHeld
<1>1. Init => Typed /\ LeaseInv
  BY InitTyped DEF Init, LeaseInv, LeaseHeld, Stoppers, Threads
<1>2. Typed /\ LeaseInv /\ [Next]_vars => (Typed /\ LeaseInv)'
  BY TypedNext, LeaseNext
<1>3. LeaseInv => LeaseHeld
  BY DEF LeaseInv
<1> QED
  BY <1>1, <1>2, <1>3, PTL DEF Spec

-----------------------------------------------------------------------------
(* Refinement.                                                             *)

\* A step of the runtime is one step of the lease, or none.
LEMMA LeaseStep ==
  ASSUME Typed, LeaseInv, [Next]_vars
  PROVE  [Lease!Next]_(Lease!leaseVars)
<1> USE DEF Lease!Next, Lease!leaseVars, Lease!Acquire, Lease!End, Lease!Release
<1>1. ASSUME NEW s \in Sessions, StartAcquire(s)
      PROVE  Lease!Acquire(s) \/ UNCHANGED <<holder, stopped>>
  BY <1>1 DEF StartAcquire, LockFree, LeaseInv
<1>2. ASSUME NEW c \in Stoppers, MarkStopped(c)
      PROVE  Lease!End(on[c]) \/ UNCHANGED <<holder, stopped>>
  <2>1. on[c] \in Inserted
    BY <1>2 DEF MarkStopped, LeaseInv
  <2>2. CASE on[c] \in stopped
    BY <1>2, <2>2 DEF MarkStopped, lockVars
  <2>3. CASE on[c] \notin stopped
    <3>1. holder = on[c]
      BY <2>1, <2>3 DEF Inserted, LeaseInv, LeaseHeld
    <3> QED
      BY <1>2, <3>1 DEF MarkStopped, lockVars
  <2> QED
    BY <2>2, <2>3
<1>3. ASSUME NEW c \in Stoppers, ReleaseLock(c)
      PROVE  Lease!Release(on[c]) \/ UNCHANGED <<holder, stopped>>
  BY <1>3 DEF ReleaseLock, Released, Step, LeaseInv
<1>4. CASE \/ \E s \in Sessions : StartAcquire(s)
           \/ \E c \in Stoppers : MarkStopped(c) \/ ReleaseLock(c)
  <2>1. ASSUME NEW c \in Stoppers, MarkStopped(c) \/ ReleaseLock(c)
        PROVE  on[c] \in Sessions
    BY <2>1 DEF MarkStopped, ReleaseLock, Step, Typed
  <2> QED
    BY <1>1, <1>2, <1>3, <1>4, <2>1
<1>5. ASSUME NEW p \in Threads, Transition(p)
      PROVE  UNCHANGED <<holder, stopped>>
  BY <1>5 DEF Transition, TransitionCheck, TransitionSet, TransitionEffects,
     lockVars
<1>6. ASSUME NEW s \in Sessions,
             StartOpen(s) \/ StartInsert(s) \/ StartReturn(s) \/ StartTimeout(s)
      PROVE  UNCHANGED <<holder, stopped>>
  BY <1>6 DEF StartOpen, StartInsert, StartReturn, StartTimeout
<1>7. ASSUME NEW c \in Calls, NEW s \in Sessions, Request(c, s)
      PROVE  UNCHANGED <<holder, stopped>>
  BY <1>7 DEF Request, SessionPause, SessionResume, SessionTakeover,
              SessionRelease, SessionCancel, SessionStop, CallTransition, lockVars
<1>8. ASSUME NEW c \in Stoppers, StopTimeout(c) \/ CancelTokens(c)
      PROVE  UNCHANGED <<holder, stopped>>
  BY <1>8 DEF StopTimeout, CancelTokens, lockVars
<1>9. CASE ShutdownBegin \/ ShutdownStep
  BY <1>9 DEF ShutdownStep, ShutdownBegin, ShutdownSnapshot, ShutdownStop,
              ShutdownDriver, lockVars
<1>10. CASE LeaseUntouched
  BY <1>10 DEF LeaseUntouched
<1>11. CASE UNCHANGED vars
  BY <1>11 DEF vars, lockVars
<1> QED
  BY <1>4, <1>5, <1>6, <1>7, <1>8, <1>9, <1>10, <1>11, RequestsLeaveLease
  DEF Next, StartStep, CallStep, Stoppers

\* The runtime implements the lease: whoever owns control owns it until it has
\* ended, and control passes on only through a release (ControlLease).
THEOREM RuntimeImplementsLease == Spec => ImplementsLease
<1>1. Init => Typed /\ LeaseInv /\ Lease!Init
  BY InitTyped DEF Init, LeaseInv, LeaseHeld, Stoppers, Threads, Lease!Init
<1>2. Typed /\ LeaseInv /\ [Next]_vars
        => (Typed /\ LeaseInv)' /\ [Lease!Next]_(Lease!leaseVars)
  BY TypedNext, LeaseNext, LeaseStep
<1> QED
  BY <1>1, <1>2, PTL DEF Spec, ImplementsLease, Lease!Spec

-----------------------------------------------------------------------------
(* The busy lock and the batch tokens.                                     *)

\* OneRequestWorks and NothingLeaks in one inductive form: a request at work
\* is the one its session's busy lock names, and conversely.
BusyInv ==
  /\ \A r \in Requests :
       pc[r] \in Working => on[r] \in Sessions /\ busy[on[r]] = r
  /\ \A r \in Requests : pc[r] \in {"gated", "queued"} => on[r] \in Sessions
  /\ NothingLeaks

\* What the other threads do to a request: at most fire its token.
BatchUntouched ==
  /\ busy' = busy
  /\ \A r \in Requests :
       pc'[r] = pc[r] /\ (pc[r] \notin {"done", "idle"} => on'[r] = on[r])
  /\ \A a \in Acts :
       \/ token'[a] = token[a]
       \/ token[a] = "live" /\ token'[a] = "cancelled"

LEMMA UntouchedBusy ==
  ASSUME Typed, BusyInv, BatchUntouched
  PROVE  BusyInv'
BY DEF Typed, TypeOK, BusyInv, NothingLeaks, BatchUntouched, Requests, Working

\* Everything but the requests themselves leaves the batches alone.
LEMMA OthersLeaveBatches ==
  ASSUME Typed,
         \/ \E p \in Threads : Transition(p)
         \/ \E s \in Sessions : StartOpen(s) \/ StartStep(s) \/ StartTimeout(s)
         \/ \E c \in Calls, s \in Sessions : Request(c, s)
         \/ \E c \in Calls : StopTimeout(c)
         \/ \E c \in Stoppers : CallStep(c)
         \/ ShutdownBegin \/ ShutdownStep
         \/ HumanEvent \/ HumanHook
  PROVE  BatchUntouched
<1> USE DEF Typed, TypeOK, Threads, Requests, Stoppers, BatchUntouched
<1>1. ASSUME NEW p \in Threads, TransitionCheck(p)
      PROVE  BatchUntouched
  BY <1>1 DEF TransitionCheck, EndTransition
<1>2. ASSUME NEW p \in Threads, TransitionSet(p)
      PROVE  BatchUntouched
  BY <1>2 DEF TransitionSet, Target
<1>3. ASSUME NEW p \in Threads, TransitionEffects(p)
      PROVE  BatchUntouched
  BY <1>3 DEF TransitionEffects, EndTransition, Cancelled
<1>4. ASSUME NEW s \in Sessions, StartOpen(s)
      PROVE  BatchUntouched
  BY <1>4 DEF StartOpen
<1>5. ASSUME NEW s \in Sessions, StartAcquire(s)
      PROVE  BatchUntouched
  BY <1>5 DEF StartAcquire
<1>6. ASSUME NEW s \in Sessions, StartInsert(s)
      PROVE  BatchUntouched
  BY <1>6 DEF StartInsert
<1>7. ASSUME NEW s \in Sessions, StartReturn(s)
      PROVE  BatchUntouched
  BY <1>7 DEF StartReturn
<1>8. ASSUME NEW s \in Sessions, StartTimeout(s)
      PROVE  BatchUntouched
  BY <1>8 DEF StartTimeout
<1>9. ASSUME NEW c \in Calls, NEW s \in Sessions, SessionPause(c, s)
      PROVE  BatchUntouched
  BY <1>9 DEF SessionPause, CallTransition, BeginTransition, Step, Goto
<1>10. ASSUME NEW c \in Calls, NEW s \in Sessions, SessionResume(c, s)
      PROVE  BatchUntouched
  BY <1>10 DEF SessionResume, CallTransition, BeginTransition, Step, Goto
<1>11. ASSUME NEW c \in Calls, NEW s \in Sessions, SessionTakeover(c, s)
      PROVE  BatchUntouched
  BY <1>11 DEF SessionTakeover, CallTransition, BeginTransition, Step, Goto
<1>12. ASSUME NEW c \in Calls, NEW s \in Sessions, SessionRelease(c, s)
      PROVE  BatchUntouched
  BY <1>12 DEF SessionRelease, CallTransition, BeginTransition, Step, Goto
<1>13. ASSUME NEW c \in Calls, NEW s \in Sessions, SessionCancel(c, s)
      PROVE  BatchUntouched
  BY <1>13 DEF SessionCancel, Step, Goto
<1>14. ASSUME NEW c \in Calls, NEW s \in Sessions, SessionStop(c, s)
      PROVE  BatchUntouched
  BY <1>14 DEF SessionStop, StopSession, Returned, BeginTransition, Goto
<1>15. ASSUME NEW c \in Calls, StopTimeout(c)
      PROVE  BatchUntouched
  BY <1>15 DEF StopTimeout, Step, Goto
<1>16. ASSUME NEW c \in Stoppers, MarkStopped(c)
      PROVE  BatchUntouched
  BY <1>16 DEF MarkStopped, Goto
<1>17. ASSUME NEW c \in Stoppers, ReleaseLock(c)
      PROVE  BatchUntouched
  BY <1>17 DEF ReleaseLock, Released, Returned, Step, Goto
<1>18. ASSUME NEW c \in Stoppers, CancelTokens(c)
      PROVE  BatchUntouched
  BY <1>18 DEF CancelTokens, Cancelled, Step, Goto
<1>19. ASSUME ShutdownBegin
      PROVE  BatchUntouched
  BY <1>19 DEF ShutdownBegin, Step, Goto
<1>20. ASSUME ShutdownSnapshot
      PROVE  BatchUntouched
  BY <1>20 DEF ShutdownSnapshot, Step, Goto
<1>21. ASSUME ShutdownStop
      PROVE  BatchUntouched
  BY <1>21 DEF ShutdownStop, StopSession, Returned, BeginTransition, Goto
<1>22. ASSUME ShutdownDriver
      PROVE  BatchUntouched
  BY <1>22 DEF ShutdownDriver, Step, Goto
<1>23. ASSUME HumanEvent
      PROVE  BatchUntouched
  BY <1>23 DEF HumanEvent, Step, Goto
<1>24. ASSUME HumanHook
      PROVE  BatchUntouched
  BY <1>24 DEF HumanHook, Cancelled, BeginTransition, Step, Goto
<1> QED
  BY <1>1, <1>2, <1>3, <1>4, <1>5, <1>6, <1>7, <1>8, <1>9, <1>10, <1>11, <1>12,
     <1>13, <1>14, <1>15, <1>16, <1>17, <1>18, <1>19, <1>20, <1>21, <1>22,
     <1>23, <1>24
  DEF Transition, StartStep, Request, CallStep, ShutdownStep

\* A request that ends leaves the busy lock to others and has no token.
LEMMA FinishBusy ==
  ASSUME Typed, BusyInv, NEW r \in Requests, Finish(r)
  PROVE  BusyInv'
<1> USE DEF Typed, TypeOK, Threads, Requests, Working
<1>1. /\ pc' = [pc EXCEPT ![r] = "done"]
      /\ \A q \in Requests \ {r} : on'[q] = on[q]
      /\ \A a \in Acts : token'[a] = IF a = r THEN "none" ELSE token[a]
      /\ \A s \in Sessions : busy'[s] = IF busy[s] = r THEN None ELSE busy[s]
  BY DEF Finish, Goto, Reset, Unlocked
<1> QED
  BY <1>1 DEF BusyInv, NothingLeaks

\* A batch that stays where it holds, or waits for, the busy lock.
LEMMA ActsOnBusy ==
  ASSUME Typed, BusyInv, NEW a \in Acts, pc[a] \in Working,
         NEW to \in Working, pc' = [pc EXCEPT ![a] = to], on'[a] = on[a],
         \A r \in Requests \ {a} : on'[r] = on[r],
         UNCHANGED <<busy, token>>
  PROVE  BusyInv'
BY DEF Typed, TypeOK, BusyInv, NothingLeaks, Threads, Requests, Working

\* Every step preserves the busy invariant.
LEMMA BusyNext ==
  ASSUME Typed, BusyInv, [Next]_vars
  PROVE  BusyInv'
<1> USE DEF Typed, TypeOK, Threads, Requests
<1>1. ASSUME NEW a \in Acts, NEW s \in Sessions, ActGate(a, s)
      PROVE  BusyInv'
  BY <1>1 DEF ActGate, Gate, Goto, NotBusy, BusyInv, NothingLeaks, Working
<1>2. ASSUME NEW a \in Acts, ActRegister(a)
      PROVE  BusyInv'
  BY <1>2 DEF ActRegister, Step, Goto, NotBusy, BusyInv, NothingLeaks, Working
<1>3. ASSUME NEW a \in Acts, ActAdmit(a)
      PROVE  BusyInv'
  <2>1. CASE Finish(a)
    BY <1>3, <2>1, FinishBusy
  <2>2. CASE ~Finish(a)
    BY <1>3, <2>2 DEF ActAdmit, Goto, NotBusy, BusyInv, NothingLeaks, Working
  <2> QED
    BY <2>1, <2>2
<1>4. ASSUME NEW a \in Acts, ActPrepare(a)
      PROVE  BusyInv'
  <2>1. CASE Finish(a)
    BY <1>4, <2>1, FinishBusy
  <2>2. CASE ~Finish(a)
    BY <1>4, <2>2, ActsOnBusy DEF ActPrepare, Goto, Working
  <2> QED
    BY <2>1, <2>2
<1>5. ASSUME NEW a \in Acts, LoopConsume(a)
      PROVE  BusyInv'
  BY <1>5, ActsOnBusy DEF LoopConsume, Consume, Move, BeginTransition, Goto,
     Working
<1>6. ASSUME NEW a \in Acts, LoopCheck(a)
      PROVE  BusyInv'
  BY <1>6, ActsOnBusy DEF LoopCheck, Move, Goto, Working
<1>7. ASSUME NEW a \in Acts, ClickCheck(a)
      PROVE  BusyInv'
  BY <1>7, ActsOnBusy DEF ClickCheck, Goto, Working
<1>8. ASSUME NEW a \in Acts, Post(a)
      PROVE  BusyInv'
  BY <1>8, ActsOnBusy DEF Post, Step, Goto, Working
<1>9. ASSUME NEW a \in Acts, WaitPoll(a)
      PROVE  BusyInv'
  BY <1>9, ActsOnBusy DEF WaitPoll, Consume, Move, BeginTransition, Goto,
     Working
<1>10. ASSUME NEW a \in Acts, ActNext(a)
      PROVE  BusyInv'
  <2>1. CASE Finish(a)
    BY <1>10, <2>1, FinishBusy
  <2>2. CASE ~Finish(a)
    BY <1>10, <2>2, ActsOnBusy DEF ActNext, Following, Goto, Working
  <2> QED
    BY <2>1, <2>2
<1>11. ASSUME NEW a \in Acts, HeuristicGrab(a)
      PROVE  BusyInv'
  BY <1>11, ActsOnBusy DEF HeuristicGrab, BeginTransition, Step, Goto, Working
<1>12. ASSUME NEW a \in Acts, Settle(a)
      PROVE  BusyInv'
  BY <1>12, ActsOnBusy DEF Settle, Consume, Move, BeginTransition, Goto, Working
<1>13. ASSUME NEW a \in Acts, Final(a)
      PROVE  BusyInv'
  BY <1>13, ActsOnBusy DEF Final, Move, Goto, Working
<1>14. ASSUME NEW r \in Requests, Capture(r)
      PROVE  BusyInv'
  BY <1>14, FinishBusy DEF Capture, Exit
<1>15. ASSUME NEW a \in Acts, Leave(a)
      PROVE  BusyInv'
  BY <1>15, FinishBusy DEF Leave, Exit
<1>16. ASSUME NEW o \in Observes, NEW s \in Sessions, ObserveGate(o, s)
      PROVE  BusyInv'
  BY <1>16 DEF ObserveGate, Gate, Goto, NotBusy, BusyInv, NothingLeaks, Working
<1>17. ASSUME NEW o \in Observes, ObserveAdmit(o)
      PROVE  BusyInv'
  BY <1>17 DEF ObserveAdmit, Step, Goto, NotBusy, BusyInv, NothingLeaks, Working
<1>18. ASSUME NEW r \in Requests, RequestTimeout(r)
      PROVE  BusyInv'
  BY <1>18, FinishBusy DEF RequestTimeout
<1>19. CASE BatchUntouched
  BY <1>19, UntouchedBusy
<1>20. CASE UNCHANGED vars
  BY <1>20 DEF vars, BusyInv, NothingLeaks
<1> QED
  BY <1>1, <1>2, <1>3, <1>4, <1>5, <1>6, <1>7, <1>8, <1>9, <1>10, <1>11, <1>12,
     <1>13, <1>14, <1>15, <1>16, <1>17, <1>18, <1>19, <1>20, OthersLeaveBatches
  DEF Next, ActStep, ObserveStep

LEMMA BusyAlways == Spec => [](Typed /\ BusyInv)
<1>1. Init => Typed /\ BusyInv
  <2> SUFFICES ASSUME Init PROVE Typed /\ BusyInv
    OBVIOUS
  <2>1. \A r \in Requests : pc[r] = "unsent"
    BY DEF Init, Threads, Requests
  <2> QED
    BY <2>1, InitTyped DEF Init, BusyInv, NothingLeaks, Working
<1>2. Typed /\ BusyInv /\ [Next]_vars => (Typed /\ BusyInv)'
  BY TypedNext, BusyNext
<1> QED
  BY <1>1, <1>2, PTL DEF Spec

\* Acts and observes of one session work one at a time (Session::busy).
THEOREM RequestsExclude == Spec => []OneRequestWorks
<1>1. BusyInv => OneRequestWorks
  BY DEF BusyInv, OneRequestWorks
<1> QED
  BY <1>1, BusyAlways, PTL

\* Neither the busy lock nor a batch token outlives its request (BatchScope).
THEOREM GuardsDrop == Spec => []NothingLeaks
<1>1. BusyInv => NothingLeaks
  BY DEF BusyInv
<1> QED
  BY <1>1, BusyAlways, PTL

-----------------------------------------------------------------------------
(* What a batch may still post once it is cancelled or taken over.         *)

\* CancelledBatchOverrun and TakeoverOverrun in one inductive form: an act
\* that has posted its one input too many is cancelled (its session is taken
\* over), and it is not on its way to another.
OverrunInv ==
  \A a \in Acts :
    /\ late[a] <= 1 /\ after[a] <= 1
    /\ late[a] = 1 => token[a] = "cancelled" /\ pc[a] \notin {"arming", "posting"}
    /\ after[a] = 1 => /\ pc[a] \in Working \ {"arming", "posting"}
                       /\ userTakeover[on[a]]

\* A step that only fires tokens and moves no act, flag or count.
LEMMA UntouchedOverrun ==
  ASSUME Typed, BusyInv, OverrunInv, BatchUntouched,
         UNCHANGED <<userTakeover, late, after>>
  PROVE  OverrunInv'
BY DEF Typed, TypeOK, OverrunInv, BatchUntouched, Requests, Working

\* Transition raises the takeover flag, or lowers it and counts from zero.
LEMMA TransitionOverrun ==
  ASSUME Typed, BusyInv, OverrunInv, NEW p \in Threads, Transition(p)
  PROVE  OverrunInv'
<1>1. BatchUntouched
  BY OthersLeaveBatches
<1>2. CASE TransitionCheck(p) \/ TransitionSet(p)
  BY <1>1, <1>2, UntouchedOverrun
  DEF TransitionCheck, TransitionSet, sessionVars, countVars
<1>3. CASE TransitionEffects(p)
  <2>1. \A a \in Acts : after'[a] = after[a] \/ after'[a] = 0
    BY <1>3 DEF TransitionEffects, Typed, TypeOK
  <2>2. ASSUME NEW a \in Acts, after'[a] = 1
        PROVE  /\ pc'[a] \in Working \ {"arming", "posting"}
               /\ userTakeover'[on'[a]]
    <3>1. after[a] = 1 /\ a \in Requests
      BY <2>1, <2>2 DEF Requests
    <3>2. /\ pc'[a] = pc[a] /\ on'[a] = on[a]
          /\ pc[a] \in Working \ {"arming", "posting"}
          /\ userTakeover[on[a]] /\ on[a] \in Sessions
      BY <1>1, <3>1 DEF OverrunInv, BatchUntouched, BusyInv, Working
    <3>3. on[a] # on[p] \/ Target(op[p]) # "Active"
      BY <1>3, <2>2 DEF TransitionEffects
    <3>4. userTakeover'[on[a]]
      BY <1>3, <3>2, <3>3 DEF TransitionEffects, Typed, TypeOK
    <3> QED
      BY <3>2, <3>4
  <2>3. late' = late
    BY <1>3 DEF TransitionEffects
  <2> QED
    BY <1>1, <2>1, <2>2, <2>3
    DEF OverrunInv, BatchUntouched, Typed, TypeOK, Requests
<1> QED
  BY <1>2, <1>3 DEF Transition

\* The counts of a request that ends are back at zero.
LEMMA FinishOverrun ==
  ASSUME Typed, BusyInv, OverrunInv, NEW r \in Requests, Finish(r),
         UNCHANGED userTakeover
  PROVE  OverrunInv'
<1>1. \A a \in Acts : /\ late'[a] = IF a = r THEN 0 ELSE late[a]
                      /\ after'[a] = IF a = r THEN 0 ELSE after[a]
                      /\ token'[a] = IF a = r THEN "none" ELSE token[a]
                      /\ a # r => pc'[a] = pc[a] /\ on'[a] = on[a]
  BY DEF Finish, Reset, Goto, Typed, TypeOK, Threads, Requests
<1> QED
  BY <1>1 DEF OverrunInv

\* An act that posts nothing, and goes to where nothing is posted next unless
\* it is neither cancelled nor taken over, keeps its counts in order.
LEMMA MoveOverrun ==
  ASSUME Typed, OverrunInv, NEW a \in Acts, NEW to \in Working,
         pc' = [pc EXCEPT ![a] = to], \A b \in Acts : on'[b] = on[b],
         to \in {"arming", "posting"} => late[a] = 0 /\ after[a] = 0,
         UNCHANGED <<userTakeover, token, late, after>>
  PROVE  OverrunInv'
BY DEF Typed, TypeOK, OverrunInv, Threads, Requests

\* An act that enters a transition of its own session stays on that session.
LEMMA OwnTransition ==
  ASSUME Typed, NEW a \in Acts, NEW name, BeginTransition(a, on[a], name)
  PROVE  \A b \in Acts : on'[b] = on[b]
BY DEF Typed, TypeOK, BeginTransition, Threads, Requests

LEMMA ConsumeOverrun ==
  ASSUME Typed, OverrunInv, NEW a \in Acts, NEW to \in {"settle", "leave"},
         Consume(a, to)
  PROVE  OverrunInv'
<1>1. \A b \in Acts : on'[b] = on[b]
  BY OwnTransition DEF Consume
<1> QED
  BY <1>1, MoveOverrun DEF Consume, Goto, sessionVars, countVars, Working

\* Every step keeps the counts in order.
LEMMA OverrunNext ==
  ASSUME Typed, BusyInv, OverrunInv, [Next]_vars
  PROVE  OverrunInv'
<1> USE DEF Typed, TypeOK, Threads, Requests, sessionVars, countVars
<1>1. ASSUME NEW a \in Acts, NEW s \in Sessions, ActGate(a, s)
      PROVE  OverrunInv'
  BY <1>1 DEF ActGate, Gate, Goto, OverrunInv, BusyInv, NothingLeaks, Working
<1>2. ASSUME NEW a \in Acts, ActRegister(a)
      PROVE  OverrunInv'
  BY <1>2 DEF ActRegister, Step, Goto, OverrunInv, BusyInv, NothingLeaks,
     Working
<1>3. ASSUME NEW a \in Acts, ActAdmit(a)
      PROVE  OverrunInv'
  <2>1. CASE Finish(a)
    BY <1>3, <2>1, FinishOverrun DEF ActAdmit
  <2>2. CASE ~Finish(a)
    BY <1>3, <2>2, MoveOverrun DEF ActAdmit, Goto, Working
  <2> QED
    BY <2>1, <2>2
<1>4. ASSUME NEW a \in Acts, ActPrepare(a)
      PROVE  OverrunInv'
  <2>1. CASE Finish(a)
    BY <1>4, <2>1, FinishOverrun DEF ActPrepare
  <2>2. CASE ~Finish(a)
    BY <1>4, <2>2, MoveOverrun DEF ActPrepare, Goto, Working
  <2> QED
    BY <2>1, <2>2
<1>5. ASSUME NEW a \in Acts, LoopConsume(a)
      PROVE  OverrunInv'
  BY <1>5, ConsumeOverrun, MoveOverrun DEF LoopConsume, Move, Goto, Working
<1>6. ASSUME NEW a \in Acts, LoopCheck(a)
      PROVE  OverrunInv'
  <2>1. CASE Halted(a)
    BY <1>6, <2>1, MoveOverrun DEF LoopCheck, Move, Goto, Working
  <2>2. CASE ~Halted(a)
    <3>1. late[a] = 0 /\ after[a] = 0
      BY <2>2 DEF Halted, Aborted, OverrunInv
    <3> QED
      BY <1>6, <2>2, <3>1, MoveOverrun DEF LoopCheck, Move, Goto, Working
  <2> QED
    BY <2>1, <2>2
<1>7. ASSUME NEW a \in Acts, ClickCheck(a)
      PROVE  OverrunInv'
  <2>1. late[a] = 0 /\ after[a] = 0
    BY <1>7 DEF ClickCheck, OverrunInv
  <2> QED
    BY <1>7, <2>1, MoveOverrun DEF ClickCheck, Goto, Working
<1>8. ASSUME NEW a \in Acts, Post(a)
      PROVE  OverrunInv'
  BY <1>8 DEF Post, Step, Goto, OverrunInv, BusyInv, NothingLeaks, Working
<1>9. ASSUME NEW a \in Acts, WaitPoll(a)
      PROVE  OverrunInv'
  BY <1>9, ConsumeOverrun, MoveOverrun DEF WaitPoll, Move, Goto, Working
<1>10. ASSUME NEW a \in Acts, ActNext(a)
      PROVE  OverrunInv'
  <2>1. CASE Finish(a)
    BY <1>10, <2>1, FinishOverrun DEF ActNext
  <2>2. CASE ~Finish(a)
    BY <1>10, <2>2, MoveOverrun DEF ActNext, Following, Goto, Working
  <2> QED
    BY <2>1, <2>2
<1>11. ASSUME NEW a \in Acts, HeuristicGrab(a)
      PROVE  OverrunInv'
  <2>1. \A b \in Acts : on'[b] = on[b]
    BY <1>11, OwnTransition DEF HeuristicGrab
  <2> QED
    BY <1>11, <2>1, MoveOverrun DEF HeuristicGrab, Step, Goto, Working
<1>12. ASSUME NEW a \in Acts, Settle(a)
      PROVE  OverrunInv'
  BY <1>12, ConsumeOverrun, MoveOverrun DEF Settle, Move, Goto, Working
<1>13. ASSUME NEW a \in Acts, Final(a)
      PROVE  OverrunInv'
  BY <1>13, MoveOverrun DEF Final, Move, Goto, Working
<1>14. ASSUME NEW r \in Requests, Capture(r)
      PROVE  OverrunInv'
  BY <1>14, FinishOverrun DEF Capture, Exit
<1>15. ASSUME NEW a \in Acts, Leave(a)
      PROVE  OverrunInv'
  BY <1>15, FinishOverrun DEF Leave, Exit
<1>16. ASSUME NEW o \in Observes, NEW s \in Sessions, ObserveGate(o, s)
      PROVE  OverrunInv'
  BY <1>16 DEF ObserveGate, Gate, Goto, OverrunInv, BusyInv, NothingLeaks,
     Working
<1>17. ASSUME NEW o \in Observes, ObserveAdmit(o)
      PROVE  OverrunInv'
  BY <1>17 DEF ObserveAdmit, Step, Goto, OverrunInv, BusyInv, NothingLeaks,
     Working
<1>18. ASSUME NEW r \in Requests, RequestTimeout(r)
      PROVE  OverrunInv'
  BY <1>18, FinishOverrun DEF RequestTimeout
<1>19. ASSUME NEW p \in Threads, Transition(p)
      PROVE  OverrunInv'
  BY <1>19, TransitionOverrun
<1>20. CASE BatchUntouched /\ UNCHANGED <<userTakeover, late, after>>
  BY <1>20, UntouchedOverrun
<1>21. CASE UNCHANGED vars
  BY <1>21 DEF vars, OverrunInv
<1>22. CASE \/ \E s \in Sessions : StartOpen(s) \/ StartStep(s) \/ StartTimeout(s)
            \/ \E c \in Calls, s \in Sessions : Request(c, s)
            \/ \E c \in Calls : StopTimeout(c)
            \/ \E c \in Stoppers : CallStep(c)
            \/ ShutdownBegin \/ ShutdownStep
            \/ HumanEvent \/ HumanHook
  <2>1. BatchUntouched
    BY <1>22, OthersLeaveBatches
  <2>2. UNCHANGED <<userTakeover, late, after>>
    BY <1>22
    DEF StartOpen, StartStep, StartAcquire, StartInsert, StartReturn,
        StartTimeout, Request, SessionPause, SessionResume, SessionTakeover,
        SessionRelease, SessionCancel, SessionStop, CallTransition,
        StopTimeout, CallStep, MarkStopped, ReleaseLock, CancelTokens,
        ShutdownBegin, ShutdownStep, ShutdownSnapshot, ShutdownStop,
        ShutdownDriver, HumanEvent, HumanHook
  <2> QED
    BY <1>22, <2>1, <2>2, UntouchedOverrun
<1> QED
  BY <1>1, <1>2, <1>3, <1>4, <1>5, <1>6, <1>7, <1>8, <1>9, <1>10, <1>11, <1>12,
     <1>13, <1>14, <1>15, <1>16, <1>17, <1>18, <1>19, <1>20, <1>21, <1>22 DEF
     Next, ActStep, ObserveStep

LEMMA OverrunAlways == Spec => []OverrunInv
<1>1. Init => OverrunInv
  BY DEF Init, OverrunInv
<1>2. Typed /\ BusyInv /\ OverrunInv /\ [Next]_vars => OverrunInv'
  BY OverrunNext
<1> QED
  BY <1>1, <1>2, BusyAlways, PTL DEF Spec

\* Once cancelled, a batch posts at most one more input (token checks of the
\* action queue).
THEOREM CancelStopsBatch == Spec => []CancelledBatchOverrun
<1>1. OverrunInv => CancelledBatchOverrun
  BY DEF OverrunInv, CancelledBatchOverrun
<1> QED
  BY <1>1, OverrunAlways, PTL

\* While the person has the session, a batch posts at most one more input, also
\* a batch the takeover found no token of (session_aborted).
THEOREM TakeoverStopsBatch == Spec => []TakeoverOverrun
<1>1. OverrunInv => TakeoverOverrun
  BY DEF OverrunInv, TakeoverOverrun
<1> QED
  BY <1>1, OverrunAlways, PTL
=============================================================================
