--------------------------- MODULE SchedulerProofs ---------------------------
(***************************************************************************)
(* The safety properties of the scheduler for every number of processes.   *)
(***************************************************************************)
EXTENDS Scheduler, WellFoundedInduction, TLAPS

-----------------------------------------------------------------------------
(* Arithmetic *)

\* A sum below 2 * n wraps at most once.
LEMMA ModWrap ==
  ASSUME NEW n \in Nat \ {0}, NEW a \in 0 .. 2 * n - 1
  PROVE  a % n = IF a < n THEN a ELSE a - n
<1> DEFINE q == a \div n
           r == a % n
<1>1. q \in Int /\ r \in 0 .. n - 1 /\ a = n * q + r
  OBVIOUS
<1>2. PICK qq \in Int : qq = q
  BY <1>1
<1>3. PICK rr \in 0 .. n - 1 : rr = r
  BY <1>1
<1>4. a = n * qq + rr
  BY <1>1, <1>2, <1>3
<1>5. qq \in {0, 1}
  BY <1>4
<1>6. CASE qq = 0
  BY <1>3, <1>4, <1>6
<1>7. CASE qq = 1
  BY <1>3, <1>4, <1>7
<1> QED
  BY <1>5, <1>6, <1>7

\* A set of naturals that is not empty has a least element.
LEMMA Least ==
  ASSUME NEW T, T \subseteq Nat, T # {}
  PROVE  \E x \in T : \A y \in T : x <= y
<1> DEFINE R == {ss \in Nat \X Nat : ss[1] < ss[2]}
<1>1. IsWellFoundedOn(R, Nat)
  BY NatLessThanWellFounded DEF OpToRel
<1> HIDE DEF R
<1>2. PICK x \in T : \A y \in T : ~(<<y, x>> \in R)
  BY <1>1, WFMin
<1>3. ASSUME NEW y \in T PROVE x <= y
  <2>1. x \in Nat /\ y \in Nat
    OBVIOUS
  <2>2. ~(y < x)
    BY <1>2, <2>1 DEF R
  <2> QED
    BY <2>1, <2>2
<1> QED
  BY <1>3

\* The indices next_runnable looks at, without the remainder.
LEMMA Wrapped ==
  ASSUME NEW c \in Processes, NEW o \in 1 .. N
  PROVE  (c + o) % N = IF c + o < N THEN c + o ELSE c + o - N
<1>1. N \in Nat \ {0} /\ c + o \in 0 .. 2 * N - 1
  BY SchedulerAssumption DEF Processes
<1>2. PICK a \in 0 .. 2 * N - 1 : a = c + o
  BY <1>1
<1>3. a % N = IF a < N THEN a ELSE a - N
  BY <1>1, ModWrap
<1> QED
  BY <1>1, <1>2, <1>3 DEF Processes

\* Distance inverts the round-robin order.
LEMMA DistanceIndex ==
  ASSUME NEW c \in Processes, NEW p \in Processes
  PROVE  Distance(c, p) \in 1 .. N /\ (c + Distance(c, p)) % N = p
<1>1. Distance(c, p) \in 1 .. N
  BY SchedulerAssumption DEF Processes, Distance
<1>2. (c + Distance(c, p)) % N
        = IF c + Distance(c, p) < N THEN c + Distance(c, p) ELSE c + Distance(c, p) - N
  BY <1>1, Wrapped
<1>3. CASE p > c
  BY <1>2, <1>3, SchedulerAssumption DEF Processes, Distance
<1>4. CASE ~(p > c)
  BY <1>2, <1>4, SchedulerAssumption DEF Processes, Distance
<1> QED
  BY <1>1, <1>3, <1>4

\* Whoever is next is closer than every other runnable process.
LEMMA NextIsNearest ==
  ASSUME NEW st, NEW c \in Processes, NEW next, next_runnable(st, c, next)
  PROVE  /\ next \in Processes
         /\ st[next] = "Runnable"
         /\ \A p \in Processes :
              p # next /\ st[p] = "Runnable" => Distance(next, p) < Distance(c, p)
<1>1. PICK o \in 1 .. N :
        /\ next = (c + o) % N
        /\ st[next] = "Runnable"
        /\ \A earlier \in 1 .. o - 1 : st[(c + earlier) % N] # "Runnable"
  BY DEF next_runnable
<1>2. next = IF c + o < N THEN c + o ELSE c + o - N
  BY <1>1, Wrapped
<1>3. next \in Processes
  BY <1>2, SchedulerAssumption DEF Processes
<1>4. ASSUME NEW p \in Processes, p # next, st[p] = "Runnable"
      PROVE  Distance(next, p) < Distance(c, p)
  <2>1. PICK d \in 1 .. N : d = Distance(c, p) /\ (c + d) % N = p
    BY DistanceIndex
  <2>2. ~(d \in 1 .. o - 1)
    BY <1>1, <1>4, <2>1
  <2>3. d # o
    BY <1>1, <1>4, <2>1
  <2>4. d > o
    BY <2>2, <2>3
  <2>5. p = IF c + d < N THEN c + d ELSE c + d - N
    BY <2>1, Wrapped
  <2> QED
    BY <1>2, <2>1, <2>4, <2>5, SchedulerAssumption DEF Processes, Distance
<1> QED
  BY <1>1, <1>3, <1>4

\* next_runnable finds a process whenever there is one.
LEMMA NoneMeansNone ==
  ASSUME NEW st, NEW c \in Processes, NoneRunnable(st, c)
  PROVE  \A p \in Processes : st[p] # "Runnable"
<1> SUFFICES ASSUME NEW p \in Processes, st[p] = "Runnable" PROVE FALSE
  OBVIOUS
<1> DEFINE T == {o \in 1 .. N : st[(c + o) % N] = "Runnable"}
<1>1. Distance(c, p) \in T
  BY DistanceIndex
<1>2. T \subseteq Nat
  OBVIOUS
<1>3. PICK o \in T : \A y \in T : o <= y
  BY <1>1, <1>2, Least
<1>4. \A earlier \in 1 .. o - 1 : st[(c + earlier) % N] # "Runnable"
  <2> SUFFICES ASSUME NEW earlier \in 1 .. o - 1, st[(c + earlier) % N] = "Runnable"
               PROVE  FALSE
    OBVIOUS
  <2>1. earlier \in 1 .. N /\ earlier < o
    BY SchedulerAssumption
  <2> QED
    BY <1>3, <2>1, SchedulerAssumption
<1>5. next_runnable(st, c, (c + o) % N)
  BY <1>4 DEF next_runnable
<1>6. (c + o) % N \in Processes
  BY <1>5, NextIsNearest
<1> QED
  BY <1>5, <1>6 DEF NoneRunnable
-----------------------------------------------------------------------------
(* The inductive invariant *)

LEMMA InitIInv == Init => IInv
<1> SUFFICES ASSUME Init PROVE IInv
  OBVIOUS
<1>1. PICK v \in Values :
        /\ registers = v
        /\ context = [p \in Processes |-> v]
        /\ expected = [p \in Processes |-> v]
  BY DEF Init
<1>2. 0 \in Processes
  BY SchedulerAssumption DEF Processes
<1>3. TypeOK
  BY <1>1, <1>2 DEF Init, TypeOK, States
<1>4. mode = "kernel" /\ ~Idle /\ OwnWorld /\ ~isr
  BY DEF Init, Idle, OwnWorld
<1>5. KernelOutcome
  BY DEF Init, KernelOutcome, Finished
<1>6. BoundedBypass
  BY SchedulerAssumption DEF Init, BoundedBypass
<1> QED
  BY <1>3, <1>4, <1>5, <1>6 DEF IInv

\* What is left of IInv once the process states and contexts are settled and
\* another process gets the CPU.
LEMMA DispatchIInv ==
  ASSUME TypeOK, BoundedBypass,
         NEW st \in [Processes -> States], NEW ctx \in [Processes -> Values],
         NEW next \in Processes, st[next] = "Runnable",
         \A p \in Processes : st[p] \in {"Runnable", "Sleeping"} => ctx[p] = expected[p],
         \A p \in Processes :
           p # next /\ st[p] = "Runnable" => waited[p] + 1 + Distance(next, p) <= N,
         Dispatch(st, ctx, next),
         state' = st, context' = ctx, expected' = expected,
         remaining' \in [Processes -> Nat], irr' \in BOOLEAN, isr' = FALSE
  PROVE  IInv'
<1>1. current' = next /\ ~Idle'
  BY DEF Dispatch, Idle, return_to_kernel
<1>2. waited' \in [Processes -> Nat]
  BY DEF Dispatch, TypeOK
<1>3. TypeOK'
  BY <1>2 DEF Dispatch, TypeOK, return_to_kernel, Kernel, Processes
<1>4. OwnWorld'
  BY DEF Dispatch, OwnWorld, return_to_kernel
<1>5. KernelOutcome'
  BY DEF Dispatch, KernelOutcome, return_to_kernel
<1>6. ASSUME NEW p \in Processes
      PROVE  /\ st[p] # "Runnable" \/ p = next => waited'[p] = 0
             /\ st[p] = "Runnable" /\ p # next
                  => waited'[p] = waited[p] + 1 /\ waited'[p] + Distance(next, p) <= N
  <2>1. waited'[p] = IF p = next \/ st[p] # "Runnable" THEN 0 ELSE waited[p] + 1
    BY DEF Dispatch
  <2>2. waited[p] \in Nat /\ Distance(next, p) \in 1 .. N
    BY DistanceIndex DEF TypeOK
  <2> QED
    BY <2>1, <2>2
<1>7. BoundedBypass'
  <2> SUFFICES ASSUME NEW p \in Processes PROVE waited'[p] < N
    BY DEF BoundedBypass
  <2>1. Distance(next, p) \in 1 .. N /\ waited'[p] \in Nat
    BY <1>2, DistanceIndex
  <2> QED
    BY <1>6, <2>1, SchedulerAssumption
<1> QED
  BY <1>1, <1>3, <1>4, <1>5, <1>6, <1>7 DEF IInv
\* Waking sleepers changes no other process.
LEMMA WakeFacts ==
  ASSUME NEW st \in [Processes -> States], NEW rem
  PROVE  /\ wake_sleepers(st, rem) \in [Processes -> States]
         /\ \A p \in Processes :
              /\ st[p] # "Sleeping" => wake_sleepers(st, rem)[p] = st[p]
              /\ st[p] = "Sleeping" => wake_sleepers(st, rem)[p] \in {"Runnable", "Sleeping"}
  BY DEF wake_sleepers, States

\* A process that was woken, or stood in line already, keeps its bound when
\* the nearest runnable process is dispatched.
LEMMA OvertakenOnce ==
  ASSUME IInv, mode # "kernel",
         NEW st, NEW next, next_runnable(st, current, next),
         NEW p \in Processes, p # next, st[p] = "Runnable"
  PROVE  waited[p] + 1 + Distance(next, p) <= N
<1>1. current \in Processes /\ waited[p] \in Nat
  BY DEF IInv, TypeOK
<1>2. next \in Processes /\ Distance(next, p) < Distance(current, p)
  BY <1>1, NextIsNearest
<1>3. Distance(current, p) \in 1 .. N /\ Distance(next, p) \in 1 .. N
  BY <1>1, <1>2, DistanceIndex
<1>4. CASE state[p] # "Runnable" \/ p = current
  <2>1. waited[p] = 0
    BY <1>4 DEF IInv
  <2> QED
    BY <1>2, <1>3, <2>1, SchedulerAssumption
<1>5. CASE state[p] = "Runnable" /\ p # current
  <2>1. waited[p] + Distance(current, p) <= N
    BY <1>5 DEF IInv
  <2> QED
    BY <1>1, <1>2, <1>3, <2>1, SchedulerAssumption
<1> QED
  BY <1>4, <1>5

\* A trap that changes at most the state of the running process and then
\* calls schedule.
LEMMA ScheduleIInv ==
  ASSUME IInv, mode = "user",
         NEW st \in [Processes -> States], NEW rem,
         \A p \in Processes : p # current => st[p] = state[p],
         schedule(st, rem),
         expected' = expected, remaining' \in [Processes -> Nat],
         irr' \in BOOLEAN, isr' = FALSE
  PROVE  IInv'
<1> DEFINE saved == IF st[current] \in {"Runnable", "Sleeping"}
                    THEN [context EXCEPT ![current] = registers] ELSE context
           woken == wake_sleepers(st, rem)
<1>1. /\ TypeOK /\ BoundedBypass /\ current \in Processes /\ registers = expected[current]
      /\ waited[current] = 0
  BY DEF IInv, TypeOK, OwnWorld
<1>2. saved \in [Processes -> Values] /\ woken \in [Processes -> States]
  BY <1>1, WakeFacts DEF TypeOK
<1>3. \A p \in Processes : woken[p] \in {"Runnable", "Sleeping"} => saved[p] = expected[p]
  <2> SUFFICES ASSUME NEW p \in Processes, woken[p] \in {"Runnable", "Sleeping"}
               PROVE  saved[p] = expected[p]
    OBVIOUS
  <2>1. st[p] \in {"Runnable", "Sleeping"}
    BY WakeFacts
  <2>2. CASE p = current
    BY <1>1, <2>1, <2>2 DEF TypeOK
  <2>3. CASE p # current
    <3>1. state[p] \in {"Runnable", "Sleeping"}
      BY <2>1, <2>3
    <3>2. context[p] = expected[p]
      BY <2>3, <3>1 DEF IInv
    <3> QED
      BY <1>1, <2>3, <3>2 DEF TypeOK
  <2> QED
    BY <2>2, <2>3
<1> HIDE DEF saved, woken
<1>4. CASE /\ failure' = TRUE
           /\ state' = st
           /\ return_to_kernel
           /\ UNCHANGED <<current, context, waited, registers, tss>>
  <2>1. mode' = "kernel" /\ ~Idle'
    BY <1>4 DEF return_to_kernel, Idle
  <2>2. TypeOK' /\ BoundedBypass'
    BY <1>1, <1>4 DEF TypeOK, BoundedBypass, return_to_kernel
  <2>3. OwnWorld' /\ KernelOutcome'
    BY <1>4, <2>1 DEF OwnWorld, KernelOutcome, return_to_kernel
  <2> QED
    BY <2>1, <2>2, <2>3 DEF IInv
<1>5. CASE /\ state' = woken /\ context' = saved
           /\ \E next \in Processes :
                next_runnable(woken, current, next) /\ Dispatch(woken, saved, next)
  <2>1. PICK next \in Processes :
          next_runnable(woken, current, next) /\ Dispatch(woken, saved, next)
    BY <1>5
  <2>2. woken[next] = "Runnable"
    BY <1>1, <2>1, NextIsNearest
  <2>3. \A p \in Processes :
          p # next /\ woken[p] = "Runnable" => waited[p] + 1 + Distance(next, p) <= N
    BY <2>1, OvertakenOnce
  <2> QED
    BY <1>1, <1>2, <1>3, <1>5, <2>1, <2>2, <2>3, DispatchIInv
<1>6. CASE /\ state' = woken /\ context' = saved
           /\ NoneRunnable(woken, current)
           /\ mode' = "hlt"
           /\ cr3' = Kernel
           /\ UNCHANGED <<current, waited, registers, tss, kernel_if, failure>>
  <2>1. \A p \in Processes : woken[p] # "Runnable"
    BY <1>1, <1>6, NoneMeansNone
  <2>2. TypeOK' /\ BoundedBypass'
    BY <1>1, <1>2, <1>6 DEF TypeOK, BoundedBypass
  <2>3. OwnWorld' /\ KernelOutcome'
    BY <1>6 DEF OwnWorld, KernelOutcome
  <2>4. \A p \in Processes : waited[p] = 0
    <3> SUFFICES ASSUME NEW p \in Processes, p # current PROVE waited[p] = 0
      BY <1>1
    <3>1. state[p] # "Runnable"
      BY <2>1, WakeFacts DEF woken
    <3> QED
      BY <3>1 DEF IInv
  <2> QED
    BY <1>3, <1>6, <2>1, <2>2, <2>3, <2>4 DEF IInv, Idle
<1>7. CASE /\ state' = woken /\ context' = saved
           /\ NoneRunnable(woken, current)
           /\ ~has_sleepers(woken)
           /\ return_to_kernel
           /\ UNCHANGED <<current, waited, registers, tss, failure>>
  <2>1. \A p \in Processes : woken[p] # "Runnable"
    BY <1>1, <1>7, NoneMeansNone
  <2>2. Finished(woken)
    BY <1>2, <1>7, <2>1 DEF Finished, has_sleepers, States
  <2>3. TypeOK' /\ BoundedBypass'
    BY <1>1, <1>2, <1>7 DEF TypeOK, BoundedBypass, return_to_kernel
  <2>4. mode' = "kernel" /\ ~Idle' /\ OwnWorld'
    BY <1>7 DEF return_to_kernel, Idle, OwnWorld
  <2>5. KernelOutcome'
    BY <1>7, <2>2 DEF KernelOutcome, return_to_kernel, Finished
  <2> QED
    BY <2>3, <2>4, <2>5 DEF IInv
<1> QED
  BY <1>4, <1>5, <1>6, <1>7 DEF schedule, saved, woken
\* A timer tick in Ring 3 never ends in the idle loop.
LEMMA TimerNeverIdles ==
  ASSUME IInv, TimerFromUser
  PROVE  mode' # "hlt"
<1> SUFFICES ASSUME mode' = "hlt" PROVE FALSE
  OBVIOUS
<1>1. current \in Processes /\ state \in [Processes -> States] /\ state[current] = "Runnable"
  BY DEF IInv, TypeOK, OwnWorld, TimerFromUser
<1>2. wake_sleepers(state, remaining)[current] = "Runnable"
  BY <1>1, WakeFacts
<1>3. ~NoneRunnable(wake_sleepers(state, remaining), current)
  BY <1>1, <1>2, NoneMeansNone
<1> QED
  BY <1>3 DEF TimerFromUser, schedule, Dispatch, return_to_kernel

LEMMA NextIInv == IInv /\ [Next]_vars => IInv'
<1> SUFFICES ASSUME IInv, [Next]_vars PROVE IInv'
  OBVIOUS
<1>1. TypeOK /\ isr = FALSE
  BY DEF IInv, TypeOK
<1>2. CASE UserStep
  <2>1. PICK v \in Values : registers' = v /\ expected' = [expected EXCEPT ![current] = v]
    BY <1>2 DEF UserStep
  <2>2. expected' \in [Processes -> Values]
    BY <1>1, <2>1 DEF TypeOK
  <2>3. TypeOK' /\ BoundedBypass'
    BY <1>1, <1>2, <2>1, <2>2 DEF UserStep, TypeOK, procvars, IInv, BoundedBypass
  <2>4. OwnWorld' /\ KernelOutcome' /\ ~Idle' /\ mode' = "user"
    BY <1>1, <1>2, <2>1
    DEF UserStep, OwnWorld, KernelOutcome, Idle, procvars, TypeOK, IInv
  <2>5. \A p \in Processes : p # current => expected'[p] = expected[p]
    BY <1>1, <2>1 DEF TypeOK
  <2> QED
    BY <1>1, <1>2, <2>3, <2>4, <2>5 DEF UserStep, IInv, procvars
<1>3. CASE SyscallExit
  BY <1>1, <1>3, ScheduleIInv DEF SyscallExit, TypeOK, States
<1>4. CASE SyscallYield
  BY <1>1, <1>4, ScheduleIInv DEF SyscallYield, TypeOK
<1>5. ASSUME NEW ticks \in Durations, SyscallSleep(ticks) PROVE IInv'
  <2>1. [state EXCEPT ![current] = "Sleeping"] \in [Processes -> States]
    BY <1>1 DEF TypeOK, States
  <2>2. ticks \in Nat
    BY SchedulerAssumption
  <2>3. remaining' \in [Processes -> Nat]
    BY <1>1, <1>5, <2>2 DEF SyscallSleep, TypeOK
  <2> QED
    BY <1>1, <1>5, <2>1, <2>3, ScheduleIInv DEF SyscallSleep, TypeOK
<1>6. CASE UserFault
  BY <1>1, <1>6, ScheduleIInv DEF UserFault, TypeOK, States
<1>7. CASE TimerFromUser
  <2>1. isr' = FALSE /\ remaining' = Elapse(remaining)
    BY <1>7, TimerNeverIdles DEF TimerFromUser
  <2>2. remaining' \in [Processes -> Nat]
    BY <1>1, <2>1 DEF Elapse, TypeOK
  <2> QED
    BY <1>1, <1>7, <2>1, <2>2, ScheduleIInv DEF TimerFromUser, TypeOK
<1>8. CASE TimerFromIdle
  <2>1. remaining' \in [Processes -> Nat]
    BY <1>1, <1>8 DEF TimerFromIdle, Elapse, TypeOK
  <2>2. TypeOK'
    BY <1>1, <1>8, <2>1 DEF TimerFromIdle, TypeOK
  <2>3. OwnWorld' /\ KernelOutcome' /\ BoundedBypass'
    BY <1>8 DEF TimerFromIdle, OwnWorld, KernelOutcome, BoundedBypass, IInv
  <2> QED
    BY <1>1, <1>8, <2>2, <2>3 DEF TimerFromIdle, IInv, Idle
<1>9. CASE IdleCheck
  <2> DEFINE woken == wake_sleepers(state, remaining)
  <2>1. woken \in [Processes -> States] /\ current \in Processes /\ BoundedBypass
    BY <1>1, WakeFacts DEF TypeOK, IInv
  <2>2. \A p \in Processes : woken[p] \in {"Runnable", "Sleeping"} => context[p] = expected[p]
    <3>1. \A p \in Processes :
            woken[p] \in {"Runnable", "Sleeping"} => state[p] \in {"Runnable", "Sleeping"}
      BY <1>1, WakeFacts DEF TypeOK
    <3> QED
      BY <1>9, <3>1 DEF IInv, IdleCheck
  <2> HIDE DEF woken
  <2>3. CASE /\ state' = woken
             /\ \E next \in Processes :
                  next_runnable(woken, current, next) /\ Dispatch(woken, context, next)
    <3>1. PICK next \in Processes :
            next_runnable(woken, current, next) /\ Dispatch(woken, context, next)
      BY <2>3
    <3>2. woken[next] = "Runnable"
      BY <2>1, <3>1, NextIsNearest
    <3>3. \A p \in Processes :
            p # next /\ woken[p] = "Runnable" => waited[p] + 1 + Distance(next, p) <= N
      BY <1>9, <3>1, OvertakenOnce DEF IdleCheck
    <3> QED
      BY <1>1, <1>9, <2>1, <2>2, <2>3, <3>1, <3>2, <3>3, DispatchIInv
      DEF IdleCheck, TypeOK
  <2>4. CASE /\ state' = woken
             /\ NoneRunnable(woken, current)
             /\ mode' = "hlt"
             /\ UNCHANGED <<current, waited, registers, cr3, tss, kernel_if, failure>>
    <3>1. \A p \in Processes : woken[p] # "Runnable"
      BY <2>1, <2>4, NoneMeansNone
    <3>2. TypeOK' /\ BoundedBypass'
      BY <1>1, <1>9, <2>1, <2>4 DEF IdleCheck, TypeOK, BoundedBypass
    <3>3. OwnWorld' /\ KernelOutcome' /\ cr3' = Kernel
      BY <1>9, <2>4 DEF IdleCheck, OwnWorld, KernelOutcome, IInv, Idle
    <3>4. \A p \in Processes : waited[p] = 0
      BY <1>9 DEF IdleCheck, IInv, Idle
    <3> QED
      BY <1>1, <1>9, <2>2, <2>4, <3>1, <3>2, <3>3, <3>4 DEF IdleCheck, IInv, Idle
  <2> QED
    BY <1>9, <2>3, <2>4 DEF IdleCheck, woken
<1>10. CASE TimerFromKernel
  BY <1>1, <1>10
  DEF TimerFromKernel, IInv, TypeOK, OwnWorld, KernelOutcome, BoundedBypass, Idle,
      cpuvars, procvars, Finished
<1>11. CASE WaitForInterrupt
  BY <1>1, <1>11
  DEF WaitForInterrupt, IInv, TypeOK, OwnWorld, KernelOutcome, BoundedBypass, Idle,
      procvars, Finished
<1>12. CASE RunLoadedProcesses
  <2>1. PICK v \in Values :
          /\ context' = [p \in Processes |-> v]
          /\ expected' = [p \in Processes |-> v]
          /\ registers' = v
    BY <1>12 DEF RunLoadedProcesses
  <2>2. 0 \in Processes
    BY SchedulerAssumption DEF Processes
  <2>3. TypeOK'
    BY <1>1, <1>12, <2>1, <2>2 DEF RunLoadedProcesses, TypeOK, States
  <2>4. OwnWorld' /\ KernelOutcome' /\ ~Idle' /\ ~isr'
    BY <1>1, <1>12, <2>1, <2>2 DEF RunLoadedProcesses, OwnWorld, KernelOutcome, Idle
  <2>5. BoundedBypass'
    BY <1>12, SchedulerAssumption DEF RunLoadedProcesses, BoundedBypass
  <2>6. ASSUME NEW p \in Processes
        PROVE  context'[p] = expected'[p] /\ waited'[p] = 0 /\ Distance(0, p) \in 1 .. N
    BY <1>12, <2>1, <2>2, DistanceIndex DEF RunLoadedProcesses
  <2>7. \A p \in Processes : waited'[p] + Distance(current', p) <= N
    BY <1>12, <2>6, SchedulerAssumption DEF RunLoadedProcesses
  <2> QED
    BY <2>3, <2>4, <2>5, <2>6, <2>7, <1>12 DEF IInv, RunLoadedProcesses
<1>13. CASE PitFires
  BY <1>1, <1>13
  DEF PitFires, IInv, TypeOK, OwnWorld, KernelOutcome, BoundedBypass, Idle,
      cpuvars, procvars, Finished
<1>14. CASE UNCHANGED vars
  BY <1>14
  DEF vars, IInv, TypeOK, OwnWorld, KernelOutcome, BoundedBypass, Idle,
      cpuvars, procvars, Finished
<1> QED
  BY <1>2, <1>3, <1>4, <1>5, <1>6, <1>7, <1>8, <1>9, <1>10, <1>11, <1>12, <1>13, <1>14
  DEF Next

-----------------------------------------------------------------------------
(* The theorems *)

\* The inductive invariant of the scheduler holds with any number of
\* processes, sleeping times and register contents.
THEOREM InvariantHolds == Spec => []IInv
  BY InitIInv, NextIInv, PTL DEF Spec

\* The idle loop never runs under an unacknowledged timer interrupt.
THEOREM AlwaysAcknowledged == Spec => []AcknowledgedWhenIdle
<1>1. IInv => AcknowledgedWhenIdle
  BY DEF IInv, AcknowledgedWhenIdle
<1> QED
  BY <1>1, InvariantHolds, PTL

\* A process always runs with its own page tables, Ring 0 stack and registers.
THEOREM AlwaysOwnWorld == Spec => []OwnWorld
<1>1. IInv => OwnWorld
  BY DEF IInv
<1> QED
  BY <1>1, InvariantHolds, PTL

\* run_loaded_processes resumes with the kernel's page tables, and without a
\* failure only when all processes have finished.
THEOREM AlwaysKernelOutcome == Spec => []KernelOutcome
<1>1. IInv => KernelOutcome
  BY DEF IInv
<1> QED
  BY <1>1, InvariantHolds, PTL

\* No runnable process is passed over N times.
THEOREM AlwaysBoundedBypass == Spec => []BoundedBypass
<1>1. IInv => BoundedBypass
  BY DEF IInv
<1> QED
  BY <1>1, InvariantHolds, PTL
=============================================================================
