------------------------------ MODULE Scheduler ------------------------------
(***************************************************************************)
(* The preemptive scheduler (kernel/src/scheduler.rs) on one CPU with the  *)
(* interval timer behind a PIC (kernel/src/interrupts.rs).                 *)
(*                                                                         *)
(* A trap from Ring 3 runs the handler with interrupts off, so a trap is   *)
(* one step.  The exception is the idle loop inside schedule: it opens     *)
(* interrupts around hlt, and timer interrupts nest in it.  The handler    *)
(* runs before the timer interrupt is counted and acknowledged.            *)
(*                                                                         *)
(* A deadline is kept as the number of ticks still to come (wake_tick      *)
(* minus the tick counter, never below zero).  Registers leave out the     *)
(* result of a system call.                                                *)
(*                                                                         *)
(* switch_root fails only for an unaligned root.  The kernel's root is the *)
(* one read from CR3, so a switch to it succeeds; the failures of the      *)
(* other calls schedule checks are all possible here.                      *)
(***************************************************************************)
EXTENDS Integers

CONSTANTS N,            \* number of loaded processes
          Durations,    \* arguments of the sleep system call, in ticks
          Values        \* values of a process's registers

ASSUME SchedulerAssumption ==
  /\ N \in Nat \ {0}
  /\ Durations \subseteq Nat
  /\ Values # {}

Processes == 0 .. N - 1
Kernel == N               \* the kernel's page-table root

VARIABLES mode,           \* where the CPU is: "user", "kernel", or in the idle
                          \* loop before ("hlt") and after ("awake") its hlt
          current,        \* scheduler.current; kept when it becomes None
          state,          \* ProcessState of each process
          remaining,      \* ticks until a sleeper's deadline
          context,        \* saved UserContext of each process
          registers,      \* the registers a Ring 3 process runs with
          cr3, tss,       \* active page-table root, Ring 0 stack of traps
          irr, isr,       \* PIC: timer interrupt requested, in service
          kernel_if,      \* interrupt flag while mode = "kernel"
          failure,        \* scheduler.failure is set
          expected,       \* history: registers each process last ran with
          waited          \* history: dispatches of others since runnable

procvars == <<current, state, remaining, context, waited>>
cpuvars == <<mode, registers, cr3, tss, kernel_if>>
vars == <<cpuvars, procvars, irr, isr, failure, expected>>

Finished(st) == \A p \in Processes : st[p] \in {"Exited", "Faulted"}

-----------------------------------------------------------------------------
(* SchedulerState *)

\* The process states after wake_sleepers, with deadlines rem.
wake_sleepers(st, rem) ==
  [p \in Processes |->
     IF st[p] = "Sleeping" /\ rem[p] = 0 THEN "Runnable" ELSE st[p]]

\* Mutant: nobody counts as asleep.
has_sleepers_none(st) == FALSE

has_sleepers(st) == \E p \in Processes : st[p] = "Sleeping"

\* Mutant: the search stops one short of coming round to the current process.
next_runnable_others(st, cur, next) ==
  \E offset \in 1 .. N - 1 :
    /\ next = (cur + offset) % N
    /\ st[next] = "Runnable"
    /\ \A earlier \in 1 .. offset - 1 : st[(cur + earlier) % N] # "Runnable"

\* Mutant: the search always starts from the first process.
next_runnable_lowest(st, cur, next) ==
  /\ next \in Processes
  /\ st[next] = "Runnable"
  /\ \A p \in 0 .. next - 1 : st[p] # "Runnable"

\* next_runnable returns Some(next): the first one round-robin after cur.
next_runnable(st, cur, next) ==
  \E offset \in 1 .. N :
    /\ next = (cur + offset) % N
    /\ st[next] = "Runnable"
    /\ \A earlier \in 1 .. offset - 1 : st[(cur + earlier) % N] # "Runnable"

NoneRunnable(st, cur) == \A next \in Processes : ~next_runnable(st, cur, next)

\* The CPU goes on in run_loaded_processes: the stub jumps there instead of
\* returning from the interrupt, so interrupts stay off.
return_to_kernel ==
  /\ mode' = "kernel"
  /\ cr3' = Kernel
  /\ kernel_if' = FALSE

\* Mutant: the Ring 0 stack of the previous process stays in the TSS.
Dispatch_keeps_stack(st, ctx, next) ==
  /\ current' = next
  /\ waited' = [p \in Processes |->
                  IF p = next \/ st[p] # "Runnable" THEN 0 ELSE waited[p] + 1]
  /\ mode' = "user"
  /\ cr3' = next
  /\ registers' = ctx[next]
  /\ UNCHANGED <<kernel_if, failure, tss>>

\* The end of schedule: process next gets the CPU, or the switch fails.
Dispatch(st, ctx, next) ==
  /\ current' = next
  /\ waited' = [p \in Processes |->
                  IF p = next \/ st[p] # "Runnable" THEN 0 ELSE waited[p] + 1]
  /\ \/ /\ mode' = "user"
        /\ cr3' = next
        /\ tss' = next
        /\ registers' = ctx[next]
        /\ UNCHANGED <<kernel_if, failure>>
     \/ /\ failure' = TRUE
        /\ tss' \in {tss, next}
        /\ return_to_kernel
        /\ UNCHANGED registers

\* schedule, entered with process states st and deadlines rem, up to its idle
\* loop.  The first disjunct is a trap frame that cannot be captured.
schedule(st, rem) ==
  LET saved == IF st[current] \in {"Runnable", "Sleeping"}
               THEN [context EXCEPT ![current] = registers] ELSE context
      woken == wake_sleepers(st, rem)
  IN  \/ /\ st[current] \in {"Runnable", "Sleeping"}
         /\ failure' = TRUE
         /\ state' = st
         /\ return_to_kernel
         /\ UNCHANGED <<current, context, waited, registers, tss>>
      \/ /\ state' = woken
         /\ context' = saved
         /\ \/ \E next \in Processes :
                 next_runnable(woken, current, next) /\ Dispatch(woken, saved, next)
            \/ /\ NoneRunnable(woken, current)
               /\ has_sleepers(woken)
               /\ mode' = "hlt"
               /\ cr3' = Kernel
               /\ UNCHANGED <<current, waited, registers, tss, kernel_if, failure>>
            \/ /\ NoneRunnable(woken, current)
               /\ ~has_sleepers(woken)
               /\ return_to_kernel
               /\ UNCHANGED <<current, waited, registers, tss, failure>>
-----------------------------------------------------------------------------
(* Traps from Ring 3: handle_user_trap *)

\* One tick has passed.
Elapse(rem) ==
  [p \in Processes |-> IF rem[p] > 0 THEN rem[p] - 1 ELSE 0]

\* A process computes; system calls that only return a value are part of it.
UserStep ==
  /\ mode = "user"
  /\ \E v \in Values : registers' = v /\ expected' = [expected EXCEPT ![current] = v]
  /\ UNCHANGED <<mode, cr3, tss, kernel_if, procvars, irr, isr, failure>>

SyscallExit ==
  /\ mode = "user"
  /\ schedule([state EXCEPT ![current] = "Exited"], remaining)
  /\ UNCHANGED <<remaining, irr, isr, expected>>

SyscallYield ==
  /\ mode = "user"
  /\ schedule(state, remaining)
  /\ UNCHANGED <<remaining, irr, isr, expected>>

\* The deadline is set before schedule looks for sleepers to wake.
SyscallSleep(ticks) ==
  /\ mode = "user"
  /\ remaining' = [remaining EXCEPT ![current] = ticks]
  /\ schedule([state EXCEPT ![current] = "Sleeping"], remaining')
  /\ UNCHANGED <<irr, isr, expected>>

UserFault ==
  /\ mode = "user"
  /\ schedule([state EXCEPT ![current] = "Faulted"], remaining)
  /\ UNCHANGED <<remaining, irr, isr, expected>>

\* Mutant: the interrupt is acknowledged before the scheduler runs, and the
\* tick is never counted.
TimerFromUser_uncounted ==
  /\ mode = "user" /\ irr /\ ~isr
  /\ irr' = FALSE
  /\ schedule(state, remaining)
  /\ UNCHANGED <<remaining, isr, expected>>

\* A timer interrupt in Ring 3.  If schedule went idle, the handler would not
\* come back to acknowledge it.
TimerFromUser ==
  /\ mode = "user" /\ irr /\ ~isr
  /\ irr' = FALSE
  /\ schedule(state, remaining)
  /\ IF mode' = "hlt" THEN isr' = TRUE /\ remaining' = remaining
                      ELSE isr' = FALSE /\ remaining' = Elapse(remaining)
  /\ UNCHANGED expected

-----------------------------------------------------------------------------
(* The idle loop, the kernel and the timer *)

\* A timer interrupt in the idle loop: interrupts are open from sti to cli.
TimerFromIdle ==
  /\ mode \in {"hlt", "awake"} /\ irr /\ ~isr
  /\ irr' = FALSE
  /\ remaining' = Elapse(remaining)
  /\ mode' = "awake"
  /\ UNCHANGED <<current, state, context, waited, registers, cr3, tss, kernel_if,
                 isr, failure, expected>>

\* After hlt: cli, wake_sleepers and another look for a process to run.  A
\* sleeper leaves has_sleepers only by becoming runnable.
IdleCheck ==
  /\ mode = "awake"
  /\ LET woken == wake_sleepers(state, remaining)
     IN  /\ state' = woken
         /\ \/ \E next \in Processes :
                 next_runnable(woken, current, next) /\ Dispatch(woken, context, next)
            \/ /\ NoneRunnable(woken, current)
               /\ mode' = "hlt"
               /\ UNCHANGED <<current, waited, registers, cr3, tss, kernel_if, failure>>
  /\ UNCHANGED <<remaining, context, irr, isr, expected>>

TimerFromKernel ==
  /\ mode = "kernel" /\ kernel_if /\ irr /\ ~isr
  /\ irr' = FALSE
  /\ UNCHANGED <<cpuvars, procvars, isr, failure, expected>>

\* wait_for_interrupt in the main loop opens interrupts again.
WaitForInterrupt ==
  /\ mode = "kernel" /\ ~kernel_if
  /\ kernel_if' = TRUE
  /\ UNCHANGED <<mode, registers, cr3, tss, procvars, irr, isr, failure, expected>>

\* run_loaded_processes with freshly created processes.
RunLoadedProcesses ==
  /\ mode = "kernel"
  /\ \E v \in Values :
       /\ context' = [p \in Processes |-> v]
       /\ expected' = [p \in Processes |-> v]
       /\ registers' = v
  /\ mode' = "user"
  /\ current' = 0
  /\ state' = [p \in Processes |-> "Runnable"]
  /\ remaining' = [p \in Processes |-> 0]
  /\ waited' = [p \in Processes |-> 0]
  /\ cr3' = 0
  /\ tss' = 0
  /\ failure' = FALSE
  /\ UNCHANGED <<kernel_if, irr, isr>>

\* The timer requests an interrupt; a request already there absorbs it.
PitFires ==
  /\ irr' = TRUE
  /\ UNCHANGED <<cpuvars, procvars, isr, failure, expected>>

Init ==
  /\ mode = "kernel"
  /\ current = 0
  /\ state = [p \in Processes |-> "Exited"]
  /\ remaining = [p \in Processes |-> 0]
  /\ \E v \in Values :
       /\ registers = v
       /\ context = [p \in Processes |-> v]
       /\ expected = [p \in Processes |-> v]
  /\ cr3 = Kernel
  /\ tss = 0
  /\ irr = FALSE
  /\ isr = FALSE
  /\ kernel_if = TRUE
  /\ failure = FALSE
  /\ waited = [p \in Processes |-> 0]

Next ==
  \/ UserStep
  \/ SyscallExit
  \/ SyscallYield
  \/ \E ticks \in Durations : SyscallSleep(ticks)
  \/ UserFault
  \/ TimerFromUser
  \/ TimerFromIdle
  \/ IdleCheck
  \/ TimerFromKernel
  \/ WaitForInterrupt
  \/ RunLoadedProcesses
  \/ PitFires

Spec == Init /\ [][Next]_vars

\* The timer ticks for ever and an open, requested interrupt is delivered;
\* the idle loop's instructions after hlt are executed.
FairSpec ==
  /\ Spec
  /\ WF_vars(PitFires)
  /\ WF_vars(TimerFromUser \/ TimerFromIdle)
  /\ WF_vars(IdleCheck)
-----------------------------------------------------------------------------
(* Properties *)

States == {"Runnable", "Sleeping", "Exited", "Faulted"}

\* Every variable keeps its type; deadlines and waiting counts are naturals.
TypeOK ==
  /\ mode \in {"user", "kernel", "hlt", "awake"}
  /\ current \in Processes
  /\ state \in [Processes -> States]
  /\ remaining \in [Processes -> Nat]
  /\ context \in [Processes -> Values]
  /\ registers \in Values
  /\ cr3 \in Processes \cup {Kernel}
  /\ tss \in Processes
  /\ irr \in BOOLEAN
  /\ isr \in BOOLEAN
  /\ kernel_if \in BOOLEAN
  /\ failure \in BOOLEAN
  /\ expected \in [Processes -> Values]
  /\ waited \in [Processes -> Nat]

Idle == mode \in {"hlt", "awake"}

\* The idle loop is never entered from the timer interrupt: its hlt would wait
\* for a timer that the PIC holds back until the handler acknowledges it.
AcknowledgedWhenIdle == Idle => ~isr

\* A process in Ring 3 is runnable and has its own page tables, its own Ring 0
\* stack and the registers it was last interrupted with, whatever ran between.
OwnWorld ==
  mode = "user" =>
    /\ state[current] = "Runnable"
    /\ cr3 = current
    /\ tss = current
    /\ registers = expected[current]

\* run_loaded_processes goes on in the kernel's page tables, so that address
\* spaces can be destroyed, and without a failure only when every process has
\* exited or faulted.
KernelOutcome ==
  mode = "kernel" => cr3 = Kernel /\ (failure \/ Finished(state))

\* Round robin: a runnable process is passed over by at most N - 1 dispatches,
\* also when processes sleep, wake and exit meanwhile.
BoundedBypass == \A p \in Processes : waited[p] < N

\* A runnable process gets the CPU, even if the others never give it up, and so
\* does one that sleeps, whether the others compute, yield or sleep as well.
EveryoneRuns ==
  \A p \in Processes :
    (mode # "kernel" /\ state[p] \in {"Runnable", "Sleeping"})
      ~> ((mode = "user" /\ current = p) \/ mode = "kernel")

\* Process p comes up this many steps after process c in round-robin order.
Distance(c, p) == IF p > c THEN p - c ELSE p - c + N

\* The inductive invariant: a waiting process is overtaken only by those in
\* front of it, and saved contexts are the latest ones.
IInv ==
  /\ TypeOK
  /\ ~isr
  /\ OwnWorld
  /\ KernelOutcome
  /\ BoundedBypass
  /\ Idle => cr3 = Kernel /\ \A p \in Processes : state[p] # "Runnable"
  /\ mode # "kernel" =>
       \A p \in Processes :
         /\ state[p] \in {"Runnable", "Sleeping"} /\ (mode = "user" => p # current)
              => context[p] = expected[p]
         /\ state[p] # "Runnable" \/ p = current => waited[p] = 0
         /\ state[p] = "Runnable" /\ p # current
              => waited[p] + Distance(current, p) <= N
=============================================================================
