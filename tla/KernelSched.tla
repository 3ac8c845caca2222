---------------------------- MODULE KernelSched ----------------------------
(***************************************************************************)
(* Control state of the student-distrib kernel: the PCB tree of syscall.c,  *)
(* the round-robin scheduler (pit_handler, next_executing_term), terminal   *)
(* switching (switch_displaying_term) and the two blocking reads           *)
(* (terminal_read, rtc_read).  One CPU; the only concurrency comes from    *)
(* interrupts: the PIT tick, the keyboard IRQ (ALT+Fn, ENTER) and the RTC  *)
(* IRQ.  Each terminal runs one task at a time, the leaf of its PCB chain; *)
(* pc[t] is where that leaf is.                                           *)
(*                                                                         *)
(* The paging state these handlers also write (the user window, tss.esp0,  *)
(* the vidmap page) is never read by a guard; module Kernel adds it.        *)
(*                                                                         *)
(* SyscallIF says whether the system-call entry (syscall_wrapper, not in   *)
(* the repository) runs handlers with interrupts enabled.  The IDT gates    *)
(* installed by init_idt are interrupt gates (IF cleared on entry); only    *)
(* cli/sti inside the handlers change it afterwards.                       *)
(***************************************************************************)
EXTENDS Naturals, FiniteSets, FiniteSetsExt

CONSTANTS
  NUM_TERMINALS,      \* terminal.h: 3; boot PIDs are 0 .. NUM_TERMINALS-1
  MAX_NUM_PROCESSES,  \* syscall.h: PCB slots, PIDs 0 .. MAX_NUM_PROCESSES-1
  MaxEnters,          \* bound on unread ENTERs counted per terminal
  SyscallIF,          \* TRUE: system calls run with IF = 1 unless they cli
  NULL                \* the NULL pointer of parent_pcb/child_pcb

ASSUME NUM_TERMINALS \in 2 .. 3
ASSUME MAX_NUM_PROCESSES \in NUM_TERMINALS + 1 .. 7
ASSUME MaxEnters \in Nat \ {0}
ASSUME SyscallIF \in BOOLEAN

\* The code writes NUM_TERMINALS as the literal 3 (boot, execute's search
\* "for(i = 3; ...)") and NUM_TERMINALS - 1 as 2 (next_executing_term).
Terms    == 0 .. NUM_TERMINALS - 1
Pids     == 0 .. MAX_NUM_PROCESSES - 1
DynPids  == NUM_TERMINALS .. MAX_NUM_PROCESSES - 1

\* Where the leaf task of a terminal is.  The exec_* states are the parts
\* of execute() between which an enabled interrupt could preempt it.
UserStates   == {"user"}
WaitStates   == {"term_read", "rtc_read"}
ExecStates   == {"exec_claim", "exec_load", "exec_switch"}
PcStates     == UserStates \cup WaitStates \cup ExecStates

VARIABLES
  processes,     \* processes[p] : liveness bitmap (syscall.h)
  parent_pcb,    \* pcb_t.parent_pcb, NULL or a PID
  child_pcb,     \* pcb_t.child_pcb, NULL or a PID
  exec_term_id,  \* terminal being scheduled
  curr_term_id,  \* terminal being displayed
  num_enters,    \* per terminal: num_enters / terms[t].enters_save
  flags,         \* rtc.c flags[t], set by the RTC IRQ
  pc,            \* pc[t] : where terminal t's leaf task is
  new_pid        \* new_PID of an execute in progress on terminal t

schedVars == << processes, parent_pcb, child_pcb, exec_term_id, curr_term_id,
                num_enters, flags, pc, new_pid >>

-----------------------------------------------------------------------------
(* PCB chain helpers (get_current_executing_pcb).  The walk is bounded by   *)
(* the number of PCBs so that a corrupted chain cannot make it diverge.     *)

RECURSIVE LeafFrom(_, _)
LeafFrom(p, n) ==
  IF child_pcb[p] = NULL \/ n = 0 THEN p ELSE LeafFrom(child_pcb[p], n - 1)

\* get_current_executing_pcb / get_current_displaying_pcb for terminal t
Leaf(t) == LeafFrom(t, MAX_NUM_PROCESSES)

RECURSIVE ChainFrom(_, _)
ChainFrom(p, n) ==
  {p} \cup IF child_pcb[p] = NULL \/ n = 0 THEN {}
           ELSE ChainFrom(child_pcb[p], n - 1)

\* Every PCB reached from terminal t's boot PCB by child_pcb links.
Chain(t) == ChainFrom(t, MAX_NUM_PROCESSES)

\* Interrupts are enabled: user mode, terminal_read's sti loop, or a
\* system call that never executed cli when the entry leaves IF set.
IntrEnabled ==
  LET s == pc[exec_term_id] IN
  \/ s \in UserStates
  \/ s = "term_read"
  \/ SyscallIF /\ s \in ExecStates \cup {"rtc_read"}

\* A step of the task currently on the CPU.
Running(t) == exec_term_id = t

-----------------------------------------------------------------------------
\* boot(): every PCB unlinked, only terminal 0's shell live and running.
SchedInit ==
  /\ processes    = [p \in Pids |-> IF p = 0 THEN 1 ELSE 0]
  /\ parent_pcb   = [p \in Pids |-> NULL]
  /\ child_pcb    = [p \in Pids |-> NULL]
  /\ exec_term_id = 0
  /\ curr_term_id = 0
  /\ num_enters   = [t \in Terms |-> 0]
  /\ flags        = [t \in Terms |-> 0]
  /\ pc           = [t \in Terms |-> "user"]
  /\ new_pid      = [t \in Terms |-> NULL]

-----------------------------------------------------------------------------
(* execute(command), split where an interrupt could land if IF were set.    *)

\* Lines 189-211: the command names an ELF file and the search finds the
\* lowest free dynamic PID (the test of processes[i]).  A missing file, a
\* non-ELF file or no free PID returns without changing any state.
ExecuteFind(t) ==
  LET free == {i \in DynPids : processes[i] = 0} IN
  /\ Running(t) /\ pc[t] = "user"
  /\ free # {}
  /\ new_pid' = [new_pid EXCEPT ![t] = Min(free)]
  /\ pc' = [pc EXCEPT ![t] = "exec_claim"]
  /\ UNCHANGED << processes, parent_pcb, child_pcb, exec_term_id,
                  curr_term_id, num_enters, flags >>

\* Mutation of ExecuteClaim: the PID is found but never marked in use.
ExecuteClaimNoMark(t) ==
  /\ Running(t) /\ pc[t] = "exec_claim"
  /\ pc' = [pc EXCEPT ![t] = "exec_load"]
  /\ UNCHANGED << processes, parent_pcb, child_pcb, exec_term_id,
                  curr_term_id, num_enters, flags, new_pid >>

\* Line 212: processes[new_PID] = 1 (then the user window is remapped).
ExecuteClaim(t) ==
  /\ Running(t) /\ pc[t] = "exec_claim"
  /\ processes' = [processes EXCEPT ![new_pid[t]] = 1]
  /\ pc' = [pc EXCEPT ![t] = "exec_load"]
  /\ UNCHANGED << parent_pcb, child_pcb, exec_term_id, curr_term_id,
                  num_enters, flags, new_pid >>

\* Lines 233-242: the program is copied through the user window.
ExecuteLoad(t) ==
  /\ Running(t) /\ pc[t] = "exec_load"
  /\ pc' = [pc EXCEPT ![t] = "exec_switch"]
  /\ UNCHANGED << processes, parent_pcb, child_pcb, exec_term_id,
                  curr_term_id, num_enters, flags, new_pid >>

\* Lines 247-328: the new PCB is linked below the current leaf
\* (new_PID >= 3 always here), and iret enters it.
ExecuteSwitch(t) ==
  LET p    == new_pid[t]
      prev == Leaf(t)
  IN
  /\ Running(t) /\ pc[t] = "exec_switch"
  /\ parent_pcb' = [parent_pcb EXCEPT ![p] = prev]
  /\ child_pcb' = [child_pcb EXCEPT ![prev] = p, ![p] = NULL]
  /\ pc' = [pc EXCEPT ![t] = "user"]
  /\ new_pid' = [new_pid EXCEPT ![t] = NULL]
  /\ UNCHANGED << processes, exec_term_id, curr_term_id, num_enters, flags >>

\* Mutation of Halt: the parent's child_pcb is left pointing at the task.
HaltKeepsChildLink(t) ==
  LET cur == Leaf(t) IN
  /\ Running(t) /\ pc[t] = "user"
  /\ IF parent_pcb[cur] = NULL
       THEN UNCHANGED processes
       ELSE processes' = [processes EXCEPT ![cur] = 0]
  /\ UNCHANGED << parent_pcb, child_pcb, exec_term_id, curr_term_id,
                  num_enters, flags, pc, new_pid >>

\* halt(status), run with interrupts disabled.  A boot shell (no parent)
\* is re-entered at its entry point with nothing else reset; any other
\* task has its PID freed and the parent's child link cleared.
Halt(t) ==
  LET cur == Leaf(t)
      par == parent_pcb[cur]
  IN
  /\ Running(t) /\ pc[t] = "user"
  /\ IF par = NULL
       THEN UNCHANGED << processes, child_pcb >>
       ELSE /\ processes' = [processes EXCEPT ![cur] = 0]
            /\ child_pcb' = [child_pcb EXCEPT ![par] = NULL]
  /\ UNCHANGED << parent_pcb, exec_term_id, curr_term_id, num_enters,
                  flags, pc, new_pid >>

\* read() on stdin enters terminal_read's wait loop.
TerminalRead(t) ==
  /\ Running(t) /\ pc[t] = "user"
  /\ pc' = [pc EXCEPT ![t] = "term_read"]
  /\ UNCHANGED << processes, parent_pcb, child_pcb, exec_term_id,
                  curr_term_id, num_enters, flags, new_pid >>

\* The loop exits (with IF cleared) once its terminal is displayed and a
\* line is ready; num_enters-- and the line is dequeued.
TerminalReadDone(t) ==
  /\ Running(t) /\ pc[t] = "term_read"
  /\ curr_term_id = t
  /\ num_enters[t] > 0
  /\ num_enters' = [num_enters EXCEPT ![t] = @ - 1]
  /\ pc' = [pc EXCEPT ![t] = "user"]
  /\ UNCHANGED << processes, parent_pcb, child_pcb, exec_term_id,
                  curr_term_id, flags, new_pid >>

\* read() on an RTC descriptor enters rtc_read's busy wait.
RtcRead(t) ==
  /\ Running(t) /\ pc[t] = "user"
  /\ pc' = [pc EXCEPT ![t] = "rtc_read"]
  /\ UNCHANGED << processes, parent_pcb, child_pcb, exec_term_id,
                  curr_term_id, num_enters, flags, new_pid >>

\* while(flags[exec_term_id] == 0); flags[exec_term_id] = 0; return 0;
RtcReadDone(t) ==
  /\ Running(t) /\ pc[t] = "rtc_read"
  /\ flags[t] = 1
  /\ flags' = [flags EXCEPT ![t] = 0]
  /\ pc' = [pc EXCEPT ![t] = "user"]
  /\ UNCHANGED << processes, parent_pcb, child_pcb, exec_term_id,
                  curr_term_id, num_enters, new_pid >>

-----------------------------------------------------------------------------
(* Interrupt handlers.                                                      *)

\* Mutation of NextTermFrom: wraps one terminal early (> 1 for 3 terms).
RECURSIVE NextTermFromEarlyWrap(_, _)
NextTermFromEarlyWrap(e, n) ==
  LET e1 == IF e + 1 > NUM_TERMINALS - 2 THEN 0 ELSE e + 1 IN
  IF processes[e1] = 1 \/ n = 0 THEN e1 ELSE NextTermFromEarlyWrap(e1, n - 1)

\* next_executing_term: advance exec_term_id, wrapping past the last
\* terminal, until a terminal whose boot PID is live is found.
RECURSIVE NextTermFrom(_, _)
NextTermFrom(e, n) ==
  LET e1 == IF e + 1 > NUM_TERMINALS - 1 THEN 0 ELSE e + 1 IN
  IF processes[e1] = 1 \/ n = 0 THEN e1 ELSE NextTermFrom(e1, n - 1)

\* The terminal pit_handler switches to.
NextExec == NextTermFrom(exec_term_id, NUM_TERMINALS - 1)

\* pit_handler: save the context, pick the next terminal and resume its
\* leaf task (the remapping is in Kernel).
PitTick ==
  /\ IntrEnabled
  /\ exec_term_id' = NextExec
  /\ UNCHANGED << processes, parent_pcb, child_pcb, curr_term_id,
                  num_enters, flags, pc, new_pid >>

\* keyboard ENTER: one more line ready in the displayed terminal.
KeyEnter ==
  /\ IntrEnabled
  /\ num_enters[curr_term_id] < MaxEnters
  /\ num_enters' = [num_enters EXCEPT ![curr_term_id] = @ + 1]
  /\ UNCHANGED << processes, parent_pcb, child_pcb, exec_term_id,
                  curr_term_id, flags, pc, new_pid >>

\* ALT+F(k+1): switch_displaying_term(k).  A terminal never started gets
\* its boot shell launched by iret from inside the keyboard handler.
SwitchDisplay(k) ==
  /\ IntrEnabled
  /\ curr_term_id' = k
  /\ IF processes[k] = 0
       THEN /\ processes' = [processes EXCEPT ![k] = 1]
            /\ exec_term_id' = k
       ELSE UNCHANGED << processes, exec_term_id >>
  /\ UNCHANGED << parent_pcb, child_pcb, num_enters, flags, pc, new_pid >>

\* rtc_handler: every terminal's flag is set.
RtcTick ==
  /\ IntrEnabled
  /\ flags' = [t \in Terms |-> 1]
  /\ UNCHANGED << processes, parent_pcb, child_pcb, exec_term_id,
                  curr_term_id, num_enters, pc, new_pid >>

\* idt.c, interrupt_0 .. interrupt_21: a CPU exception raised by the
\* user program prints its name and calls halt(255), i.e. the task halts
\* with status 256 (the status is not modelled).
Exception(t) == Halt(t)

-----------------------------------------------------------------------------
\* The kernel-mode continuation of a task: the CPU runs it whenever the
\* task is scheduled, whatever interrupts do in between.
SchedKernelStep(t) ==
  \/ ExecuteClaim(t) \/ ExecuteLoad(t) \/ ExecuteSwitch(t)
  \/ TerminalReadDone(t) \/ RtcReadDone(t)

\* What the user program asks for next (vidmap changes no control state).
SchedUserStep(t) ==
  \/ ExecuteFind(t) \/ Halt(t) \/ Exception(t) \/ TerminalRead(t) \/ RtcRead(t)

\* Every step but the RTC interrupt, which KernelRtc guards by the rate.
SchedOtherStep ==
  \/ \E t \in Terms : SchedUserStep(t) \/ SchedKernelStep(t)
  \/ PitTick
  \/ KeyEnter
  \/ \E k \in Terms : SwitchDisplay(k)

SchedNext == SchedOtherStep \/ RtcTick

\* The PIT and RTC fire periodically; an IRQ raised while IF = 0 stays
\* pending and is taken when IF is set again, hence strong fairness.  A
\* scheduled task's kernel code runs on; user programs and the keyboard
\* owe nothing.
SchedFairness ==
  /\ SF_schedVars(PitTick)
  /\ SF_schedVars(RtcTick)
  /\ \A t \in Terms : SF_schedVars(SchedKernelStep(t))

SchedSpec == SchedInit /\ [][SchedNext]_schedVars /\ SchedFairness

-----------------------------------------------------------------------------
(* Properties.                                                              *)

SchedTypeOK ==
  /\ processes \in [Pids -> {0, 1}]
  /\ parent_pcb \in [Pids -> Pids \cup {NULL}]
  /\ child_pcb \in [Pids -> Pids \cup {NULL}]
  /\ exec_term_id \in Terms /\ curr_term_id \in Terms
  /\ num_enters \in [Terms -> 0 .. MaxEnters]
  /\ flags \in [Terms -> {0, 1}]
  /\ pc \in [Terms -> PcStates]
  /\ new_pid \in [Terms -> Pids \cup {NULL}]

Live == {p \in Pids : processes[p] = 1}

\* PIDs claimed by an execute that has not linked them yet.
Claimed(t) == IF pc[t] \in {"exec_load", "exec_switch"}
                THEN {new_pid[t]} ELSE {}

\* Spec invariant 1 and the child/parent ownership: from every live boot
\* PCB the child_pcb chain only reaches live PCBs; every other live PCB
\* (not still being created) hangs below its parent, which points back at
\* it, and lies on the chain of a live terminal.  halt() and execute()
\* must keep both directions of the link in step.
TreeWellFormed ==
  LET ch == [t \in Terms |-> Chain(t)]
      started == {t \in Terms : processes[t] = 1}
  IN
  /\ \A t \in started : ch[t] \subseteq Live
  /\ \A p \in Live \ (Terms \cup UNION {Claimed(t) : t \in Terms}) :
       /\ parent_pcb[p] \in Live
       /\ child_pcb[parent_pcb[p]] = p
       /\ \E t \in started : p \in ch[t]

\* No PCB serves two tasks: the chains of different terminals are
\* disjoint, and a PID claimed by an execute in progress is neither on a
\* chain nor claimed by another terminal.  This is what the PID search
\* in execute (test processes[i], then set it) must guarantee.
UniqueTaskPids ==
  LET ch == [t \in Terms |-> Chain(t)] IN
  \A t1, t2 \in Terms :
    /\ t1 # t2 => ch[t1] \cap ch[t2] = {}
    /\ Claimed(t1) \cap ch[t2] = {}
    /\ t1 # t2 => Claimed(t1) \cap Claimed(t2) = {}

\* Every started terminal is scheduled again and again (round robin in
\* next_executing_term under the periodic PIT).
TerminalsScheduled ==
  \A t \in Terms : processes[t] = 1 ~> exec_term_id = t

\* A task blocked in rtc_read returns once the RTC has ticked.
RtcReadReturns ==
  \A t \in Terms : pc[t] = "rtc_read" ~> pc[t] = "user"

=============================================================================
