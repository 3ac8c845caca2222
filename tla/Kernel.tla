------------------------------- MODULE Kernel -------------------------------
(***************************************************************************)
(* KernelSched with the paging state its handlers write: which physical    *)
(* frame the user window (page_directory[32], virtual 128MB) maps, which   *)
(* kernel stack tss.esp0 names, which program each frame holds, and where  *)
(* the vidmap page (vid_page_table_0[0]) points.  No guard reads these, so *)
(* each action here is a KernelSched action conjoined with its paging      *)
(* effect, and the behaviours of Kernel project onto those of KernelSched. *)
(***************************************************************************)
EXTENDS KernelSched

CONSTANT VGA   \* physical video memory 0xB8000

VARIABLES
  user_page,     \* PID whose frame (pid+2)*4MB page_directory[32] maps
  esp0,          \* PID whose kernel stack tss.esp0 points at
  own_image,     \* own_image[f] : frame f holds the program of PID f
  vid_page,      \* target of vid_page_table_0[0]: VGA, mirror t, or NULL
  vid_present    \* page_directory[31] made present by vidmap

pageVars == << user_page, esp0, own_image, vid_page, vid_present >>
vars == << schedVars, pageVars >>

\* boot(): the shells are loaded into frames 2 .. 4 (PIDs 0 .. 2), the
\* window maps terminal 0's frame and tss.esp0 its kernel stack.
Init ==
  /\ SchedInit
  /\ user_page   = 0
  /\ esp0        = 0
  /\ own_image   = [p \in Pids |-> p \in Terms]
  /\ vid_page    = NULL
  /\ vid_present = FALSE

-----------------------------------------------------------------------------
\* execute lines 225-229: create_user_4mb_page(new_PID + 2, 32).
ExecuteClaimVM(t) ==
  /\ ExecuteClaim(t)
  /\ user_page' = new_pid[t]
  /\ UNCHANGED << esp0, own_image, vid_page, vid_present >>

\* execute lines 233-242: read_data writes the image at 0x08048000, i.e.
\* into whatever frame the window maps at the time of the copy.
ExecuteLoadVM(t) ==
  /\ ExecuteLoad(t)
  /\ own_image' = [own_image EXCEPT ![user_page] = (user_page = new_pid[t])]
  /\ UNCHANGED << user_page, esp0, vid_page, vid_present >>

\* execute lines 248 and 283: tss.esp0 = the new PID's kernel stack.
ExecuteSwitchVM(t) ==
  /\ ExecuteSwitch(t)
  /\ esp0' = new_pid[t]
  /\ UNCHANGED << user_page, own_image, vid_page, vid_present >>

\* Mutation of HaltVM: a relaunched boot shell gets tss.esp0 one PCB off.
HaltVMStackOffByOne(t) ==
  LET cur == Leaf(t)
      par == parent_pcb[cur]
  IN
  /\ Halt(t)
  /\ IF par = NULL
       THEN /\ esp0' = cur - 1
            /\ UNCHANGED user_page
       ELSE /\ user_page' = par
            /\ esp0' = par
  /\ UNCHANGED << own_image, vid_page, vid_present >>

\* halt lines 89 and 124-134: a boot shell keeps its frame and gets its
\* own kernel stack back; another task's parent gets both.
HaltVM(t) ==
  LET cur == Leaf(t)
      par == parent_pcb[cur]
  IN
  /\ Halt(t)
  /\ IF par = NULL
       THEN /\ esp0' = cur
            /\ UNCHANGED user_page
       ELSE /\ user_page' = par
            /\ esp0' = par
  /\ UNCHANGED << own_image, vid_page, vid_present >>

\* A CPU exception in user mode: halt(255) with its paging effects.
ExceptionVM(t) == HaltVM(t)

\* vidmap(screen_start) with a pointer inside the user window:
\* create_vid_4kb_page makes the page present and points it at VGA.
Vidmap(t) ==
  /\ Running(t) /\ pc[t] = "user"
  /\ vid_present' = TRUE
  /\ vid_page' = VGA
  /\ UNCHANGED << schedVars, user_page, esp0, own_image >>

\* remap_vid: the executing terminal sees VGA iff it is displayed.
RemapVid(e) == IF e = curr_term_id THEN VGA ELSE e

\* Mutation of PitTickVM: the leaf found before next_executing_term (the
\* curr_pcb of line 53) is mapped instead of the new terminal's.
PitTickVMStaleLeaf ==
  LET leaf == Leaf(exec_term_id) IN
  /\ PitTick
  /\ user_page' = leaf
  /\ vid_page' = RemapVid(NextExec)
  /\ esp0' = leaf
  /\ UNCHANGED << own_image, vid_present >>

\* pit_handler: map the next terminal's leaf frame, remap the vidmap
\* page, and point tss.esp0 at the leaf's kernel stack.
PitTickVM ==
  LET leaf == Leaf(NextExec) IN
  /\ PitTick
  /\ user_page' = leaf
  /\ vid_page' = RemapVid(NextExec)
  /\ esp0' = leaf
  /\ UNCHANGED << own_image, vid_present >>

\* switch_displaying_term lines 62-71: a new boot shell gets its frame and
\* kernel stack; the vidmap page is left as it is.
SwitchDisplayVM(k) ==
  /\ SwitchDisplay(k)
  /\ IF processes[k] = 0
       THEN /\ user_page' = k
            /\ esp0' = k
       ELSE UNCHANGED << user_page, esp0 >>
  /\ UNCHANGED << own_image, vid_page, vid_present >>

-----------------------------------------------------------------------------
KernelStep(t) ==
  \/ ExecuteClaimVM(t) \/ ExecuteLoadVM(t) \/ ExecuteSwitchVM(t)
  \/ (TerminalReadDone(t) \/ RtcReadDone(t)) /\ UNCHANGED pageVars

UserStep(t) ==
  \/ HaltVM(t) \/ ExceptionVM(t) \/ Vidmap(t)
  \/ (ExecuteFind(t) \/ TerminalRead(t) \/ RtcRead(t)) /\ UNCHANGED pageVars

Next ==
  \/ \E t \in Terms : UserStep(t) \/ KernelStep(t)
  \/ PitTickVM
  \/ (RtcTick \/ KeyEnter) /\ UNCHANGED pageVars
  \/ \E k \in Terms : SwitchDisplayVM(k)

Spec == Init /\ [][Next]_vars

-----------------------------------------------------------------------------
(* Properties.                                                              *)

TypeOK ==
  /\ SchedTypeOK
  /\ user_page \in Pids /\ esp0 \in Pids
  /\ own_image \in [Pids -> BOOLEAN]
  /\ vid_page \in Terms \cup {VGA, NULL} /\ vid_present \in BOOLEAN

\* The context switch is consistent: whenever the executing task is in
\* user mode or waiting in a read, page_directory[32] maps the frame of
\* its terminal's leaf PCB and tss.esp0 is that PCB's kernel stack.
\* pit_handler, halt, execute and switch_displaying_term each rewrite
\* these; the leaf itself is recomputed from the chain.
UserWindowIsLeaf ==
  pc[exec_term_id] \in UserStates \cup WaitStates =>
    /\ user_page = Leaf(exec_term_id)
    /\ esp0 = Leaf(exec_term_id)

\* Every task on a live terminal's chain runs its own program: no load
\* by execute has overwritten the frame of another task.  With IF clear in
\* system calls the map and the load of execute cannot be separated, so
\* this is of interest only with SyscallIF = TRUE, where a PIT tick between
\* them breaks it (README, findings kept out of the runs).
ImageIntegrity ==
  \A t \in Terms : processes[t] = 1 => \A p \in Chain(t) : own_image[p]

=============================================================================
