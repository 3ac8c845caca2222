------------------------------- MODULE Paging -------------------------------
(***************************************************************************)
(* The page directory and the two page tables of paging.c, written by the  *)
(* entry builders and read by the MMU.  The callers' sequences (boot,      *)
(* execute and halt, pit_handler, vidmap, switch_displaying_term) are the  *)
(* actions; each is followed in the code by reload_cr3, so no stale TLB    *)
(* entry survives a step and the TLB is left out.                           *)
(*                                                                         *)
(* clear_page_directory_table marks every entry not present; only          *)
(* page_directory[0, 1, 31, 32], page_table_0[0xB8] and                    *)
(* vid_page_table_0[0] are ever written, so the functions below have just  *)
(* those indices.  An entry is the record of the pde_t/pte_t bitfields the *)
(* code sets; the bits it always leaves 0 are left out.                    *)
(***************************************************************************)
EXTENDS Naturals, FiniteSets, TLC

CONSTANTS
  NUM_TERMINALS,       \* terminal.h: 3
  MAX_NUM_PROCESSES,   \* syscall.h
  TERMS_ADDR,          \* physical address of terms[] (kernel .bss, 4 KiB aligned)
  PT0_FRAME,           \* page_table_0 >> 12
  VPT_FRAME            \* vid_page_table_0 >> 12

ASSUME TERMS_ADDR % 4096 = 0 /\ PT0_FRAME # VPT_FRAME

Terms == 0 .. NUM_TERMINALS - 1
Pids  == 0 .. MAX_NUM_PROCESSES - 1

PAGE_TABLE_SIZE       == 1024
USER_PD_INDEX         == 32
VID_MAP_VIRTUAL_INDEX == 31
VIDEO                 == 753664          \* 0xB8000
VID_SIZE              == 4000            \* NUM_ROWS * NUM_COLS * 2
FourMB                == 4194304

\* term_t: x_save, y_save, buff_save[128], then vid_save aligned to 4096,
\* then enters_save and buff_index_save; the struct rounds up to 8192.
TERM_SIZE       == 8192
VID_SAVE_OFFSET == 4096
VidSave(t) == TERMS_ADDR + t * TERM_SIZE + VID_SAVE_OFFSET

VARIABLES
  page_directory,    \* [{0, 1, 31, 32} -> entry]
  page_table_0,      \* [{0xB8} -> entry]
  vid_page_table_0,  \* [{0} -> entry]
  exec_term_id,
  curr_term_id,
  started            \* terminals t with processes[t] = 1

vars == << page_directory, page_table_0, vid_page_table_0, exec_term_id,
           curr_term_id, started >>

Entry(present, rw, privilege_level, size, global_page, addr) ==
  [present |-> present, rw |-> rw, privilege_level |-> privilege_level, size |-> size,
   global_page |-> global_page, addr |-> addr]

NotPresent == Entry(0, 0, 0, 0, 0, 0)

-----------------------------------------------------------------------------
(* The entry builders, as operators on the tables.                         *)

\* init_paging: clear_page_directory_table, kernel_paging_init (4 MiB
\* global supervisor page at 4 MiB), vga_paging_init (page_table_0 maps
\* the VGA page 0xB8 to itself, supervisor only).
InitPD ==
  (0 :> Entry(1, 1, 0, 0, 0, PT0_FRAME)) @@ (1 :> Entry(1, 1, 0, 1, 1, 1024))
  @@ (31 :> NotPresent) @@ (32 :> NotPresent)
InitPT0 == [i \in {184} |-> Entry(1, 1, 0, 0, 0, 184)]

\* create_user_4mb_page(real_index, virt_index): rejects indices below 2
\* or past the table, else a present user 4 MiB page; addr holds the frame
\* number above 10 zero bits (reserved and PAT).
CreateUser4mbPage(pd, real_index, virt_index) ==
  IF real_index < 2 \/ virt_index < 2
     \/ real_index >= PAGE_TABLE_SIZE \/ virt_index >= PAGE_TABLE_SIZE
    THEN pd
    ELSE [pd EXCEPT ![virt_index] = Entry(1, 1, 1, 1, 0, real_index * 1024)]

\* remap_vid(exec_term_id): VGA if that terminal is displayed, else the
\* page of its vid_save ((addr & 0xFFFFF000) >> 12).
RemapVid(vpt, e) ==
  [vpt EXCEPT ![0].addr = IF e = curr_term_id THEN 184 ELSE VidSave(e) \div 4096]

\* next_executing_term: step past exec_term_id, wrapping after 2, until a
\* live terminal.
NextExec ==
  LET live(s) == (exec_term_id + s) % NUM_TERMINALS \in started
      s0 == CHOOSE s \in 1 .. NUM_TERMINALS : live(s) /\ \A r \in 1 .. s - 1 : ~live(r)
  IN (exec_term_id + s0) % NUM_TERMINALS

-----------------------------------------------------------------------------
\* init_paging, then boot(): maps the frames 2, 3, 4 in turn while loading
\* the three shells, and finally frame 2 for terminal 0's shell.
Init ==
  /\ page_directory = CreateUser4mbPage(InitPD, 2, USER_PD_INDEX)
  /\ page_table_0 = InitPT0
  /\ vid_page_table_0 = [i \in {0} |-> NotPresent]
  /\ exec_term_id = 0 /\ curr_term_id = 0
  /\ started = {0}

\* execute (lines 225-229, 238-239) and halt (126-128): the user window
\* maps the frame of PID p.
MapUserWindow(p) ==
  /\ page_directory' = CreateUser4mbPage(page_directory, p + 2, USER_PD_INDEX)
  /\ UNCHANGED << page_table_0, vid_page_table_0, exec_term_id, curr_term_id, started >>

\* pit_handler: next terminal, its leaf's frame (a boot or a dynamic PID),
\* then remap_vid for it.
PitTick ==
  LET e == NextExec IN
  /\ exec_term_id' = e
  /\ \E p \in ({e} \cup (NUM_TERMINALS .. MAX_NUM_PROCESSES - 1)) :
       page_directory' = CreateUser4mbPage(page_directory, p + 2, USER_PD_INDEX)
  /\ vid_page_table_0' = RemapVid(vid_page_table_0, e)
  /\ UNCHANGED << page_table_0, curr_term_id, started >>

\* vidmap with a pointer inside the user window: create_vid_4kb_page
\* makes page_directory[31] a present user page table whose entry 0 is the
\* VGA page, whichever terminal calls it.
Vidmap ==
  /\ page_directory' = [page_directory EXCEPT
                          ![VID_MAP_VIRTUAL_INDEX] = Entry(1, 1, 1, 0, 0, VPT_FRAME)]
  /\ vid_page_table_0' = [vid_page_table_0 EXCEPT ![0] = Entry(1, 1, 1, 0, 0, 184)]
  /\ UNCHANGED << page_table_0, exec_term_id, curr_term_id, started >>

\* switch_displaying_term(k): curr_term_id = k (the vidmap page is not
\* remapped); a terminal never started gets frame k+2 and runs.
SwitchDisplay(k) ==
  /\ curr_term_id' = k
  /\ IF k \in started
       THEN UNCHANGED << page_directory, exec_term_id, started >>
       ELSE /\ started' = started \cup {k}
            /\ exec_term_id' = k
            /\ page_directory' = CreateUser4mbPage(page_directory, k + 2, 32)
  /\ UNCHANGED << page_table_0, vid_page_table_0 >>

Next ==
  \/ \E p \in Pids : MapUserWindow(p)
  \/ PitTick \/ Vidmap
  \/ \E k \in Terms : SwitchDisplay(k)

Spec == Init /\ [][Next]_vars

-----------------------------------------------------------------------------
(* The MMU's two-level walk under CR4.PSE (setup_control_registers): a     *)
(* 4 MiB entry maps the page directly, a 4 KiB entry names a page table.   *)
(* A user store needs the user and rw bits at both levels.                  *)

Tables == (PT0_FRAME :> page_table_0) @@ (VPT_FRAME :> vid_page_table_0)

PDE(va) == page_directory[va \div FourMB]
PTE(va) == Tables[PDE(va).addr][(va \div 4096) % 1024]

Mapped(va) ==
  /\ va \div FourMB \in DOMAIN page_directory
  /\ PDE(va).present = 1
  /\ PDE(va).size = 0 =>
       /\ PDE(va).addr \in DOMAIN Tables
       /\ (va \div 4096) % 1024 \in DOMAIN Tables[PDE(va).addr]
       /\ PTE(va).present = 1

UserWritable(va) ==
  /\ Mapped(va)
  /\ PDE(va).privilege_level = 1 /\ PDE(va).rw = 1
  /\ PDE(va).size = 0 => PTE(va).privilege_level = 1 /\ PTE(va).rw = 1

PhysAddr(va) ==
  IF PDE(va).size = 1 THEN PDE(va).addr * 4096 + (va % FourMB)
                      ELSE PTE(va).addr * 4096 + (va % 4096)

\* The address vidmap returns (31 << 22) and the byte offsets of the page
\* that tell the text cells (0 .. 3999) from what follows them.
VidmapAddr == VID_MAP_VIRTUAL_INDEX * FourMB
Probes == {0, VID_SIZE - 1, VID_SIZE, VID_SIZE + 4}

\* The bytes a user store through the vidmap page may reach while
\* terminal e executes: the VGA page if e is displayed, else the 4000
\* text bytes of e's own mirror.
OwnScreen(e) ==
  IF e = curr_term_id THEN VIDEO .. VIDEO + 4095
                      ELSE VidSave(e) .. VidSave(e) + VID_SIZE - 1

\* Spec invariant 2 and the mirror layout: the vidmap page of the
\* executing task shows its own terminal's screen, the VGA page when that
\* terminal is displayed and its 4000-byte mirror otherwise.  It can go
\* wrong three ways in the code: switch_displaying_term changes
\* curr_term_id without remap_vid; vidmap points the page at VGA whichever
\* terminal calls it; and remap_vid maps the whole 4 KiB page of
\* vid_save, whose bytes 4000 and 4004 are enters_save and
\* buff_index_save, which switch_displaying_term loads into num_enters and
\* buff_index.
VidmapShowsOwnScreen ==
  \A off \in Probes :
    UserWritable(VidmapAddr + off) =>
      PhysAddr(VidmapAddr + off) \in OwnScreen(exec_term_id)

====
