# TLA+ models of the student-distrib kernel

These modules model the kernel in `src/student-distrib`: a single-CPU x86
kernel with three terminals, a round-robin scheduler driven by the PIT, and a
tree of processes per terminal. This file covers what is modelled, how it maps
to the code, what each TLC run checks and what it found.

## The system

| Part | Source | State | Operations |
|---|---|---|---|
| Process control | `syscall.c` (`execute`, `halt`, `boot`, `get_current_executing_pcb`) | `processes[]`, PCBs at fixed addresses with `parent_pcb`/`child_pcb`, fd table, args, saved frames | execute, halt, boot |
| Scheduler | `scheduler.c` (`pit_handler`), `terminal.c` (`next_executing_term`) | `exec_term_id`, saved `return_ebp/esp` | PIT tick |
| VM manager | `paging.c`, `paging.h` | `page_directory`, `page_table_0`, `vid_page_table_0`, `tss.esp0` | `init_paging`, `create_user_4mb_page`, `create_vid_4kb_page`, `remap_vid`, `reload_cr3` |
| Terminals | `terminal.c` | `curr_term_id`, `terms[t]` mirrors, saved cursor, line buffer, `enters_save` | `switch_displaying_term`, `terminal_read`, `terminal_write` |
| Keyboard | `keyboard.c` | `key_buff`, `buff_index`, `num_enters`, modifier flags | `keyboard_handler`, `set_buffer`, `shift_buffer` |
| RTC | `rtc.c`, `rtc.h` | `flags[t]`, the rate in status register A | `init_rtc`, `set_frequency`, `rtc_handler`, `rtc_open`, `rtc_read`, `rtc_write`, `rtc_close` |
| FD layer | `syscall.c` (`open`, `close`, `read`, `write`, `getargs`) | `fd_array[8]` per PCB | open, close, read, write |
| ROFS | `fs.c` | boot block, inodes, data blocks (read-only) | `read_dentry_by_name/index`, `read_data`, `dir_read` |
| IDT, PIC | `idt.c`, `i8259.c`, `interrupt_wrapper.h` | gate descriptors, master/slave IRQ masks, the PIC's request and in-service registers, IF | `enable_irq`, `send_eoi`, interrupt entry and `iret`, exception stubs that call `halt(255)` |

**How the parts interact.** There is one CPU. All concurrency comes from
interrupts: the PIT tick (which switches terminals), the keyboard IRQ (ENTER
completes a line; ALT+Fn switches the displayed terminal and may start that
terminal's boot shell), and the RTC IRQ (which sets every terminal's flag).

`init_idt` installs every vector, including the system-call vector 0x80, as an
interrupt gate, so IF is clear on entry. After that, only the handlers' own
`cli`/`sti` change it. `terminal_read` busy-waits with `sti`/`cli` around each
test. `rtc_read` busy-waits without touching IF.

`syscall_wrapper`, the assembly entry for system calls, is not in the
repository. So whether system calls run with IF set is unknown. The models
take it as the constant `SyscallIF` and check both values.

**Hard behaviours.** These are the interrupts that land inside a system call:
- between the PID test and set in `execute`;
- between mapping the new frame and loading the program;
- during a busy wait.

Others:
- A display switch changes which terminal is shown, but the background task's
  vidmap page is not remapped until the next tick.
- `halt` of a boot shell relaunches it instead of returning.
- The line buffer is shared between the keyboard IRQ and `terminal_read`.

## Modules

* **`KernelSched`**: the control state. It holds `processes`,
  `parent_pcb`/`child_pcb` (PIDs or `NULL`), `exec_term_id`, `curr_term_id`,
  the per-terminal ready-line count `num_enters`, the RTC `flags`, and two
  per-terminal variables:
  - `pc[t]` says where terminal `t`'s leaf task is:
    - in user mode;
    - waiting in `terminal_read` or `rtc_read`;
    - at one of three points in `execute` where an enabled interrupt could
      preempt it.
  - `new_pid[t]` is the PID that execute has found.

  Actions: `ExecuteFind` (the PID test), `ExecuteClaim` (the set),
  `ExecuteLoad`, `ExecuteSwitch` (link the PCB, iret), `Halt`, `Exception`
  (a CPU exception in user mode: the stubs call `halt(255)`), `TerminalRead`
  and `TerminalReadDone`, `RtcRead` and `RtcReadDone`, `PitTick`, `KeyEnter`,
  `SwitchDisplay(k)`, `RtcTick`.

  An interrupt action is enabled iff `IntrEnabled`, which holds in any of
  these cases:
  - the task is in user mode;
  - the task is in `terminal_read`'s loop;
  - `SyscallIF` is set, and the task is in `execute` before its `cli` or in
    `rtc_read`.

  `Leaf(t)` and `Chain(t)` are the walk of `get_current_executing_pcb`.
* **`Kernel`**: extends `KernelSched` with the paging state these handlers
  write and no guard reads:
  - `user_page`: the PID whose frame `page_directory[32]` maps;
  - `esp0`: the PID whose kernel stack `tss.esp0` names;
  - `own_image[f]`: whether frame `f` still holds PID `f`'s program;
  - `vid_page`/`vid_present`: the vidmap page, abstracted to "VGA" or a
    terminal. Its property is checked on the concrete page tables of
    `Paging` (run `vidmap_screen`).

  Each action `XVM` is the `KernelSched` action `X` conjoined with its
  paging writes, so the whole handler is one step. Because no guard reads
  the paging state, the behaviours of `Kernel` project onto those of
  `KernelSched`. Liveness and the PID race are therefore checked on the
  smaller module.
* **`LineDiscipline`** models the line buffer of the displayed terminal:
  `key_buff` (`BUFF_SIZE` bytes, model values for printable keys, `NL` and
  `NUL`), `buff_index` (an integer the code lets go negative) and
  `num_enters`. Its actions are:
  - `KeyChar(c)`: `set_buffer`, with the store guarded by `index < BUFF_SIZE-1`;
  - `KeyEnter`: ENTER;
  - `KeyBackspace`;
  - `TerminalRead(m)`: the scan of `terminal_read`, then `shift_buffer`.

  `ShiftKeepsRest` says a read leaves, in order, the bytes behind the
  ones it removes (spec 4.D, a FIFO). It does not say how many bytes a read
  removes, so the short-read behaviour below does not break it.

  `Shifted` is the `memcpy` the code really does: it copies from
  `buf[index+2]`, and its last source byte `buf[BUFF_SIZE]` lies past the
  array and is a nondeterministic byte. `oob` records any access outside
  `key_buff`. The model stops there, because what follows is undefined.
  One terminal is enough: `switch_displaying_term` saves and restores the
  three variables whole, and a read runs with IF clear once its wait loop
  exits.
* **`FileDescriptors`** models the fd tables of the PCBs on one terminal's
  chain (depth 1 is the boot shell) and the read-only file system.
  - `Open`, `Close`, `FileRead` and `DirRead` act on the leaf, as
    `get_current_executing_pcb` does.
  - `Execute` and `Halt` are the fd parts of those calls.
  - `ReadDentryByName` fails for the empty name before its scan. An
    unused dentry's name is empty, so without that test `open("")` would
    open one; `Names` includes the empty name. It is otherwise the first
    match over the whole table. `ReadDentryByIndex` fails past the table.
  - `DirRead` is `dir_read`'s loop over `ReadDentryByIndex`: it steps past
    each dentry until a used one, appends that name to `got`, and leaves
    `file_position` past it, or at the end of the table.
  - `read_data` is a pure operator: `ReadDataOk` holds its checks and
    `ReadLoop` (RECURSIVE) its block-walking copy. It is checked against
    `FileBytes`, the file as the spec describes it.
  - The image's single regular file (its length and `data_index[]`) is chosen
    at boot from `Images`.
  - `got` (the bytes or names read through each fd) and `opened` (the fds the running
    program opened) are history variables for the properties.
* **`I8259`** models the two 8259 PICs and the CPU's IF under the three
  interrupt sources.
  - State: the master and slave masks (bytes, as `i8259.c` writes them),
    the request register `irr`, the in-service sets `isr_m`/`isr_s`, IF,
    and `frames`, the stack of interrupt handlers in progress (line and
    where in the handler it is).
  - `EnableIrq` and `SendEoi` are `enable_irq` and `send_eoi` on the
    masks and in-service sets. `SendEoi` of a slave line ends it on the
    slave and ends IR2 on the master.
  - `Interrupt(n)` is the PIC presenting its highest-priority unmasked,
    unserved request and the CPU taking it through an interrupt gate
    (IF cleared, frame pushed).
  - The handlers are split where the code changes IF or the PIC:
    - `PitHandler` is `pit_handler`, whose EOI comes first.
    - `RtcHandler` is `rtc_handler` from `cli` to `sti`, which reads
      register C and sends the EOI.
    - `KeyboardEntry` reads port 0x60.
    - `KeyboardPlain` / `KeyboardEoi` end an ordinary key.
    - `KeyboardSwitch(k)` is the `sti` inside `set_buffer` after
      `switch_displaying_term`'s own EOI.
    - `KeyboardNewShell(k)` irets into a boot shell and abandons the
      handler.
  - `InitPit`, `InitKeyboard`, `InitRtc` are the init routines, in any
    order, because `kernel.c` is not in the repository.
  - `TaskCli` / `TaskSti` are `terminal_read`'s wait loop.
  - `i8259.h` is missing too. `EOI` is taken as 0x60, a specific EOI, and
    `AutoEOI` is a constant (FALSE in the run).
* **`Paging`** models `page_directory`, `page_table_0` and
  `vid_page_table_0` entry by entry.
  - An entry is the record of the `pde_t`/`pte_t` bits the code sets.
    Only the indices the code writes are in the domains: directory 0, 1,
    31, 32; `page_table_0[0xB8]`; `vid_page_table_0[0]`.
  - The builders are operators: `InitPD`/`InitPT0` (`init_paging`),
    `CreateUser4mbPage` with its index check, and `RemapVid`.
  - The actions are the call sequences of the callers: boot (`Init`),
    `MapUserWindow` (execute/halt), `PitTick` (`next_executing_term`,
    user window, `remap_vid`), `Vidmap`, and `SwitchDisplay`.
    `reload_cr3` follows each of them, so the TLB is left out.
  - `PDE`, `PTE`, `Mapped`, `UserWritable` and `PhysAddr` are the MMU's
    walk with 4 MiB pages enabled: they say which physical byte a user
    store to a virtual address reaches.
  - `VidSave(t)` is the physical address of `terms[t].vid_save`, from the
    layout of `term_t`. `vid_save` is 4096-aligned at offset 4096, and
    `enters_save` and `buff_index_save` follow it at offsets 8096 and
    8100.
* **`KernelRtc`** composes `KernelSched` with the RTC's rate, the low four
  bits of status register A (0 turns the periodic interrupt off).
  - `SetFrequency` is `set_frequency` as the set of rates it can leave:
    - the old rate for `freq_1`..`freq_5`, which return early;
    - the table's rate for `freq_6`..`freq_15`;
    - any nibble 0..15 for every other value. The if-chain has no final
      `else`, so the local `rate` is uninitialised when line 81 masks it.
      The model takes each outcome the build can produce.
  - `Init` is `init_rtc`, which writes rate 0 and then `set_frequency(2)`.
  - `RtcWrite` is `rtc_write` of a frequency from the constant
    `Frequencies`. `RtcOpen` is `rtc_open` or `rtc_close`.
  - `RtcFire` is `KernelSched`'s RTC interrupt, taken only while the rate
    is not 0.
  - Every other step is `SchedOtherStep`, with the rate unchanged.
* **`MCKernelSched`, `MCKernel`, `MCKernelRtc`, `MCLineDiscipline`, `MCFileDescriptors`, `MCI8259`, `MCPaging`**:
  the bounds, as definitions. A terminal is a number (`0 .. NUM_TERMINALS-1`,
  as in the code), so no symmetry is used: terminal 0 is special, because it
  is the only one live at boot.

Saved `ebp`/`esp` frames are abstracted into `pc`. Screen output and mirror
copies, modifier keys and argument strings are not modelled (see the end of
this file).

## Runs

| Run | Config | Expect | What it shows |
|---|---|---|---|
| `pic_live` | `MCI8259.cfg` | pass | 3 terminals, all three sources, boot in any order: 532 states. <ul><li>`InServiceOwned`: every in-service level on either PIC belongs to a handler that has not yet sent its EOI. So no level is left in service after its handler is gone, including when ALT+Fn irets into a new shell from the keyboard handler, or when `pit_handler` leaves through another terminal's stack. It does not catch an early or extra EOI: that ends a level with its handler still on the stack.</li><li>`RequestsServed`: every raised request is eventually taken.</li><li>`RtcKeepsTicking`: the RTC handler runs infinitely often.</li></ul> |
| `kernel_safety` | `MCKernel.cfg` | pass | With IF clear in system calls, these all hold. 2 terminals, 3 dynamic PIDs: 646k states. <ul><li>`TreeWellFormed`: the child chain from each live boot PCB reaches only live PCBs; every other live PCB is linked both ways below a live terminal.</li><li>`UniqueTaskPids`: chains and in-flight claims are disjoint.</li><li>`UserWindowIsLeaf`: in user mode or a wait, the user window and `tss.esp0` belong to the executing terminal's leaf.</li></ul> |
| `sched_live` | `MCKernelRtc_live.cfg` | pass | With IF set in system calls, and user programs writing frequencies from the table (1024, and 32768, which `set_frequency` ignores) and opening and closing the RTC: every started terminal is scheduled infinitely often, and every `rtc_read` returns. 2 terminals, 1 dynamic PID, 77k states. |
| `rtc_rate_ub` | `MCKernelRtc_rate_ub.cfg` | violation | `RtcReadReturns` fails after `rtc_write(3)` and `rtc_read`. 3 is not in the table, so `set_frequency` writes its uninitialised `rate`. With a low nibble of 0 the RTC stops, and this and every later `rtc_read`, on any terminal, spins forever. `rtc_write` has returned success. |
| `rtc_hang` | `MCKernelSched_rtc_hang.cfg` | violation | With IF clear, the first `rtc_read` before an RTC tick spins forever. |
| `pid_race` | `MCKernelSched_pid_race.cfg` | violation | With IF set, a PIT tick between `processes[i]` test and set lets two terminals claim one PID. |
| `vidmap_screen` | `MCPaging_vidmap_screen.cfg` | violation | `VidmapShowsOwnScreen` says the vidmap page of the executing task shows its own terminal's screen: the VGA page when that terminal is displayed, its mirror's 4000 text bytes otherwise (spec invariant 2). TLC fails it in four states: `vidmap`, ALT+F2 (which starts terminal 1), then a PIT tick back to terminal 0. `remap_vid` now maps the 4 KiB page of `terms[0].vid_save`, so user stores at offsets 4000 and 4004 reach `enters_save` and `buff_index_save`. `switch_displaying_term` loads these into `num_enters` and `buff_index`, and the keyboard handler then writes `key_buff[buff_index]` wherever user mode chose. Restricted to the text bytes (offsets 0 and 3999), the property still fails after `vidmap`, ALT+F2, ALT+F1: `switch_displaying_term` does not call `remap_vid`, so the background terminal 1 keeps writing to VGA. |
| `ld_safety` | `MCLineDiscipline.cfg` | pass | `TypeOK` over every sequence of printable keys, ENTER, BACKSPACE and reads of 1 and of `BUFF_SIZE` bytes: `buff_index`, `num_enters` and `key_buff` stay in range. 1887 states. This run exists to exercise every action of `LineDiscipline`; the line-buffer questions are asked by the two violation runs. |
| `ld_lost_byte` | `MCLineDiscipline_lost_byte.cfg` | violation | `ShiftKeepsRest` fails after `a`, `a`, ENTER, `read(1)`. The scan stops at `i = 1` and the read removes `key_buff[0..1]`. `shift_buffer` then copies from `buf[index+2] = buf[3]` (a NUL) instead of `buf[2]`, so the newline behind the removed bytes is lost. ENTER, `a`, read loses the `a` the same way. |
| `ld_oob` | `MCLineDiscipline_oob.cfg` | violation | `KeyBuffInBounds` fails after ENTER, BACKSPACE, `read(fd, buf, BUFF_SIZE)`. The backspace erases the newline but `num_enters` still counts it, so the read scans to `key_buff[BUFF_SIZE]`, clears past it, and leaves `buff_index` negative. |
| `fd_safety` | `MCFileDescriptors.cfg` | pass | On images whose `data_index[]` entries all name blocks (as in the stock image), these hold. 35k states. <ul><li>`ReadDataMatchesFile`: `read_data` returns exactly the bytes asked for, across block boundaries (spec property 4).</li><li>`FileReadsInOrder`: successive `read`s of an open file return its bytes in order, and `file_position` stays within the file.</li><li>`DirReadsInOrder`: successive `read`s of an open directory return each used dentry's name once, in table order, and none after the end (spec 4.B).</li></ul> |
| `fd_leak` | `MCFileDescriptors_fd_leak.cfg` | violation | Spec 4.F: `halt` of a boot shell relaunches it before its fd loop, so the new shell inherits every open file. |

Taken together, `rtc_hang`, `pid_race` and the load race below show that no value of the
unknown IF setting is correct:
- With IF clear, `rtc_read` hangs the machine.
- With IF set, `execute` has two races the spec rules out ("the page
  directory is only written with interrupts disabled"; `processes[]` is
  "protected by disabling interrupts").

Each property of a passing run has a mutant in `PROJECT.json`: a plausible
bug in the mapped code that TLC must catch. The mutants are:
- `halt` not clearing the child link;
- a PID found but not marked;
- an off-by-one stack for a relaunched shell;
- a stale leaf in `pit_handler`;
- round robin wrapping one terminal early;
- `set_frequency` without its early return for `freq_1`..`freq_5`;
- ENTER's bound test written `<=`;
- `open`'s slot scan running one slot too far;
- `read_data` starting in the first block whatever the offset;
- `file_read` not clipping `nbytes` to the rest of the file;
- `dir_read` not stepping past the entry it found;
- the new-shell path of `switch_displaying_term` without its EOI;
- `send_eoi` of a slave line without the EOI for IR2 on the master;
- `rtc_handler` not reading register C.

## Bounds

- **Terminals and PIDs.** `kernel_safety` uses two terminals and three
  dynamic PIDs. That allows a chain three deep below a shell and two
  terminals competing for PIDs. Three terminals with two dynamic PIDs take
  4 min for the same properties; that bound is used by `rtc_hang`.
- **`MaxEnters`.** It is 1. Only whether a line is ready matters to the
  scheduler model.
- **Preemptible runs.** The `SyscallIF = TRUE` runs multiply the interleavings.
  They use two terminals and one dynamic PID, which still covers both races:
  two terminals compete for the one PID, and a single terminal runs execute
  below its shell.
- **RTC frequencies.** `sched_live` writes 1024 (a table rate) and 32768
  (an early return). `rtc_rate_ub` writes 3, which stands for every value
  outside the table: they all take the same path.
- **Liveness run.** With three PIDs it finishes in about 75 s. With four it
  does not finish in 5 min.
- **Line buffer.** `BUFF_SIZE` is 4. That is enough for a full buffer, for
  the reserved last byte, for a short read that leaves bytes behind, for two lines (`MaxEnters = 2`), and for reads of
  1 byte and of a whole buffer. Every bug found needs at most 4 keys.
- **File system.** Blocks are 2 bytes, with 2 data blocks and files of up
  to 4 bytes over `data_index[0..2]`. This covers reads that start in the
  second block, cross a boundary, or reach the end, and file lengths that
  are whole numbers of blocks, including 0.
  - 3 fd slots (one for programs) cover the full table.
  - A boot shell with one child covers both halt paths.
  - With 4 slots the state space passes 5M states.

- **PICs.** All three sources and three terminals (so that ALT+F2 and
  ALT+F3 start new shells). Each device has at most one request pending
  and one handler in progress, as on the hardware, so frames nest at most
  three deep with no further bound.
- **Paging.** The kernel's own sizes: 3 terminals, 7 PIDs, and `terms[]`
  and the page tables at 4 KiB-aligned addresses (`MCPaging`). The
  exposure shows at the byte offsets `Probes` (0, 3999, 4000, 4004) of the
  vidmap page. These are the first and last text cells, `enters_save` and
  `buff_index_save`.

## Fairness

`I8259` (run `pic_live`):
- **Weak fairness on `PitFire` and `RtcFire`.** The devices run on their
  own clocks. A device raises its line again only once its previous
  handler has ended (`Idle`).
- **Strong fairness on `Interrupt(n)`, on each handler step and on each
  line's `iret`.** A step that is enabled again and again is taken: the
  CPU executes the handler whenever it is not preempted by a
  higher-priority one.
- **Strong fairness on boot and `TaskSti`.** Task code runs whenever no
  handler does.
- **`SlowDevices`.** Infinitely often no handler runs, IF is set, and no
  PIT or keyboard request is pending. The PIT (100 Hz) and a human typist
  leave the CPU idle most of the time. Without this assumption, the model
  lets IRQ0 and IRQ1 re-fire back to back forever and starve IRQ8, which
  no real timing allows.

`KernelRtc` (run `sched_live`), the fairness of `KernelSched` with the RTC
interrupt guarded by the rate:

- **`SF` on `PitTick` and `RtcFire`.** `RtcFire` is enabled only while
  the rate is not 0; the RTC raises no interrupt otherwise. The PIT fires at 100 Hz and the RTC
  periodically. An IRQ raised while IF is clear stays pending in the PIC and
  is taken as soon as IF is set, so an interrupt enabled infinitely often is
  eventually taken.
- **`SF` on each terminal's `SchedKernelStep`.** Kernel code of the scheduled
  task continues whenever the CPU runs it.
- **No fairness for user actions and keys.** A user program may loop forever
  in user mode, and nobody has to type.

## Other observations

- `terminal_read` does not copy the `'\n'` into the user buffer. Spec
  property 5 says the read returns `min(N+1, m)` bytes ending in `'\n'`,
  for a newline at index N. The
  bytes handed back are not part of the model's state, so this is noted but
  not checked.
- The scan of a read of m bytes stops at `i = min(N, m)` and `shift_buffer`
  removes `i + 1` bytes, so `min(N, m) + 1` bytes go and `min(N, m)` are
  returned. A read shorter than its line (m < N) drops `key_buff[m]`
  unreturned and decrements `num_enters` although the `'\n'` stays in the
  buffer. That line is then never counted, and a later read blocks although
  a complete line is there. TLC shows it with `a`, `a`, ENTER, `read(1)`
  against the invariant `num_enters >= lines buffered`. The spec does not speak to the count, so no run is spent on it.
- `dir_read` called again at the end of the dentry table copies nothing
  (`DirReadsInOrder` checks this), but it returns `strlen` of an
  uninitialised local dentry, where spec 4.B says 0. Return values are not
  part of the model (hazard in `PROJECT.json`).
- `keyboard.h` defines `ALT_R` as `0xE0`. That is the prefix byte of every
  extended scancode, not right ALT's code. An arrow key, keypad ENTER or
  right CTRL therefore sets `alt_flag`, which stays set until an ALT
  release. A later F1..F3 then switches terminals without ALT held; spec
  4.D says only "ALT+F{1,2,3}" does. The scancode stream and modifier flags
  are not modelled, and no run is free for the violation (hazard in
  `PROJECT.json`).
- CTRL+L in `set_buffer` calls `clear()` and returns. Spec 4.D says it
  clears the screen "and line buffer", but `key_buff`, `buff_index` and
  `num_enters` are left as they were. This is one step of one handler, so
  a test reaches it directly.
- `getargs` (syscall.c:497-518) accepts `nbytes == strlen(args)`, copies
  `nbytes` bytes, and then writes the NUL terminator to `buf[nbytes]`, one
  byte past the buffer. It also checks only that `buf` starts in the user
  window, never that `buf + nbytes` ends there. Spec row 7 says it "fails
  if the string ... does not fit" and that `buf` "must lie fully within the
  user window". This happens in one sequential call, and argument strings
  are not part of the model.

## Findings kept out of the runs

The run count is capped at twelve. Two violations found while modelling are
documented here rather than kept as runs.
- **Load race in `execute`.** With IF set, a PIT tick between
  `create_user_4mb_page` and `read_data` in `execute` remaps the window to
  the parent (`syscall.c:234`). The load then overwrites the parent's
  program, and one terminal suffices. `Kernel`'s invariant `ImageIntegrity` (in no run) catches it when
  `MCKernel.cfg` sets `SyscallIF` to TRUE; with IF clear `execute` is one
  step and it holds trivially, so `kernel_safety` does not check it. Its cause, a system call
  running with IF set, is the one `pid_race` shows.
- **Block check one past the file (`fs.c:100`).** On an image the spec
  allows (unused `data_index` entries arbitrary), `read_data` checks
  `data_index[length/BLOCK]`. That entry is one past the file when the
  length is a whole number of blocks. Every read of such a file then
  fails, and `file_read` adds the -1 to `file_position`. `FileReadsInOrder`
  catches it when `Images` admits such an image; the `fd_safety` run uses
  the stock image's well-formed entries.

## Not modelled, and what is left

- The argument string of `execute`/`halt`/`getargs`, and return values of
  system calls generally. `execute` returning 0 when no PID is free is the
  spec's documented value. Its hazard, the full table, is covered by
  `UniqueTaskPids`.
- The modifier flags and the scancode stream. A key is abstracted to the
  byte it stores, and ALT+Fn to a switch input. This leaves the `0xE0`
  prefix finding and CTRL+L (see Other observations) unchecked.
- The saved `ebp`/`esp` frames. They are abstracted into `pc`, so the stale
  frame left when ALT+Fn starts a boot shell from the keyboard IRQ is not
  checked.
- Port I/O other than the PIC, the keyboard data port and the RTC rate
  bits of register A (`KernelRtc`). The PIT's divisor is written once at
  init.
- Screen output, including `terminal_write`, `putc` and the mirror copies.
- The RTC's divider bits and NMI masking in register A and B: `init_rtc`
  writes them once, and nothing reads them.
- The self-tests.

A natural next step is to compose `LineDiscipline` with `KernelSched`, with
one buffer per terminal saved and restored by `switch_displaying_term`.
`terminal_read`'s wait could then read the buffer instead of `num_enters`
alone.
