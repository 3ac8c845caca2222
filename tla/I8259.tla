------------------------------- MODULE I8259 -------------------------------
(***************************************************************************)
(* The master and slave 8259 PICs as i8259.c programs them, and the steps  *)
(* of the three interrupt handlers that touch the PICs or EFLAGS.IF:       *)
(* acknowledge (IDT entry), send_eoi, cli/sti and iret.  The handlers'     *)
(* other effects (the context switch, the line buffer, the rtc flags) are  *)
(* modelled in KernelSched and LineDiscipline.                             *)
(*                                                                         *)
(* One kernel stack is kept: frames holds the handler activations, the     *)
(* innermost last.  pit_handler's stack switch is taken as a return: every *)
(* frame it leaves behind on another stack is past its own send_eoi, since *)
(* IF is clear in every handler until after it.                            *)
(*                                                                         *)
(* i8259.h is not in the repository.  EOI is taken as the OCW2 specific    *)
(* EOI command 0x60 (send_eoi ORs the level into its low bits); AutoEOI    *)
(* is bit 1 of ICW4, which i8259_init's comments call "auto EOI".          *)
(***************************************************************************)
EXTENDS Naturals, Sequences, FiniteSets, FiniteSetsExt, Bitwise

CONSTANTS
  NUM_TERMINALS,   \* terminal.h: 3
  AutoEOI          \* TRUE: the PICs clear in-service bits on acknowledge

ASSUME NUM_TERMINALS \in 1 .. 3
ASSUME AutoEOI \in BOOLEAN

Terms == 0 .. NUM_TERMINALS - 1

PIT_IRQ      == 0
KEYBOARD_IRQ == 1
SLAVE_IRQ    == 2     \* the slave's INT output on master input IR2
RTC_IRQ      == 8
Lines        == {PIT_IRQ, KEYBOARD_IRQ, RTC_IRQ}
EOI          == 96    \* 0x60
Devices      == {"pit", "keyboard", "rtc"}

VARIABLES
  master_mask,   \* i8259.c master_mask, the master's IMR
  slave_mask,    \* i8259.c slave_mask, the slave's IMR
  irr,           \* IRQ numbers latched by the PICs, not yet acknowledged
  isr_m,         \* levels 0..7 in service on the master
  isr_s,         \* levels 0..7 in service on the slave
  if_flag,       \* EFLAGS.IF
  frames,        \* handler activations [irq, pc] on the kernel stack
  kbd_full,      \* the keyboard controller holds a scancode port 0x60 has not given
  rtc_c,         \* RTC register C holds an interrupt flag not yet read
  inited,        \* device init routines that have run
  shells         \* terminals whose boot shell is started (processes[t])

vars == << master_mask, slave_mask, irr, isr_m, isr_s, if_flag, frames,
           kbd_full, rtc_c, inited, shells >>
picVars == << master_mask, slave_mask, irr, isr_m, isr_s >>

-----------------------------------------------------------------------------
\* Bit b of an 8-bit register.
Bit(r, b) == (r \div 2^b) % 2

\* The low byte of ~x, all that survives the store into a uint8_t.
Complement8(x) == 255 - (x % 256)

\* enable_irq(irq_num): clear the line's bit in the master's or, for
\* 8..15, the slave's mask (the outb to the data port is the assignment).
EnableIrq(irq_num) ==
  IF irq_num <= 7
    THEN /\ master_mask' = master_mask & Complement8(2^irq_num)
         /\ UNCHANGED slave_mask
    ELSE IF irq_num <= 15
    THEN /\ slave_mask' = slave_mask & Complement8(2^(irq_num - 8))
         /\ UNCHANGED master_mask
    ELSE UNCHANGED << master_mask, slave_mask >>

\* A specific EOI clears the in-service bit of the level in its low bits.
Eoi(isr, ocw2) == isr \ {ocw2 % 8}

\* Mutation of SendEoi: a slave IRQ is acknowledged on the slave only.
SendEoiNoCascade(irq_num) ==
  IF irq_num >= 8 /\ irq_num <= 15
    THEN /\ isr_s' = Eoi(isr_s, EOI | (irq_num - 8))
         /\ UNCHANGED isr_m
    ELSE /\ isr_m' = Eoi(isr_m, EOI | irq_num)
         /\ UNCHANGED isr_s

\* send_eoi(irq_num): a slave IRQ needs an EOI on the slave and one for
\* the cascade input IR2 on the master.
SendEoi(irq_num) ==
  IF irq_num >= 8 /\ irq_num <= 15
    THEN /\ isr_s' = Eoi(isr_s, EOI | (irq_num - 8))
         /\ isr_m' = Eoi(isr_m, EOI | 2)
    ELSE /\ isr_m' = Eoi(isr_m, EOI | irq_num)
         /\ UNCHANGED isr_s

-----------------------------------------------------------------------------
(* The 8259 in fully nested mode: a PIC presents its highest-priority      *)
(* (lowest-numbered) unmasked request, and only if it outranks every level *)
(* it has in service.  The slave's request is the master's IR2.            *)

Outranks(level, isr) == \A s \in isr : level < s

SlaveRequests ==
  { n \in irr : n >= 8 /\ Bit(slave_mask, n - 8) = 0 /\ Outranks(n - 8, isr_s) }

MasterRequests ==
  { n \in irr : n <= 7 /\ Bit(master_mask, n) = 0 }
  \cup (IF SlaveRequests # {} /\ Bit(master_mask, SLAVE_IRQ) = 0
          THEN {SLAVE_IRQ} ELSE {})

\* The IRQ the CPU gets when it acknowledges, as a set of at most one.
Presented ==
  IF MasterRequests = {} THEN {}
  ELSE LET l == Min(MasterRequests) IN
       IF ~Outranks(l, isr_m) THEN {}
       ELSE IF l = SLAVE_IRQ THEN {Min(SlaveRequests)} ELSE {l}

MasterLevel(n) == IF n >= 8 THEN SLAVE_IRQ ELSE n

\* A device fires again only once its previous interrupt's handler has
\* ended: the PIT (100 Hz), the RTC and a typist are far slower than a
\* handler.
Idle(n) == \A i \in 1 .. Len(frames) : frames[i].irq # n

Top == frames[Len(frames)]

\* The top frame moves to pc p.
SetTop(p) == frames' = [frames EXCEPT ![Len(frames)].pc = p]

-----------------------------------------------------------------------------
\* After i8259_init (lines 28-46): every line masked but the cascade IR2,
\* interrupts off as the boot loader leaves them, no device set up.
Init ==
  /\ master_mask = 255 & Complement8(2^SLAVE_IRQ)
  /\ slave_mask  = 255
  /\ irr = {} /\ isr_m = {} /\ isr_s = {}
  /\ if_flag = FALSE
  /\ frames = << >>
  /\ kbd_full = FALSE /\ rtc_c = FALSE
  /\ inited = {}
  /\ shells = {0}

\* Boot code (kernel.c, not in the repository, fixes the order).
BootStep(d) == frames = << >> /\ d \notin inited /\ inited' = inited \cup {d}

\* init_pit: cli; program channel 0; enable_irq(0); sti.
InitPit ==
  /\ BootStep("pit")
  /\ EnableIrq(PIT_IRQ)
  /\ if_flag' = TRUE
  /\ UNCHANGED << irr, isr_m, isr_s, frames, kbd_full, rtc_c, shells >>

\* init_keyboard: enable_irq(1), IF left as it is.
InitKeyboard ==
  /\ BootStep("keyboard")
  /\ EnableIrq(KEYBOARD_IRQ)
  /\ UNCHANGED << if_flag, irr, isr_m, isr_s, frames, kbd_full, rtc_c, shells >>

\* init_rtc: cli; periodic interrupt on in register B; enable_irq(8); sti.
InitRtc ==
  /\ BootStep("rtc")
  /\ EnableIrq(RTC_IRQ)
  /\ if_flag' = TRUE
  /\ UNCHANGED << irr, isr_m, isr_s, frames, kbd_full, rtc_c, shells >>

-----------------------------------------------------------------------------
(* Devices raising their IRQ line; the PIC latches the edge in irr.        *)

PitFire ==
  /\ PIT_IRQ \notin irr /\ Idle(PIT_IRQ)
  /\ irr' = irr \cup {PIT_IRQ}
  /\ UNCHANGED << master_mask, slave_mask, isr_m, isr_s, if_flag, frames,
                  kbd_full, rtc_c, inited, shells >>

KeyPress ==
  /\ ~kbd_full /\ Idle(KEYBOARD_IRQ)
  /\ kbd_full' = TRUE
  /\ irr' = irr \cup {KEYBOARD_IRQ}
  /\ UNCHANGED << master_mask, slave_mask, isr_m, isr_s, if_flag, frames,
                  rtc_c, inited, shells >>

\* The RTC interrupts again only once register C has been read.
RtcFire ==
  /\ "rtc" \in inited /\ ~rtc_c /\ Idle(RTC_IRQ)
  /\ rtc_c' = TRUE
  /\ irr' = irr \cup {RTC_IRQ}
  /\ UNCHANGED << master_mask, slave_mask, isr_m, isr_s, if_flag, frames,
                  kbd_full, inited, shells >>

-----------------------------------------------------------------------------
(* The CPU takes the presented IRQ through its IDT interrupt gate: IF is   *)
(* cleared, the handler's frame is pushed, the PIC moves the request from  *)
(* irr to in service (on both PICs for a slave IRQ) unless in AutoEOI.     *)
Interrupt(n) ==
  /\ if_flag /\ n \in Presented
  /\ irr' = irr \ {n}
  /\ isr_m' = IF AutoEOI THEN isr_m ELSE isr_m \cup {MasterLevel(n)}
  /\ isr_s' = IF AutoEOI \/ n <= 7 THEN isr_s ELSE isr_s \cup {n - 8}
  /\ if_flag' = FALSE
  /\ frames' = Append(frames, [irq |-> n, pc |-> "entry"])
  /\ UNCHANGED << master_mask, slave_mask, kbd_full, rtc_c, inited, shells >>

\* The wrappers' iret: pop the frame; the interrupted context had IF = 1.
HandlerIret ==
  /\ frames # << >> /\ Top.pc = "iret"
  /\ frames' = SubSeq(frames, 1, Len(frames) - 1)
  /\ if_flag' = TRUE
  /\ UNCHANGED << picVars, kbd_full, rtc_c, inited, shells >>

\* pit_handler: send_eoi(0) first, then the switch to the next terminal's
\* saved stack, which returns through pit_wrapper's iret.  IF stays clear.
PitHandler ==
  /\ frames # << >> /\ Top.irq = PIT_IRQ /\ Top.pc = "entry"
  /\ SendEoi(PIT_IRQ)
  /\ frames' = SubSeq(frames, 1, Len(frames) - 1)
  /\ if_flag' = TRUE
  /\ UNCHANGED << master_mask, slave_mask, irr, kbd_full, rtc_c, inited, shells >>

\* Mutation of RtcHandler: register C is not read.
RtcHandlerNoRegC ==
  /\ frames # << >> /\ Top.irq = RTC_IRQ /\ Top.pc = "entry"
  /\ SendEoi(RTC_IRQ)
  /\ SetTop("iret")
  /\ if_flag' = TRUE
  /\ UNCHANGED << master_mask, slave_mask, irr, kbd_full, rtc_c, inited, shells >>

\* rtc_handler: cli; read register C (the RTC may interrupt again);
\* send_eoi(8); set the flags; sti, with the frame still on the stack.
RtcHandler ==
  /\ frames # << >> /\ Top.irq = RTC_IRQ /\ Top.pc = "entry"
  /\ rtc_c' = FALSE
  /\ SendEoi(RTC_IRQ)
  /\ SetTop("iret")
  /\ if_flag' = TRUE
  /\ UNCHANGED << master_mask, slave_mask, irr, kbd_full, inited, shells >>

KeyboardEntry == frames # << >> /\ Top.irq = KEYBOARD_IRQ /\ Top.pc = "entry"

\* keyboard_handler for any scancode but ALT+F1..F3: inb(0x60) frees the
\* controller, the key is handled with IF clear, send_eoi(1) at line 162,
\* then keyboard_wrapper's iret.
KeyboardPlain ==
  /\ KeyboardEntry
  /\ kbd_full' = FALSE
  /\ SendEoi(KEYBOARD_IRQ)
  /\ frames' = SubSeq(frames, 1, Len(frames) - 1)
  /\ if_flag' = TRUE
  /\ UNCHANGED << master_mask, slave_mask, irr, rtc_c, inited, shells >>

\* ALT+F(k+1) with terminal k's shell running: set_buffer does cli,
\* switch_displaying_term sends send_eoi(1) (terminal.c:59) and returns,
\* and set_buffer's sti enables interrupts inside the handler, before the
\* second send_eoi(1) at keyboard.c:162.
KeyboardSwitch(k) ==
  /\ KeyboardEntry /\ k \in shells
  /\ kbd_full' = FALSE
  /\ SendEoi(KEYBOARD_IRQ)
  /\ SetTop("eoi")
  /\ if_flag' = TRUE
  /\ UNCHANGED << master_mask, slave_mask, irr, rtc_c, inited, shells >>

\* keyboard.c:162 reached after the sti of set_buffer.
KeyboardEoi ==
  /\ frames # << >> /\ Top.irq = KEYBOARD_IRQ /\ Top.pc = "eoi"
  /\ SendEoi(KEYBOARD_IRQ)
  /\ SetTop("iret")
  /\ UNCHANGED << master_mask, slave_mask, irr, if_flag, kbd_full, rtc_c,
                  inited, shells >>

\* Mutation of KeyboardNewShell: no send_eoi before the iret.
KeyboardNewShellNoEoi(k) ==
  /\ KeyboardEntry /\ k \notin shells
  /\ kbd_full' = FALSE
  /\ shells' = shells \cup {k}
  /\ frames' = << >>
  /\ if_flag' = TRUE
  /\ UNCHANGED << picVars, rtc_c, inited >>

\* ALT+F(k+1) with terminal k never started: switch_displaying_term sends
\* send_eoi(1) at line 59, marks the shell live and irets (EFLAGS | 0x200)
\* into it on its own stack.  keyboard_handler never resumes, and nothing
\* left on the old stack is returned to.
KeyboardNewShell(k) ==
  /\ KeyboardEntry /\ k \notin shells
  /\ kbd_full' = FALSE
  /\ SendEoi(KEYBOARD_IRQ)
  /\ shells' = shells \cup {k}
  /\ frames' = << >>
  /\ if_flag' = TRUE
  /\ UNCHANGED << master_mask, slave_mask, irr, rtc_c, inited >>

\* Task context, once booted: terminal_read's busy-wait does cli, tests,
\* and sti; terminal_write, set_frequency, halt and execute also cli.
TaskCli ==
  /\ inited = Devices /\ frames = << >> /\ if_flag
  /\ if_flag' = FALSE
  /\ UNCHANGED << picVars, frames, kbd_full, rtc_c, inited, shells >>

\* Every such section ends in sti, or in an iret to user mode with IF = 1.
TaskSti ==
  /\ inited = Devices /\ frames = << >> /\ ~if_flag
  /\ if_flag' = TRUE
  /\ UNCHANGED << picVars, frames, kbd_full, rtc_c, inited, shells >>

-----------------------------------------------------------------------------
KeyboardHandler ==
  \/ KeyboardPlain \/ KeyboardEoi
  \/ \E k \in Terms : KeyboardSwitch(k) \/ KeyboardNewShell(k)

Boot == InitPit \/ InitKeyboard \/ InitRtc

Next ==
  \/ Boot
  \/ PitFire \/ KeyPress \/ RtcFire
  \/ \E n \in Lines : Interrupt(n)
  \/ PitHandler \/ RtcHandler \/ KeyboardHandler \/ HandlerIret
  \/ TaskCli \/ TaskSti

\* The PIT and RTC fire periodically.  A handler runs on whenever its
\* frame is on top, the boot code and a task's cli section whenever no
\* handler runs: a nested interrupt only postpones them, hence strong
\* fairness.  An IRQ is
\* presented only while IF is set and nothing outranks it, so delivery is
\* strongly fair too: the PIC keeps the request latched until taken.
Fairness ==
  /\ SF_vars(Boot) /\ SF_vars(TaskSti)
  /\ WF_vars(PitFire) /\ WF_vars(RtcFire)
  /\ SF_vars(PitHandler) /\ SF_vars(RtcHandler) /\ SF_vars(KeyboardHandler)
  /\ \A n \in Lines : SF_vars(HandlerIret /\ Top.irq = n)
  /\ \A n \in Lines : SF_vars(Interrupt(n))

\* The PIT ticks every 10 ms, a typist far slower, and a handler takes
\* microseconds: infinitely often a task runs with IF set and no PIT or
\* keyboard request latched, so the RTC's lower priority cannot starve it.
SlowDevices ==
  []<>(frames = << >> /\ if_flag /\ irr \cap {PIT_IRQ, KEYBOARD_IRQ} = {})

Spec == Init /\ [][Next]_vars /\ Fairness /\ SlowDevices

-----------------------------------------------------------------------------
(* Properties.                                                              *)

\* Every level a PIC has in service belongs to a handler still on the
\* stack that has not yet sent its EOI.  A level in service with no such
\* handler blocks its line, and every lower-priority one, for good: this
\* is what the send_eoi calls in pit_handler, rtc_handler, keyboard_handler
\* and switch_displaying_term (before its iret to a new shell) guard.
InServiceOwned ==
  /\ \A l \in isr_m : \E i \in 1 .. Len(frames) :
        MasterLevel(frames[i].irq) = l /\ frames[i].pc = "entry"
  /\ \A l \in isr_s : \E i \in 1 .. Len(frames) :
        frames[i].irq = 8 + l /\ frames[i].pc = "entry"

\* Every IRQ latched by the PICs is eventually taken by the CPU: no line
\* is starved by a lost EOI, a mask left set, or interrupts left off.
RequestsServed == \A n \in Lines : n \in irr ~> n \notin irr

\* The RTC keeps interrupting for ever, as rtc_read's wait on the tick
\* flag requires: rtc_handler must re-arm it by reading register C.
RtcKeepsTicking == []<><<RtcHandler>>_vars


====
