----------------------------- MODULE KernelRtc -----------------------------
(***************************************************************************)
(* KernelSched composed with the RTC's periodic-interrupt rate, the low    *)
(* four bits of status register A (RS), which init_rtc, rtc_open,          *)
(* rtc_close and rtc_write set through set_frequency.  RS = 0 turns the     *)
(* periodic interrupt off; RS = r > 0 makes the RTC raise IRQ8 at          *)
(* 32768 >> (r - 1) Hz.  The RTC interrupt of KernelSched fires only       *)
(* while RS # 0.                                                            *)
(*                                                                         *)
(* set_frequency's cli ... sti and the port I/O that reaches the register   *)
(* are one step: no other state is touched in between, and the system     *)
(* call returns right after.  rtc_write's early return for nbytes # 4 or   *)
(* a NULL buffer changes nothing and is a stutter.                          *)
(***************************************************************************)
EXTENDS KernelSched

CONSTANT
  Frequencies    \* the values user programs pass to rtc_write

VARIABLE
  rate           \* RTC register A bits 3:0

vars == << schedVars, rate >>

DEFAULT_FREQ == 2

\* rtc.h: freq_r, the frequency of rate r (32768 >> (r - 1)).
Freq(r) == 2 ^ (16 - r)

\* Mutation of SetFrequency: no early return for freq_1 .. freq_5, which
\* then match no branch either.
SetFrequencyNoEarlyReturn(prev, frequency) ==
  IF \E r \in 6 .. 15 : Freq(r) = frequency
    THEN {CHOOSE r \in 6 .. 15 : Freq(r) = frequency}
    ELSE 0 .. 15

\* set_frequency(frequency), as the set of rates register A can hold
\* afterwards.  freq_1 .. freq_5 return early; freq_6 .. freq_15 select
\* their rate; any other value matches no branch, leaves the local rate
\* uninitialised, and "rate &= 0x0F" writes whatever low nibble it held.
SetFrequency(prev, frequency) ==
  IF \E r \in 1 .. 5 : Freq(r) = frequency THEN {prev}
  ELSE IF \E r \in 6 .. 15 : Freq(r) = frequency
         THEN {CHOOSE r \in 6 .. 15 : Freq(r) = frequency}
  ELSE 0 .. 15

\* init_rtc writes 0x20 to register A (RS = 0), then set_frequency(2).
Init ==
  /\ SchedInit
  /\ rate \in SetFrequency(0, DEFAULT_FREQ)

\* write() on an RTC descriptor: rtc_write(fd, &frequency, 4).
RtcWrite(t) ==
  /\ Running(t) /\ pc[t] = "user"
  /\ \E frequency \in Frequencies : rate' \in SetFrequency(rate, frequency)
  /\ UNCHANGED schedVars

\* open() or close() of the RTC: set_frequency(DEFAULT_FREQ).
RtcOpen(t) ==
  /\ Running(t) /\ pc[t] = "user"
  /\ rate' \in SetFrequency(rate, DEFAULT_FREQ)
  /\ UNCHANGED schedVars

\* rtc_handler, taken only while the RTC raises periodic interrupts.
RtcFire ==
  /\ rate # 0
  /\ RtcTick
  /\ UNCHANGED rate

Next ==
  \/ SchedOtherStep /\ UNCHANGED rate
  \/ RtcFire
  \/ \E t \in Terms : RtcWrite(t) \/ RtcOpen(t)

\* SchedFairness, with the RTC interrupt guarded by the rate.
Fairness ==
  /\ SF_vars(PitTick /\ UNCHANGED rate)
  /\ SF_vars(RtcFire)
  /\ \A t \in Terms : SF_vars(SchedKernelStep(t) /\ UNCHANGED rate)

Spec == Init /\ [][Next]_vars /\ Fairness

=============================================================================
