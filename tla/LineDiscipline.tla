--------------------------- MODULE LineDiscipline ---------------------------
(***************************************************************************)
(* The line buffer of the displayed terminal: key_buff, buff_index and      *)
(* num_enters of keyboard.c, written by the keyboard IRQ (keyboard_handler, *)
(* set_buffer) and drained by terminal_read through shift_buffer.           *)
(*                                                                         *)
(* One terminal suffices: switch_displaying_term saves and restores the     *)
(* three variables whole, the keyboard only writes the displayed buffer and *)
(* terminal_read only leaves its wait loop while its terminal is displayed. *)
(* Once it has, the copy and the shift run with IF clear, so a read is one  *)
(* step.  BUFF_SIZE is the code's 128 scaled down; the code writes 127 as   *)
(* BUFF_SIZE - 1.  Bytes are model values: Chars for printable keys, NL,   *)
(* and NUL for '\0'.                                                       *)
(***************************************************************************)
EXTENDS Integers, Sequences, SequencesExt, FiniteSets, FiniteSetsExt

CONSTANTS
  BUFF_SIZE,   \* keyboard.h: 128
  Chars,       \* printable bytes a key can produce
  NL, NUL,     \* '\n' and '\0'
  ReadSizes,   \* nbytes arguments of read() on stdin
  MaxEnters    \* bound on num_enters (backspace + ENTER can raise it)

ASSUME BUFF_SIZE \in 3 .. 8 /\ MaxEnters \in Nat \ {0}
ASSUME ReadSizes \subseteq 1 .. BUFF_SIZE

Bytes == Chars \cup {NL, NUL}
Idx   == 0 .. BUFF_SIZE - 1

VARIABLES
  key_buff,    \* key_buff[0 .. BUFF_SIZE-1]
  buff_index,  \* next free slot; an int the code lets go negative
  num_enters,  \* lines the reader may take
  oob          \* some access has fallen outside key_buff or temp

vars == << key_buff, buff_index, num_enters, oob >>

\* Store b at index i; a store outside the array lands in whatever memory
\* surrounds it, which this model does not track beyond flagging it.
Store(buf, i, b) == IF i \in Idx THEN [buf EXCEPT ![i] = b] ELSE buf

\* init_keyboard
Init ==
  /\ key_buff = [i \in Idx |-> NUL]
  /\ buff_index = 0
  /\ num_enters = 0
  /\ oob = FALSE

\* set_buffer, any modifier table: store and echo while index < 127.
KeyChar(c) ==
  /\ buff_index < BUFF_SIZE - 1
  /\ key_buff' = Store(key_buff, buff_index, c)
  /\ buff_index' = buff_index + 1
  /\ oob' = (oob \/ buff_index \notin Idx)
  /\ UNCHANGED num_enters

\* Mutation of KeyEnter: the bound test is <= BUFF_SIZE.
KeyEnterPastEnd ==
  /\ buff_index <= BUFF_SIZE
  /\ num_enters < MaxEnters
  /\ key_buff' = Store(key_buff, buff_index, NL)
  /\ buff_index' = buff_index + 1
  /\ num_enters' = num_enters + 1
  /\ oob' = (oob \/ buff_index \notin Idx)

\* keyboard_handler, ENTER: store '\n' while index < 128, count the line.
KeyEnter ==
  /\ buff_index < BUFF_SIZE
  /\ num_enters < MaxEnters
  /\ key_buff' = Store(key_buff, buff_index, NL)
  /\ buff_index' = buff_index + 1
  /\ num_enters' = num_enters + 1
  /\ oob' = (oob \/ buff_index \notin Idx)

\* keyboard_handler, BACKSPACE: step back (clamped at 0) and clear the
\* byte there, whatever it is.
KeyBackspace ==
  LET j == IF buff_index - 1 < 0 THEN 0 ELSE buff_index - 1 IN
  /\ buff_index' = j
  /\ key_buff' = Store(key_buff, j, NUL)
  /\ UNCHANGED << num_enters, oob >>

\* terminal_read's scan: the index of the first '\n' below m, else m.
\* It reads key_buff[i] before testing i < nbytes.
ScanEnd(m) ==
  LET stops == {i \in 0 .. m : i = m \/ (i \in Idx /\ key_buff[i] = NL)}
  IN Min(stops)

\* shift_buffer(index, key_buff): clear buf[0 .. index], then
\* memcpy(buf, &buf[i+1], BUFF_SIZE-index-1) with i = index + 1 after the
\* loop, so byte j comes from buf[j + index + 2]; the last source byte,
\* buf[BUFF_SIZE], lies past the array and holds g.  Bytes past the
\* copied span keep what the clear left.  memcpy (lib.c, not in the
\* repository) is taken to copy upwards, as the course library does.
Shifted(buf, index, g) ==
  LET cleared == [j \in Idx |-> IF j <= index THEN NUL ELSE buf[j]]
      src(k)  == IF k \in Idx THEN buf[k] ELSE g
  IN [j \in Idx |-> IF j <= BUFF_SIZE - index - 2 THEN src(j + index + 2)
                    ELSE cleared[j]]

\* terminal_read(fd, buf, m) after its wait loop: num_enters--, copy up to
\* the '\n' (which is not copied) and dequeue with shift_buffer.  A scan
\* that reaches BUFF_SIZE reads and clears past key_buff, and then the
\* memcpy length is negative.
TerminalRead(m) ==
  LET i == ScanEnd(m) IN
  /\ num_enters > 0
  /\ num_enters' = num_enters - 1
  /\ \E g \in Bytes :
       key_buff' = IF i >= BUFF_SIZE - 1 THEN [j \in Idx |-> NUL]
                   ELSE Shifted(key_buff, i, g)
  /\ buff_index' = buff_index - (i + 1)
  /\ oob' = (oob \/ i >= BUFF_SIZE)

\* After an access outside key_buff the behaviour is undefined: the model
\* stops there.
Next ==
  /\ ~oob
  /\ \/ \E c \in Chars : KeyChar(c)
     \/ KeyEnter
     \/ KeyBackspace
     \/ \E m \in ReadSizes : TerminalRead(m)

Spec == Init /\ [][Next]_vars

-----------------------------------------------------------------------------
(* Properties.                                                              *)

TypeOK ==
  /\ key_buff \in [Idx -> Bytes]
  /\ buff_index \in Int /\ buff_index <= BUFF_SIZE
  /\ num_enters \in 0 .. MaxEnters
  /\ oob \in BOOLEAN

\* The bytes the reader has not consumed yet: key_buff[0 .. buff_index-1].
LiveBytes == [j \in 1 .. buff_index |-> key_buff[j - 1]]

\* Spec 4.D, the line buffer is a FIFO: whatever number of bytes a read
\* takes off the front, the bytes behind them are kept, in order.  This is
\* what shift_buffer's memcpy is for; it says nothing about how many bytes
\* the read removes (terminal_read removes i + 1 for a scan ending at i),
\* so only the shift itself can break it.
ShiftKeepsRest ==
  [][num_enters' = num_enters - 1 =>
       LiveBytes' = SubSeq(LiveBytes, Len(LiveBytes) - Len(LiveBytes') + 1, Len(LiveBytes))]_vars

\* Every store and load of the keyboard IRQ and of terminal_read stays
\* inside key_buff and temp.
KeyBuffInBounds == ~oob

\* Lines waiting in the buffer and the count the reader goes by.
Newlines == {j \in 1 .. Len(LiveBytes) : LiveBytes[j] = NL}
EntersCounted == num_enters = Cardinality(Newlines)

=============================================================================
