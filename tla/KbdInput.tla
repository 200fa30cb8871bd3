------------------------------ MODULE KbdInput ------------------------------
(***************************************************************************)
(* Keyboard input from the wire to the shell: the PS/2 interrupt handler   *)
(* (arch/i386/ps2hid.c) decodes scan codes, handle_kb_input (input/        *)
(* keyboard.c) turns a key press into the bytes of the key map, echoes     *)
(* them on the console and writes them to the pipe behind /dev/kbd, and    *)
(* the shell (apps/init.c) collects a line with fgets, whose blocking read *)
(* the C library emulates by polling the pipe (stdio/__stdio_read.c).      *)
(*                                                                         *)
(* Two actors run: the interrupt handler, which nothing preempts, and the  *)
(* one user process, which it preempts between any two system calls.  A    *)
(* page fault of the process ends both: its handler loops with interrupts  *)
(* off.                                                                    *)
(***************************************************************************)
EXTENDS Integers, Sequences

CONSTANTS
  PlainKeys,     \* the keys that are not modifiers
  Modifiers,     \* the modifiers change_mod knows: left shift and left ctrl
  NoMod,         \* the value 0 of mod
  BreakCode,     \* the scan code 0xF0 that announces a release
  OverrunKeys,   \* what may lie beyond the end of sc3_to_usb, see kbd_handler
  Keymap,        \* us_keymap[mod][key] as a byte string, << >> where it is NULL
  Newline,       \* the byte "\n"
  Space,         \* the byte " ", at which the shell splits a line
  ArgvReadable,  \* whether main's argv2[0], which nothing initialises, may be read
  Byte,          \* the values of a byte
  Sz,            \* the size of kbd_pipe, 128
  LineSz,        \* the most bytes fgets collects, MAX_STR - 1
  MaxPresses     \* bound: how many presses (repeats included) the user makes

Keys == PlainKeys \cup Modifiers

ASSUME KeysAssumption ==
  /\ Keymap \in [Modifiers \cup {NoMod} -> [PlainKeys -> Seq(Byte)]]
  /\ NoMod \notin Modifiers
  /\ BreakCode \notin Keys
  /\ Sz \in Nat \ {0}
  /\ LineSz \in Nat \ {0}
  /\ ArgvReadable \subseteq BOOLEAN
  /\ MaxPresses \in Nat

VARIABLES
  \* the keyboard, external to the kernel
  held,          \* the keys that are down
  wire,          \* scan codes sent and not yet read from PS2_DATA
  presses,       \* how many presses were made
  \* ps2hid.c
  mod,
  not_released,
  send,
  overrun,       \* the byte sc3_to_usb[0xF0] happens to read
  \* kbd_pipe
  buf, read_ptr, write_ptr,
  \* the shell
  pc,            \* "fgets" while it waits for a line, "run" while it obeys one,
                 \* "fault" once it read through a bad pointer
  line,          \* the bytes fgets has collected
  argv2,         \* whether argv2[0] points to memory that can be read
  \* history
  echoed,        \* the bytes printed on the console
  accepted,      \* the bytes the pipe stored
  consumed       \* the bytes fgets has taken

kbd_pipe == INSTANCE Pipe

device == <<held, wire, presses>>
decoder == <<mod, not_released, send>>
pipe == <<buf, read_ptr, write_ptr>>
shell == <<pc, line, argv2>>
history == <<echoed, accepted, consumed>>
vars == <<device, decoder, overrun, pipe, shell, history>>

-----------------------------------------------------------------------------
Init ==
  /\ held = {}
  /\ wire = << >>
  /\ presses = 0
  /\ mod = NoMod
  /\ not_released = TRUE
  /\ send = TRUE
  /\ overrun \in OverrunKeys
  /\ kbd_pipe!pipe_create
  /\ pc = "fgets"
  /\ line = << >>
  /\ argv2 \in ArgvReadable
  /\ echoed = << >>
  /\ accepted = << >>
  /\ consumed = << >>

-----------------------------------------------------------------------------
(* The keyboard.  A wire entry is the scan code together with what the     *)
(* user did to cause it: release tells the second byte of a release, down  *)
(* which modifiers were down at that moment.  Only code reaches the kernel.*)

Code(c, isRelease, keys) ==
  [code |-> c, release |-> isRelease, down |-> keys \cap Modifiers]

\* A key goes down, or repeats while it is held.
Press(k) ==
  /\ presses < MaxPresses
  /\ wire = << >>
  /\ held' = held \cup {k}
  /\ wire' = <<Code(k, FALSE, held')>>
  /\ presses' = presses + 1
  /\ UNCHANGED <<decoder, overrun, pipe, shell, history>>

Release(k) ==
  /\ k \in held
  /\ Len(wire) <= 1
  /\ held' = held \ {k}
  /\ wire' = wire \o <<Code(BreakCode, FALSE, held), Code(k, TRUE, held)>>
  /\ UNCHANGED <<presses, decoder, overrun, pipe, shell, history>>

-----------------------------------------------------------------------------
(* The interrupt handler.                                                  *)

\* sc3_to_usb has 0x7E entries and is read at 0xF0, past its end: the byte
\* found there is fixed by the build, and is the same at each release.
sc3_to_usb(scancode) == IF scancode = BreakCode THEN overrun ELSE scancode

\* Mutant: releasing a modifier leaves it in force.
change_mod_Sticky(modkey) == IF not_released THEN modkey ELSE mod

\* The new mod when the key handled is the modifier modkey.
change_mod(modkey) == IF not_released THEN modkey ELSE NoMod

\* Mutant: the release flag is not looked at.
handle_kb_input_AnyFlag(keycode, m, release_flag) ==
  \E n \in 0 .. Sz - 1 :
    /\ kbd_pipe!pipe_write(Keymap[m][keycode], n)
    /\ echoed' = echoed \o Keymap[m][keycode]
    /\ accepted' = accepted \o SubSeq(Keymap[m][keycode], 1, n)

\* The bytes of a pressed key are printed, then as many of them as fit are
\* written to the pipe: fs_write's result is not looked at.
handle_kb_input(keycode, m, release_flag) ==
  IF release_flag
  THEN \E n \in 0 .. Sz - 1 :
         /\ kbd_pipe!pipe_write(Keymap[m][keycode], n)
         /\ echoed' = echoed \o Keymap[m][keycode]
         /\ accepted' = accepted \o SubSeq(Keymap[m][keycode], 1, n)
  ELSE UNCHANGED <<pipe, echoed, accepted>>

\* One interrupt: one scan code.  A modifier changes mod and is not itself
\* sent on; 0xF0 only notes that the next scan code is of a release.
kbd_handler ==
  /\ pc # "fault"
  /\ wire # << >>
  /\ wire' = Tail(wire)
  /\ LET scancode == Head(wire).code
         keycode  == sc3_to_usb(scancode)
         sendNow  == send /\ keycode \notin Modifiers
     IN  /\ mod' = IF keycode \in Modifiers THEN change_mod(keycode) ELSE mod
         /\ \/ /\ scancode = BreakCode
               /\ not_released' = FALSE
               /\ send' = sendNow
               /\ UNCHANGED <<pipe, echoed, accepted>>
            \/ /\ scancode # BreakCode
               /\ IF sendNow THEN handle_kb_input(keycode, mod', not_released)
                             ELSE UNCHANGED <<pipe, echoed, accepted>>
               /\ send' = TRUE
               /\ not_released' = TRUE
  /\ UNCHANGED <<held, presses, overrun, shell, consumed>>

-----------------------------------------------------------------------------
(* The shell.  fgetc asks /dev/kbd for one byte; with F_BLOCK set          *)
(* __stdio_read repeats the system call until it gets it.                  *)

\* A poll that finds the pipe empty: the loop goes round.
PollEmpty ==
  /\ pc = "fgets"
  /\ kbd_pipe!pipe_read(1, 0)
  /\ UNCHANGED <<device, decoder, overrun, shell, history>>

\* Mutant: each poll asks for two bytes and keeps one.
fgetc_AsksForTwo ==
  /\ pc = "fgets"
  /\ \E n \in 1 .. 2 : kbd_pipe!pipe_read(2, n)
  /\ UNCHANGED argv2
  /\ LET c == Head(kbd_pipe!Oldest(1))
     IN  /\ line' = Append(line, c)
         /\ consumed' = Append(consumed, c)
         /\ pc' = IF c = Newline \/ Len(line') = LineSz THEN "run" ELSE "fgets"
  /\ UNCHANGED <<device, decoder, overrun, echoed, accepted>>

\* A poll that gets a byte: fgets stores it and returns when the line or
\* the buffer is complete.
fgetc ==
  /\ pc = "fgets"
  /\ kbd_pipe!pipe_read(1, 1)
  /\ UNCHANGED argv2
  /\ LET c == Head(kbd_pipe!Oldest(1))
     IN  /\ line' = Append(line, c)
         /\ consumed' = Append(consumed, c)
         /\ pc' = IF c = Newline \/ Len(line') = LineSz THEN "run" ELSE "fgets"
  /\ UNCHANGED <<device, decoder, overrun, echoed, accepted>>

HasWord(bytes) == \E i \in DOMAIN bytes : bytes[i] \notin {Newline, Space}

\* Mutant: after a full line the rest of the input is not asked for.
RunCommand_StopsAtFullLine ==
  /\ pc = "run"
  /\ line[Len(line)] = Newline
  /\ argv2' = (argv2 \/ HasWord(line))
  /\ pc' = IF argv2' THEN "fgets" ELSE "fault"
  /\ line' = << >>
  /\ UNCHANGED <<device, decoder, overrun, pipe, history>>

\* The shell obeys the line, prints its prompt and calls fgets again.  It
\* compares argv2[0] with the names of its commands; strnsplit sets that to the
\* first word of the line, and leaves it alone when the line has none.
RunCommand ==
  /\ pc = "run"
  /\ argv2' = (argv2 \/ HasWord(line))
  /\ pc' = IF argv2' THEN "fgets" ELSE "fault"
  /\ line' = << >>
  /\ UNCHANGED <<device, decoder, overrun, pipe, history>>

\* The page fault handler prints what happened and loops for ever.
page_fault == pc = "fault" /\ UNCHANGED vars

-----------------------------------------------------------------------------
User == \E k \in Keys : Press(k) \/ Release(k)

Shell == PollEmpty \/ fgetc \/ RunCommand \/ page_fault

Next == User \/ kbd_handler \/ Shell

\* Interrupts are taken and the one process runs whenever no handler does;
\* the user owes nobody a key.
Fairness ==
  /\ WF_vars(kbd_handler)
  /\ WF_vars(fgetc)
  /\ WF_vars(RunCommand)

Spec == Init /\ [][Next]_vars

FairSpec == Spec /\ Fairness

-----------------------------------------------------------------------------
TypeOK ==
  /\ held \subseteq Keys
  /\ presses \in 0 .. MaxPresses
  /\ mod \in Modifiers \cup {NoMod}
  /\ not_released \in BOOLEAN
  /\ send \in BOOLEAN
  /\ kbd_pipe!TypeOK
  /\ pc \in {"fgets", "run", "fault"}
  /\ Len(line) <= LineSz

\* What the pipe took is what the shell got followed by what the pipe still
\* holds: between the interrupt that writes and the process that reads,
\* no byte is lost, repeated or overtaken.
NothingLostInPipe == accepted = consumed \o kbd_pipe!Oldest(kbd_pipe!pipe_size)

\* Once the wire is quiet, a modifier that mod still applies is held down:
\* whatever the order of presses, repeats and releases, none gets stuck.
\* (The converse fails: mod holds one modifier, so releasing either of two
\* clears it.)
NoStuckModifier == (wire = << >> /\ mod # NoMod) => mod \in held

\* Every byte typed comes from a press, decoded with a modifier that was down
\* when the key was pressed or with none: the pairing of 0xF0 with the scan
\* code after it (not_released, send) never slips by one interrupt.
TypedAsPressed ==
  [][ echoed' # echoed =>
        /\ ~ Head(wire).release
        /\ mod' \in Head(wire).down \cup {NoMod} ]_vars

\* Once the user stops typing, the shell comes to have every byte the pipe
\* accepted: the polling reader is never left waiting for a byte that is there,
\* however lines, a full line buffer and interrupts fall together.  One thing
\* prevents it: a line without a word, obeyed before any line with one, on which
\* the shell may fault.
AllBytesReachShell ==
  <>[](consumed = accepted \/ (pc = "fault" /\ ~ HasWord(consumed)))

=============================================================================
