------------------------------ MODULE BootMenu ------------------------------
(***************************************************************************)
(* The second stage of the boot loader (boot/i386/stage2): bmain draws the *)
(* menu, counts down, waits and boots, while the timer's and the           *)
(* keyboard's handlers run between any two of its steps.  A handler is not *)
(* interrupted.  What a partition holds is chosen when it is read; a text  *)
(* on the screen is its name.  Whatever has several lines has two: bmain   *)
(* places the cursor, prints the one, and prints the other where the new   *)
(* line left the cursor.                                                   *)
(***************************************************************************)
EXTENDS Integers

CONSTANTS
  Timeout,    \* AUTOBOOT_TIMEOUT * TPS, in ticks
  MaxTicks,   \* bound: the count of ticks stays there
  MaxKeys,    \* bound: presses of a key
  NParts,     \* entries of the partition table, 4
  Sizes,      \* of kernel files, in blocks
  NDir,       \* EXT2_NDIR_BLOCKS, 12
  Ptrs,       \* EXT2_BLOCK_SIZE / sizeof(uint32_t)
  ByteMod,    \* values of a uint8_t, 256
  MaxSize     \* blocks between the end of the loader and 0x100000

VARIABLES
  pc,             \* where bmain is
  ticks, start,
  autoboot, booting,
  menu_current,   \* 0 for main, 1 for options
  opts,           \* boot_options (verbose) and video_opt
  shape,          \* the part of the frame draw_menu_skeleton is at
  tm_cursor,      \* what the next character is a part of, and its column
  tm_line_reset,  \* the column a new line starts in
  tm_color,
  box,            \* what the two lines of the menu show
  dt,             \* ticks since start, as the loop last saw them
  woken,          \* an interrupt came since bmain halted
  listening,      \* kb_handler is installed
  part,           \* the partition boot looks at
  size, i, image, \* the kernel's file, ext2_read_file's i, and what it has read
  args,           \* what the kernel is called with
  \* history
  keys,           \* presses so far
  smudged         \* a handler printed while bmain drew, and nothing was drawn since

vars == <<pc, ticks, start, autoboot, booting, menu_current, opts, shape, tm_cursor,
          tm_line_reset, tm_color, box, dt, woken, listening, part, size, i, image, args,
          keys, smudged>>

\* A block of ext2 holds 1024 bytes or more: at least as many pointers as a
\* uint8_t can count.
ASSUME BootAssumption ==
  /\ {Timeout, MaxTicks, MaxKeys, NParts, MaxSize} \cup Sizes \subseteq Nat
  /\ {NDir, Ptrs, ByteMod} \subseteq Nat \ {0}
  /\ Timeout < MaxTicks /\ NDir < ByteMod /\ ByteMod <= Ptrs

Defaults == [verbose |-> FALSE, video |-> 1]
NoArgs == [verbose |-> FALSE, video |-> 9]
Videos == 2   \* N_OPT_VIDEO

\* What a line of the box shows of a menu; the options are on the second.
Main == [top |-> "main", bottom |-> [menu |-> "main"]]
Options(o) == [top |-> "options", bottom |-> [menu |-> "options", opts |-> o]]
Blank == [top |-> "blank", bottom |-> [menu |-> "blank"]]

\* The box is no longer where it was drawn: the screen was scrolled.
Moved == [top |-> "moved", bottom |-> [menu |-> "moved"]]

\* The parts of the frame; the lower edge of the box is one line.
Frame == <<"brand", "left", "right", "logo">>

\* A part is printed in a column of its own.
At(p) == [area |-> p, column |-> p]

Color(p) == IF p = "logo" THEN 6 ELSE 7

Ended == {"kernel", "halted", "reset"}

Init ==
  /\ pc = "place" /\ shape = 1
  /\ ticks = 0 /\ start = 0 /\ dt = 0
  /\ autoboot = TRUE /\ booting = FALSE
  /\ menu_current = 0
  /\ opts = Defaults
  /\ tm_cursor = At("home") /\ tm_line_reset = "home" /\ tm_color = 15
  /\ box = Blank
  /\ woken = FALSE
  /\ listening = TRUE
  /\ part = 0
  /\ size = 0 /\ i = 0 /\ image = [p \in 0 .. NDir + Ptrs - 1 |-> 0]
  /\ args = NoArgs
  /\ keys = 0 /\ smudged = FALSE

-----------------------------------------------------------------------------
(* bmain. *)

handled == <<ticks, autoboot, menu_current, opts, woken, keys>>
booted == <<listening, part, size, i, image, args>>

pen == <<tm_cursor, tm_line_reset, tm_color>>

\* Mutant: the cursor is placed, but not the lines after it.
Pen_Cursor(p) == tm_cursor' = At(p) /\ UNCHANGED tm_line_reset

\* tm_cursor_set, and tm_line_reset.
Pen(p) == tm_cursor' = At(p) /\ tm_line_reset' = p

\* A line and the new line after it (tm_puts).
PrintLine ==
  /\ tm_cursor' = [tm_cursor EXCEPT !.column = tm_line_reset]
  /\ UNCHANGED <<tm_line_reset, tm_color>>

\* The box has the colour of the brand.
draw_menu_skeleton ==
  /\ \/ /\ pc = "place"
        /\ Pen(Frame[shape])
        /\ tm_color' = IF Frame[shape] \in {"brand", "logo"} THEN Color(Frame[shape])
                       ELSE tm_color
        /\ smudged' = FALSE
        /\ pc' = "first"
        /\ UNCHANGED shape
     \/ /\ pc = "first"
        /\ PrintLine
        /\ pc' = "second"
        /\ UNCHANGED <<shape, smudged>>
     \/ /\ pc = "second"
        /\ PrintLine
        /\ IF shape < 4 THEN shape' = shape + 1 /\ pc' = "place"
           ELSE pc' = "clear" /\ UNCHANGED shape
        /\ UNCHANGED smudged
  /\ UNCHANGED <<handled, booted, start, booting, box, dt>>

\* draw_menu_main in four steps: the box is cleared, the menu is said to be the
\* main one, and its lines are printed.
draw_menu_main ==
  /\ \/ /\ pc = "clear"
        /\ box' = Blank
        /\ smudged' = FALSE
        /\ Pen("menu")
        /\ pc' = "current"
        /\ UNCHANGED <<tm_color, menu_current>>
     \/ /\ pc = "current"
        /\ menu_current' = 0
        /\ Pen("menu") /\ tm_color' = Color("menu")
        /\ pc' = "top"
        /\ UNCHANGED <<box, smudged>>
     \/ /\ pc = "top"
        /\ box' = [box EXCEPT !.top = "main"]
        /\ PrintLine
        /\ pc' = "bottom"
        /\ UNCHANGED <<menu_current, smudged>>
     \/ /\ pc = "bottom"
        /\ box' = [box EXCEPT !.bottom = Main.bottom]
        /\ tm_cursor' = At("home") /\ tm_color' = Color("menu")
        /\ pc' = "start"
        /\ UNCHANGED <<tm_line_reset, menu_current, smudged>>
  /\ UNCHANGED <<ticks, autoboot, opts, woken, keys, booted, start, booting, dt, shape>>

\* Mutant: no break, the loop goes on although the time is up.
Break_Not == "loop"

Break == "erase"

\* The loop's test, the time, the line, and the time's test.
Countdown ==
  \/ /\ pc = "start"
     /\ start' = ticks /\ dt' = 0
     /\ pc' = "loop"
     /\ UNCHANGED <<handled, booted, booting, box, pen, shape, smudged>>
  \/ /\ pc = "loop"
     /\ pc' = IF autoboot THEN "time" ELSE "erase"
     /\ UNCHANGED <<handled, booted, start, booting, box, pen, shape, dt, smudged>>
  \/ /\ pc = "time"
     /\ dt' = ticks - start
     /\ tm_cursor' = At("line") /\ tm_color' = 7
     /\ pc' = "test"
     /\ UNCHANGED <<handled, booted, start, booting, box, tm_line_reset, shape, smudged>>
  \/ /\ pc = "test"
     /\ IF dt >= Timeout
        THEN booting' = TRUE /\ pc' = Break
        ELSE pc' = "loop" /\ UNCHANGED booting
     /\ UNCHANGED <<handled, booted, start, box, pen, shape, dt, smudged>>

Erase ==
  /\ pc = "erase"
  /\ tm_cursor' = At("line")
  /\ pc' = "wait"
  /\ UNCHANGED <<handled, booted, start, booting, box, tm_line_reset, tm_color, shape, dt,
                 smudged>>

\* while(!booting) hlt: every interrupt, the timer's too, ends the hlt; one that
\* comes between the test and the hlt does not.
Wait ==
  \/ /\ pc = "wait"
     /\ pc' = IF booting THEN "boot" ELSE "awake"
     /\ UNCHANGED <<handled, booted, start, booting, box, pen, shape, dt, smudged>>
  \/ /\ pc = "awake"
     /\ pc' = "hlt"
     /\ woken' = FALSE
     /\ UNCHANGED <<ticks, autoboot, menu_current, opts, keys, booted, start, booting,
                    box, pen, shape, dt, smudged>>
  \/ /\ pc = "hlt"
     /\ woken
     /\ pc' = "wait"
     /\ UNCHANGED <<handled, booted, start, booting, box, pen, shape, dt, smudged>>

menu == <<handled, start, booting, dt, shape, smudged>>

\* A message on the last line of the screen: the new line scrolls everything
\* (tm_putc, tm_scroll).
Message == PrintLine /\ box' = Moved

\* Mutant: the keyboard's handler stays.
Uninstall_Not == UNCHANGED listening

Uninstall == listening' = FALSE

\* The third line of the main menu: the processor is reset.
reboot == pc' = "reset"

\* boot: no more keys, then the boot sector and the partitions one by one.  One
\* of another type is passed over.
boot ==
  \/ /\ pc = "boot"
     /\ Uninstall
     /\ Pen("messages") /\ tm_color' = Color("messages")
     /\ pc' = "booting"
     /\ UNCHANGED <<menu, box, part, size, i, image, args>>
  \/ /\ pc = "booting"
     /\ Message
     /\ \E found \in {"scan", "halted"} : pc' = found   \* a valid MBR, or none
     /\ UNCHANGED <<menu, booted>>
  \/ /\ pc = "scan"
     /\ Message
     /\ \/ part = NParts /\ pc' = "halted" /\ UNCHANGED part
        \/ part < NParts /\ part' = part + 1 /\ UNCHANGED pc
        \/ part < NParts /\ pc' = "parse" /\ UNCHANGED part
     /\ UNCHANGED <<menu, listening, size, i, image, args>>
  \/ /\ pc = "elf"
     /\ \/ Message /\ pc' = "halted"   \* malformed
        \/ pc' = "load" /\ IF opts.verbose THEN Message ELSE UNCHANGED <<pen, box>>
     /\ UNCHANGED <<menu, booted>>
  \/ /\ pc = "load"
     /\ Message
     /\ args' = opts
     /\ pc' = "call"
     /\ UNCHANGED <<menu, listening, part, size, i, image>>
  \/ /\ pc = "call"
     /\ pc' = "kernel"
     /\ UNCHANGED <<menu, pen, box, booted>>

\* partition_ext2_parse: the next partition is tried if this one has no ext2 or
\* no shitos.elf in its root, which ext2_read_file reads too.  The walk over the
\* root's entries ends at a rec_len of 0, which no block of a directory holds: it
\* goes on through what lies behind them, and may find no end.  The kernel's file
\* is read before its size is looked at.
partition_ext2_parse ==
  \/ /\ pc = "parse"
     /\ \/ pc' = "scan" /\ part' = part + 1 /\ Message /\ UNCHANGED size
        \/ /\ \/ pc' = "direct" /\ size' \in Sizes
              \/ pc' = "endless" /\ UNCHANGED size
           /\ IF opts.verbose THEN Message ELSE UNCHANGED <<pen, box>>
           /\ UNCHANGED part
     /\ UNCHANGED <<menu, listening, i, image, args>>
  \/ /\ pc = "parsed"
     /\ Message
     /\ pc' = IF size >= MaxSize THEN "halted" ELSE "elf"
     /\ UNCHANGED <<menu, booted>>

\* Mutant: the blocks of the indirect block go to the start of the file.
Place_Direct == i

\* Where a block of the single indirect block belongs.
Place == NDir + i

\* ext2_read_file: the direct blocks, then those of the single indirect block;
\* i is a byte.
ext2_read_file ==
  /\ \/ /\ pc = "direct" /\ i < size /\ i < NDir
        /\ image' = [image EXCEPT ![i] = i + 1]
        /\ i' = i + 1
        /\ UNCHANGED pc
     \/ /\ pc = "direct" /\ ~ (i < size /\ i < NDir)
        /\ i' = 0
        /\ pc' = IF size > NDir THEN "sind" ELSE "parsed"
        /\ UNCHANGED image
     \/ /\ pc = "sind" /\ i < size - NDir /\ i < Ptrs
        /\ image' = [image EXCEPT ![Place] = NDir + i + 1]
        /\ i' = (i + 1) % ByteMod
        /\ UNCHANGED pc
     \/ /\ pc = "sind" /\ ~ (i < size - NDir /\ i < Ptrs)
        /\ pc' = "parsed"
        /\ UNCHANGED <<i, image>>
  /\ UNCHANGED <<menu, pen, box, listening, part, size, args>>

bmain ==
  \/ draw_menu_skeleton \/ draw_menu_main \/ Countdown \/ Erase \/ Wait
  \/ boot \/ partition_ext2_parse \/ ext2_read_file

-----------------------------------------------------------------------------
(* The interrupt handlers. *)

timer_handler ==
  /\ pc \notin Ended
  /\ ticks' = IF ticks < start + MaxTicks THEN ticks + 1 ELSE ticks
  /\ woken' = TRUE
  /\ UNCHANGED <<pc, start, autoboot, booting, menu_current, opts, pen, shape, box, dt,
                 booted, keys, smudged>>

DrawingFrame == pc \in {"first", "second"}
DrawingMenu == pc \in {"current", "top", "bottom"}

\* Mutant: the cursor stays where the handler wrote last.
RestoreCursor_Not == tm_cursor' = At("home")

\* tm_cursor = cursor, the one the handler found.
RestoreCursor == tm_cursor' = tm_cursor

\* Mutant: the case returns instead of breaking, the menu is not drawn again.
Redraw_Returns(m, o) ==
  /\ menu_current' = m
  /\ opts' = o
  /\ UNCHANGED <<pc, booting, box, pen, smudged>>

\* The menu is drawn for what has just become current, and the cursor put back;
\* the column of new lines and the colour stay the menu's.
Redraw(m, o) ==
  /\ menu_current' = m
  /\ opts' = o
  /\ box' = IF m = 0 THEN Main ELSE Options(o)
  /\ smudged' = (DrawingFrame \/ DrawingMenu)
  /\ RestoreCursor /\ tm_line_reset' = "menu" /\ tm_color' = Color("menu")
  /\ UNCHANGED <<pc, booting>>

\* "Prompt NYI": a line above the last, in the menu's colour.
Prompt ==
  /\ smudged' = (smudged \/ DrawingFrame)
  /\ RestoreCursor /\ tm_color' = Color("menu")
  /\ UNCHANGED <<pc, booting, menu_current, opts, box, tm_line_reset>>

Keys == {"1", "2", "3", "4", "B", "Back", "D", "V", "space"}

\* kb_handler for a key that goes down: first what it does to the countdown.
kb_handler ==
  /\ pc \notin Ended /\ listening /\ keys < MaxKeys
  /\ keys' = keys + 1
  /\ woken' = TRUE
  /\ autoboot' = FALSE
  /\ \E key \in Keys :
       CASE menu_current = 0 /\ key \in {"1", "B"} ->
              /\ booting' = TRUE
              /\ UNCHANGED <<pc, menu_current, opts, pen, box, smudged>>
         [] menu_current = 0 /\ key = "2" -> Prompt
         [] menu_current = 0 /\ key = "3" ->
              /\ reboot
              /\ UNCHANGED <<booting, menu_current, opts, pen, box, smudged>>
         [] menu_current = 0 /\ key = "4" -> Redraw(1, opts)
         [] menu_current = 1 /\ key \in {"1", "Back"} -> Redraw(0, opts)
         [] menu_current = 1 /\ key \in {"2", "D"} -> Redraw(1, Defaults)
         [] menu_current = 1 /\ key \in {"3", "V"} ->
              Redraw(1, [opts EXCEPT !.verbose = ~ @])
         [] menu_current = 1 /\ key = "4" ->
              Redraw(1, [opts EXCEPT !.video = (@ + 1) % Videos])
         [] OTHER -> Redraw(menu_current, opts)
  /\ UNCHANGED <<ticks, start, shape, dt, booted>>

\* A key that goes up, or one after the handler was taken out, only ends a hlt.
OtherInterrupt ==
  /\ pc \notin Ended
  /\ woken' = TRUE
  /\ UNCHANGED <<pc, ticks, start, autoboot, booting, menu_current, opts, pen, shape, box,
                 dt, booted, keys, smudged>>

Next == bmain \/ timer_handler \/ kb_handler \/ OtherInterrupt

\* The processor runs bmain and the timer ticks; nobody has to press a key.
Spec == Init /\ [][Next]_vars /\ WF_vars(bmain) /\ WF_vars(timer_handler)

-----------------------------------------------------------------------------
(* Properties. *)

\* What cannot end: the walk over a root directory with no end, and the reading of
\* a kernel with more indirect blocks than a uint8_t counts.
Endless == pc = "endless" \/ (pc = "sind" /\ size - NDir >= ByteMod)

\* Left alone the loader boots or halts with a message when the time is up, and
\* it does so too once it has been told to boot (while(!booting) hlt does not
\* sleep through the key), unless the root directory it reads has no end or the
\* kernel 256 indirect blocks (partition.c: the walk, and the counter i).
CountdownEnds ==
  /\ <>(keys > 0 \/ pc \in Ended \/ Endless)
  /\ booting ~> (pc \in Ended \/ Endless)

\* From the drawn menu to the first message of boot, the box is that of the
\* current menu with the current options, whatever handlers run, unless one drew
\* while bmain drew its own (draw_menu_main, draw_menu_opts).
ScreenShowsState ==
  /\ pc \in {"start", "loop", "time", "test", "erase", "wait", "awake", "hlt", "boot"}
  /\ ~ smudged
  => box = IF menu_current = 0 THEN Main ELSE Options(opts)

\* Every line is printed in its place: where its text was placed, in its column
\* and its colour.  A handler gives the cursor back, but not tm_line_reset and
\* tm_color: that may put the lines of the part of the frame elsewhere that bmain
\* is just printing, and no others: not the next parts, not the menu, and not the
\* messages of boot, which takes the handler out before it prints.
LinesInPlace ==
  \A p \in {"menu", "messages", Frame[shape]} :
    \/ p = Frame[shape] /\ DrawingFrame /\ ~ smudged
    \/ p = "menu" /\ pc \in {"top", "bottom"}
    \/ p = "messages" /\ pc \in {"booting", "scan", "parse", "parsed", "elf", "load"}
    => tm_cursor = At(p) /\ tm_color = Color(p)

\* "Disable autoboot on any key press": once a key was pressed the time does not
\* boot the system.  It does when the key comes after the loop's test.
KeyStopsCountdown ==
  [][pc = "test" /\ ~ autoboot => booting' = booting]_vars

\* The kernel is entered with the whole of its file in memory, in order, with
\* the options last chosen, and no key can change them any more.
KernelAsChosen ==
  pc = "kernel" =>
    /\ args = opts
    /\ \A b \in 0 .. size - 1 : b \in DOMAIN image /\ image[b] = b + 1
=============================================================================
