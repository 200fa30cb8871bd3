----------------------------- MODULE BootProofs -----------------------------
(***************************************************************************)
(* Proofs about BootMenu, for every timeout, partition table, kernel size  *)
(* and number of keys: the kernel is entered whole and with the options    *)
(* last chosen, the box on the screen shows the current menu until boot    *)
(* scrolls it away, and a key displaces no line but those of the part of   *)
(* the frame that was being printed.                                       *)
(***************************************************************************)
EXTENDS BootMenu, TLAPS

-----------------------------------------------------------------------------
(* The kernel. *)

\* A block number of the kernel's file fits into image, and holds its block.
Loaded(b) == b \in DOMAIN image /\ image[b] = b + 1

\* i counts the blocks read: those before it are in place.  A uint8_t goes round
\* at ByteMod, but what was read before stays where it is.
LoadInv ==
  /\ image \in [0 .. NDir + Ptrs - 1 -> Nat]
  /\ i \in 0 .. ByteMod - 1
  /\ size \in Nat
  /\ pc \in {"direct", "sind", "parsed", "elf", "load", "call"} \cup Ended \/ i = 0
  /\ pc = "direct" => \A b \in 0 .. i - 1 : Loaded(b)
  /\ pc = "direct" => i <= NDir /\ i <= size
  /\ pc = "sind" => size > NDir /\ \A b \in 0 .. NDir + i - 1 : Loaded(b)
  /\ pc \in {"parsed", "elf", "load", "call", "kernel"} =>
       \A b \in 0 .. size - 1 : Loaded(b)

\* The keyboard's handler is out before the first sector is read, so the options
\* cannot change after the kernel's arguments were taken from them.
ArgsInv ==
  /\ pc \in {"booting", "scan", "parse", "direct", "sind", "parsed", "elf", "load", "call"} =>
       ~ listening
  /\ pc \in {"call", "kernel"} => args = opts

LEMMA ConstantTypes ==
  /\ NDir \in Nat \ {0} /\ Ptrs \in Nat \ {0} /\ ByteMod \in Nat \ {0}
  /\ \A s \in Sizes : s \in Nat
  /\ NDir < ByteMod /\ ByteMod <= Ptrs
BY BootAssumption

\* A uint8_t that goes up by one goes round at ByteMod.
LEMMA CountGoesRound ==
  ASSUME NEW m \in Nat \ {0}, NEW j \in 0 .. m - 1
  PROVE  (j + 1) % m = IF j + 1 < m THEN j + 1 ELSE 0
BY SMTT(30)

\* The handlers and the menu never touch what is being read, and a key moves bmain
\* only to the reset.
LEMMA OthersKeepLoad ==
  ASSUME timer_handler \/ kb_handler \/ OtherInterrupt
  PROVE  /\ UNCHANGED <<listening, part, size, i, image, args>>
         /\ pc \notin Ended
         /\ pc' = pc \/ pc' = "reset"
         /\ ~ listening => UNCHANGED <<pc, opts>>
<1> USE DEF booted
<1>1. CASE timer_handler
  BY <1>1 DEF timer_handler
<1>2. CASE kb_handler
  <2>1. UNCHANGED booted /\ listening /\ pc \notin Ended
    BY <1>2 DEF kb_handler
  <2>2. pc' = pc \/ pc' = "reset"
    BY <1>2 DEF kb_handler, Redraw, Prompt, reboot
  <2> QED BY <2>1, <2>2
<1>3. CASE OtherInterrupt
  BY <1>3 DEF OtherInterrupt
<1> QED BY <1>1, <1>2, <1>3

\* One call of ext2_read_file reads the blocks in order, up to the last.
LEMMA ReadKeepsLoad ==
  ASSUME LoadInv, ext2_read_file
  PROVE  LoadInv'
<1> USE ConstantTypes DEF LoadInv, Loaded, Ended
<1>1. size' = size
  BY DEF ext2_read_file
<1>2. CASE pc = "direct" /\ i < size /\ i < NDir
  <2>1. image' = [image EXCEPT ![i] = i + 1] /\ i' = i + 1 /\ pc' = pc
    BY <1>2 DEF ext2_read_file
  <2>2. i \in 0 .. NDir + Ptrs - 1 /\ i' \in 0 .. ByteMod - 1
    BY <1>2, <2>1
  <2>3. image' \in [0 .. NDir + Ptrs - 1 -> Nat]
    BY <2>1
  <2>4. \A b \in 0 .. i' - 1 : b \in DOMAIN image' /\ image'[b] = b + 1
    BY <1>2, <2>1, <2>2
  <2> QED BY <1>1, <1>2, <2>1, <2>2, <2>3, <2>4
<1>3. CASE pc = "direct" /\ ~ (i < size /\ i < NDir)
  <2>1. image' = image /\ i' = 0 /\ pc' = IF size > NDir THEN "sind" ELSE "parsed"
    BY <1>3 DEF ext2_read_file
  <2>2. CASE size > NDir
    BY <1>1, <1>3, <2>1, <2>2
  <2>3. CASE ~ (size > NDir)
    BY <1>1, <1>3, <2>1, <2>3
  <2> QED BY <2>2, <2>3
<1>4. CASE pc = "sind" /\ i < size - NDir /\ i < Ptrs
  <2>1. image' = [image EXCEPT ![NDir + i] = NDir + i + 1] /\ pc' = pc
        /\ i' = (i + 1) % ByteMod
    BY <1>4 DEF ext2_read_file, Place
  <2>2. /\ NDir + i \in 0 .. NDir + Ptrs - 1
        /\ NDir + i + 1 \in Nat
        /\ i' \in 0 .. ByteMod - 1
        /\ i' <= i + 1
    <3>1. i' = IF i + 1 < ByteMod THEN i + 1 ELSE 0
      BY <2>1, CountGoesRound
    <3> QED BY <1>4, <3>1
  <2>3. image' \in [0 .. NDir + Ptrs - 1 -> Nat]
    BY <2>1, <2>2
  <2>4. ASSUME NEW b \in 0 .. NDir + i
        PROVE  b \in DOMAIN image' /\ image'[b] = b + 1
    <3>1. b \in 0 .. NDir + i - 1 \/ b = NDir + i
      OBVIOUS
    <3>2. CASE b = NDir + i
      BY <2>1, <2>2, <3>2
    <3>3. CASE b \in 0 .. NDir + i - 1 /\ b # NDir + i
      BY <1>4, <2>1, <2>2, <3>3
    <3> QED BY <3>1, <3>2, <3>3
  <2>5. \A b \in 0 .. NDir + i' - 1 : Loaded(b)'
    <3>1. PICK j \in 0 .. i + 1 : i' = j
      BY <2>2
    <3>2. \A b \in 0 .. NDir + j - 1 : b \in 0 .. NDir + i
      OBVIOUS
    <3> QED BY <2>4, <3>1, <3>2
  <2> QED BY <1>1, <1>4, <2>1, <2>2, <2>3, <2>5
<1>5. CASE pc = "sind" /\ ~ (i < size - NDir /\ i < Ptrs)
  <2>1. image' = image /\ i' = i /\ pc' = "parsed"
    BY <1>5 DEF ext2_read_file
  <2>2. size <= NDir + i
    BY <1>5
  <2> QED BY <1>1, <1>5, <2>1, <2>2
<1> QED BY <1>2, <1>3, <1>4, <1>5 DEF ext2_read_file

\* Every other step of bmain leaves image and i alone; partition_ext2_parse
\* chooses the file before its first block is read.
LEMMA LoadInvStep == LoadInv /\ [Next]_vars => LoadInv'
<1> SUFFICES ASSUME LoadInv, [Next]_vars PROVE LoadInv'
  OBVIOUS
<1> USE DEF booted, menu, handled
<1>1. CASE draw_menu_skeleton
  BY <1>1 DEF draw_menu_skeleton, LoadInv, Loaded, Ended
<1>2. CASE draw_menu_main
  BY <1>2 DEF draw_menu_main, LoadInv, Loaded, Ended
<1>3. CASE Countdown
  BY <1>3 DEF Countdown, Break, LoadInv, Loaded, Ended
<1>4. CASE Erase
  BY <1>4 DEF Erase, LoadInv, Loaded, Ended
<1>5. CASE Wait
  BY <1>5 DEF Wait, LoadInv, Loaded, Ended
<1>6. CASE boot
  BY <1>6 DEF boot, LoadInv, Loaded, Ended
<1>7. CASE partition_ext2_parse
  BY <1>7, ConstantTypes DEF partition_ext2_parse, LoadInv, Loaded, Ended
<1>8. CASE ext2_read_file
  BY <1>8, ReadKeepsLoad
<1>9. CASE timer_handler \/ kb_handler \/ OtherInterrupt
  BY <1>9, OthersKeepLoad DEF LoadInv, Loaded, Ended
<1>10. CASE UNCHANGED vars
  BY <1>10 DEF vars, LoadInv, Loaded, Ended
<1> QED BY <1>1, <1>2, <1>3, <1>4, <1>5, <1>6, <1>7, <1>8, <1>9, <1>10 DEF Next, bmain

LEMMA ArgsInvStep == ArgsInv /\ [Next]_vars => ArgsInv'
<1> SUFFICES ASSUME ArgsInv, [Next]_vars PROVE ArgsInv'
  OBVIOUS
<1> USE DEF booted, menu, handled, ArgsInv, Ended
<1>1. CASE draw_menu_skeleton
  BY <1>1 DEF draw_menu_skeleton
<1>2. CASE draw_menu_main
  BY <1>2 DEF draw_menu_main
<1>3. CASE Countdown
  BY <1>3 DEF Countdown, Break
<1>4. CASE Erase
  BY <1>4 DEF Erase
<1>5. CASE Wait
  BY <1>5 DEF Wait
<1>6. CASE boot
  BY <1>6 DEF boot, Uninstall
<1>7. CASE partition_ext2_parse
  BY <1>7 DEF partition_ext2_parse
<1>8. CASE ext2_read_file
  BY <1>8 DEF ext2_read_file
<1>9. CASE timer_handler \/ kb_handler \/ OtherInterrupt
  BY <1>9, OthersKeepLoad
<1>10. CASE UNCHANGED vars
  BY <1>10 DEF vars
<1> QED BY <1>1, <1>2, <1>3, <1>4, <1>5, <1>6, <1>7, <1>8, <1>9, <1>10 DEF Next, bmain

\* The kernel is entered with the whole of its file in order, whatever its size,
\* and with the options last chosen: no key comes between reading them and the
\* call.  (A file of more than NDir + ByteMod blocks is never read to its end:
\* the loop does not stop, and the kernel is not entered.)
THEOREM KernelIsAsChosen == Spec => []KernelAsChosen
<1>1. Init => LoadInv /\ ArgsInv
  BY ConstantTypes DEF Init, LoadInv, ArgsInv, Loaded
<1>2. LoadInv /\ ArgsInv => KernelAsChosen
  BY DEF LoadInv, ArgsInv, KernelAsChosen, Loaded
<1> QED BY <1>1, <1>2, LoadInvStep, ArgsInvStep, PTL DEF Spec

-----------------------------------------------------------------------------
(* The menu. *)

\* While bmain draws and no key came, the box is as far as it has got.
ScreenInv ==
  /\ pc = "current" /\ ~ smudged => box = Blank
  /\ pc \in {"top", "bottom"} /\ ~ smudged => menu_current = 0
  /\ pc = "top" /\ ~ smudged => box = Blank
  /\ pc = "bottom" /\ ~ smudged => box = [Blank EXCEPT !.top = "main"]
  /\ ScreenShowsState

\* A handler that draws shows what has just become current, and says so while
\* bmain draws too; one that does not draw changes neither side.
LEMMA KeyKeepsScreen ==
  ASSUME ScreenInv, kb_handler
  PROVE  ScreenInv'
<1>1. CASE \E m, o : Redraw(m, o)
  <2>1. PICK m, o : Redraw(m, o)
    BY <1>1
  <2> QED BY <2>1 DEF Redraw, DrawingMenu, ScreenInv, ScreenShowsState
<1>2. CASE UNCHANGED <<menu_current, opts, box, smudged>> /\ (pc' = pc \/ pc' = "reset")
  BY <1>2 DEF ScreenInv, ScreenShowsState
<1>3. CASE Prompt
  BY <1>3 DEF Prompt, ScreenInv, ScreenShowsState
<1>4. \/ \E m, o : Redraw(m, o)
      \/ Prompt
      \/ UNCHANGED <<menu_current, opts, box, smudged>> /\ (pc' = pc \/ pc' = "reset")
  BY DEF kb_handler, reboot
<1> QED BY <1>1, <1>2, <1>3, <1>4

LEMMA ScreenInvStep == ScreenInv /\ [Next]_vars => ScreenInv'
<1> SUFFICES ASSUME ScreenInv, [Next]_vars PROVE ScreenInv'
  OBVIOUS
<1> USE DEF menu, handled, ScreenInv, ScreenShowsState
<1>1. CASE draw_menu_skeleton
  BY <1>1 DEF draw_menu_skeleton
<1>2. CASE draw_menu_main
  BY <1>2 DEF draw_menu_main, Main, Blank
<1>3. CASE Countdown
  BY <1>3 DEF Countdown, Break
<1>4. CASE Erase
  BY <1>4 DEF Erase
<1>5. CASE Wait
  BY <1>5 DEF Wait
<1>6. CASE boot
  BY <1>6 DEF boot
<1>7. CASE partition_ext2_parse
  BY <1>7 DEF partition_ext2_parse
<1>8. CASE ext2_read_file
  BY <1>8 DEF ext2_read_file
<1>9. CASE kb_handler
  BY <1>9, KeyKeepsScreen
<1>10. CASE timer_handler \/ OtherInterrupt
  BY <1>10 DEF timer_handler, OtherInterrupt
<1>11. CASE UNCHANGED vars
  BY <1>11 DEF vars
<1> QED BY <1>1, <1>2, <1>3, <1>4, <1>5, <1>6, <1>7, <1>8, <1>9, <1>10, <1>11
        DEF Next, bmain

\* Whatever handlers run, the box is that of the current menu and options until
\* boot prints, unless a key drew a menu while bmain drew its own.
THEOREM ScreenIsCurrent == Spec => []ScreenShowsState
<1>1. Init => ScreenInv
  BY DEF Init, ScreenInv, ScreenShowsState
<1>2. ScreenInv => ScreenShowsState
  BY DEF ScreenInv
<1> QED BY <1>1, <1>2, ScreenInvStep, PTL DEF Spec

-----------------------------------------------------------------------------
(* Where lines are printed. *)

\* Lines of part p are printed where they belong, now and after a new line.
Ready(p) == tm_cursor = At(p) /\ tm_line_reset = p /\ tm_color = Color(p)

\* A part of the frame and the menu are ready from where they were placed on; the
\* messages are, once nothing but boot prints.  The sides of the box have no
\* colour of their own: the brand's and the menu's are the same.
LinesInv ==
  /\ shape \in 1 .. 4
  /\ (pc = "place" /\ shape # 1) \/ (DrawingFrame /\ shape # 4) => tm_color = 7
  /\ DrawingFrame /\ ~ smudged => Ready(Frame[shape])
  /\ pc \in {"top", "bottom"} => Ready("menu")
  /\ pc \in {"booting", "scan", "parse", "direct", "sind", "parsed", "elf", "load"} =>
       ~ listening /\ Ready("messages")

LEMMA PrintKeepsReady ==
  ASSUME NEW p, Ready(p), PrintLine \/ UNCHANGED pen
  PROVE  Ready(p)'
BY DEF Ready, PrintLine, At, pen

LEMMA SkeletonKeepsLines ==
  ASSUME LinesInv, draw_menu_skeleton
  PROVE  LinesInv'
<1> USE DEF DrawingFrame
<1>1. CASE pc = "place"
  <2>1. pc' = "first" /\ shape' = shape /\ smudged' = FALSE
        /\ tm_cursor' = At(Frame[shape]) /\ tm_line_reset' = Frame[shape]
        /\ tm_color' = IF Frame[shape] \in {"brand", "logo"} THEN Color(Frame[shape])
                       ELSE tm_color
    BY <1>1 DEF draw_menu_skeleton, Pen
  <2>2. shape = 1 \/ shape = 2 \/ shape = 3 \/ shape = 4
    BY DEF LinesInv
  <2>3. tm_color' = Color(Frame[shape]) /\ (shape # 4 => tm_color' = 7)
    <3>1. /\ Frame[1] = "brand" /\ Frame[2] = "left" /\ Frame[3] = "right" /\ Frame[4] = "logo"
          /\ Color("brand") = 7 /\ Color("left") = 7 /\ Color("right") = 7
      BY DEF Frame, Color
    <3>2. shape # 1 => tm_color = 7
      BY <1>1 DEF LinesInv
    <3>3. CASE shape = 1 \/ shape = 4
      BY <2>1, <3>1, <3>3
    <3>4. CASE shape = 2 \/ shape = 3
      BY <2>1, <3>1, <3>2, <3>4
    <3> QED BY <2>2, <3>3, <3>4
  <2>4. Ready(Frame[shape])'
    BY <2>1, <2>3 DEF Ready, At, Frame, Color
  <2> QED BY <1>1, <2>1, <2>3, <2>4 DEF LinesInv
<1>2. CASE pc = "first" \/ pc = "second"
  <2>1. PrintLine /\ smudged' = smudged
    BY <1>2 DEF draw_menu_skeleton
  <2>2. CASE pc = "first"
    <3>1. pc' = "second" /\ shape' = shape
      BY <2>2 DEF draw_menu_skeleton
    <3>2. ~ smudged => Ready(Frame[shape])'
      BY <2>1, <2>2, <3>1, PrintKeepsReady DEF LinesInv
    <3> QED BY <2>1, <2>2, <3>1, <3>2 DEF LinesInv, PrintLine
  <2>3. CASE pc = "second" /\ shape < 4
    <3>1. pc' = "place" /\ shape' = shape + 1
      BY <2>3 DEF draw_menu_skeleton
    <3> QED BY <2>1, <2>3, <3>1 DEF LinesInv, PrintLine
  <2>4. CASE pc = "second" /\ ~ (shape < 4)
    <3>1. pc' = "clear" /\ shape' = shape
      BY <2>4 DEF draw_menu_skeleton
    <3> QED BY <3>1 DEF LinesInv
  <2> QED BY <1>2, <2>2, <2>3, <2>4
<1> QED BY <1>1, <1>2 DEF draw_menu_skeleton

\* A handler that prints says so if it does while a part of the frame is printed.
LEMMA KeyKeepsLines ==
  ASSUME LinesInv, kb_handler
  PROVE  LinesInv'
<1> USE DEF DrawingFrame
<1>1. shape' = shape /\ listening' = listening /\ listening
  BY DEF kb_handler, booted
<1>2. CASE \E n, o : Redraw(n, o)
  <2>1. /\ tm_cursor' = tm_cursor /\ tm_line_reset' = "menu" /\ tm_color' = 7 /\ pc' = pc
        /\ DrawingFrame => smudged'
    BY <1>2 DEF Redraw, RestoreCursor, Color
  <2> QED BY <1>1, <2>1 DEF LinesInv, Ready, Color
<1>3. CASE Prompt
  <2>1. /\ tm_cursor' = tm_cursor /\ tm_line_reset' = tm_line_reset /\ tm_color' = 7
        /\ pc' = pc /\ (DrawingFrame => smudged')
    BY <1>3 DEF Prompt, RestoreCursor, Color
  <2> QED BY <1>1, <2>1 DEF LinesInv, Ready, Color
<1>4. CASE UNCHANGED <<pen, smudged>> /\ (pc' = pc \/ pc' = "reset")
  BY <1>1, <1>4 DEF LinesInv, Ready, pen
<1>5. \/ \E n, o : Redraw(n, o)
      \/ Prompt
      \/ UNCHANGED <<pen, smudged>> /\ (pc' = pc \/ pc' = "reset")
  BY DEF kb_handler, reboot
<1> QED BY <1>2, <1>3, <1>4, <1>5

LEMMA BootKeepsLines ==
  ASSUME LinesInv, boot \/ partition_ext2_parse \/ ext2_read_file
  PROVE  LinesInv'
<1>1. shape' = shape
  BY DEF boot, partition_ext2_parse, ext2_read_file, menu
<1>2. CASE pc = "boot"
  BY <1>1, <1>2 DEF boot, partition_ext2_parse, ext2_read_file, Uninstall, Pen, LinesInv,
     Ready, DrawingFrame
<1>3. CASE pc \in {"booting", "scan", "parse", "direct", "sind", "parsed", "elf", "load", "call"}
  <2>1. pc' \in {"scan", "parse", "direct", "sind", "parsed", "elf", "load", "call", "kernel",
                "halted", "endless"}
    BY <1>3 DEF boot, partition_ext2_parse, ext2_read_file
  <2>2. listening' = listening
    BY <1>3 DEF boot, partition_ext2_parse, ext2_read_file, booted
  <2>3. PrintLine \/ UNCHANGED pen
    BY <1>3 DEF boot, partition_ext2_parse, ext2_read_file, Message
  <2>4. CASE pc = "call"
    <3>1. pc' = "kernel"
      BY <2>4 DEF boot, partition_ext2_parse, ext2_read_file
    <3> QED BY <1>1, <3>1 DEF LinesInv, DrawingFrame
  <2>5. CASE pc # "call"
    <3>1. Ready("messages") /\ ~ listening
      BY <1>3, <2>5 DEF LinesInv
    <3>2. Ready("messages")'
      BY <2>3, <3>1, PrintKeepsReady
    <3> QED BY <1>1, <2>1, <2>2, <3>1, <3>2 DEF LinesInv, DrawingFrame
  <2> QED BY <2>4, <2>5
<1> QED BY <1>2, <1>3 DEF boot, partition_ext2_parse, ext2_read_file

LEMMA LinesInvStep == LinesInv /\ [Next]_vars => LinesInv'
<1> SUFFICES ASSUME LinesInv, [Next]_vars PROVE LinesInv'
  OBVIOUS
<1>1. CASE draw_menu_skeleton
  BY <1>1, SkeletonKeepsLines
<1>2. CASE draw_menu_main
  <2>1. shape' = shape
    BY <1>2 DEF draw_menu_main
  <2>2. CASE pc = "clear" \/ pc = "current"
    BY <1>2, <2>1, <2>2 DEF draw_menu_main, Pen, LinesInv, Ready, DrawingFrame
  <2>3. CASE pc = "top"
    <3>1. pc' = "bottom" /\ PrintLine
      BY <1>2, <2>3 DEF draw_menu_main
    <3>2. Ready("menu")'
      BY <2>3, <3>1, PrintKeepsReady DEF LinesInv
    <3> QED BY <2>1, <3>1, <3>2 DEF LinesInv, DrawingFrame
  <2>4. CASE pc = "bottom"
    BY <1>2, <2>1, <2>4 DEF draw_menu_main, LinesInv, DrawingFrame
  <2> QED BY <1>2, <2>2, <2>3, <2>4 DEF draw_menu_main
<1>3. CASE Countdown \/ Erase \/ Wait
  <2>1. shape' = shape
    BY <1>3 DEF Countdown, Erase, Wait
  <2>2. pc' \in {"loop", "time", "erase", "test", "wait", "boot", "awake", "hlt"}
    BY <1>3 DEF Countdown, Erase, Wait, Break
  <2> QED BY <2>1, <2>2 DEF LinesInv, DrawingFrame
<1>4. CASE boot \/ partition_ext2_parse \/ ext2_read_file
  BY <1>4, BootKeepsLines
<1>5. CASE kb_handler
  BY <1>5, KeyKeepsLines
<1>6. CASE timer_handler \/ OtherInterrupt
  BY <1>6 DEF timer_handler, OtherInterrupt, booted, pen, LinesInv, Ready, DrawingFrame
<1>7. CASE UNCHANGED vars
  BY <1>7 DEF vars, LinesInv, Ready, DrawingFrame
<1> QED BY <1>1, <1>2, <1>3, <1>4, <1>5, <1>6, <1>7 DEF Next, bmain

\* A key that comes while a part of the frame is printed displaces lines of that
\* part only; the lines of the menu and of boot stand where they belong.
THEOREM LinesAreInPlace == Spec => []LinesInPlace
<1>1. Init => LinesInv
  BY DEF Init, LinesInv, DrawingFrame
<1>2. LinesInv => LinesInPlace
  BY DEF LinesInv, LinesInPlace, Ready
<1> QED BY <1>1, <1>2, LinesInvStep, PTL DEF Spec

=============================================================================
