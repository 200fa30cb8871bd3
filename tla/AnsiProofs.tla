---------------------------- MODULE AnsiProofs ----------------------------
(***************************************************************************)
(* The terminal's parser keeps its types and its cursor on the screen, for *)
(* every size of the screen and every stream of bytes; and it scrolls one  *)
(* line at a time as long as nobody asks for position 0.                   *)
(***************************************************************************)
EXTENDS Ansi, SequenceTheorems, TLAPS

\* The two halves of the inductive invariant need each other only in one
\* direction: the cursor's moves depend on the arguments being numbers.
Inv == TypeOK /\ CursorInside

\* Numbers of 16 bits: U16 is what it should be on them, whatever WORD is.
LEMMA WordIsLarge == WORD \in Nat /\ WORD > 256
BY DEF WORD

\* A conversion to uint16_t gives one, and leaves one alone.
LEMMA U16IsWord ==
  ASSUME NEW n \in Int
  PROVE  U16(n) \in 0 .. WORD - 1 /\ (n \in 0 .. WORD - 1 => U16(n) = n)
BY WordIsLarge DEF U16

\* A conversion to uint8_t gives one.
LEMMA U8IsByte == ASSUME NEW n \in Int PROVE U8(n) \in 0 .. 255
BY DEF U8

\* A new argument is pushed only where there is room for it.
LEMMA PushedFits ==
  ASSUME TypeOK
  PROVE  Pushed \in Seq(0 .. WORD - 1) /\ Len(Pushed) <= MaxArgs
<1>1. args \in Seq(0 .. WORD - 1) /\ arg \in 0 .. WORD - 1 /\ Len(args) <= MaxArgs
  BY DEF TypeOK
<1>2. CASE Len(args) < MaxArgs
  <2>1. Pushed = Append(args, arg)
    BY <1>2 DEF Pushed
  <2>2. Append(args, arg) \in Seq(0 .. WORD - 1) /\ Len(Append(args, arg)) = Len(args) + 1
    BY <1>1
  <2>3. MaxArgs \in Nat /\ Len(args) \in Nat
    BY <1>1, AnsiAssumption
  <2> QED BY <1>2, <2>1, <2>2, <2>3
<1>3. CASE ~ (Len(args) < MaxArgs)
  BY <1>1, <1>3 DEF Pushed
<1> QED BY <1>2, <1>3

\* What an argument can be: a byte.
LEMMA ArgIsByte ==
  ASSUME TypeOK, NEW i \in {1, 2} PROVE Arg(i) \in 0 .. 255
<1>1. Pushed \in Seq(0 .. WORD - 1)
  BY PushedFits
<1>2. CASE i <= Len(Pushed)
  <2>1. Len(Pushed) \in Nat
    BY <1>1
  <2>2. i \in 1 .. Len(Pushed)
    BY <1>2, <2>1
  <2>3. Pushed[i] \in 0 .. WORD - 1
    BY <1>1, <2>2, ElementOfSeq
  <2>4. Pushed[i] \in Int
    BY <2>3, WordIsLarge
  <2>5. Arg(i) = U8(Pushed[i])
    BY <1>2 DEF Arg
  <2> QED BY <2>4, <2>5, U8IsByte
<1>3. CASE ~ (i <= Len(Pushed))
  BY <1>3 DEF Arg
<1> QED BY <1>2, <1>3

\* ansi_check_cursor brings any uint16_t position onto the screen.
LEMMA CheckedIsInside ==
  ASSUME NEW x \in 0 .. WORD - 1, NEW y \in 0 .. WORD - 1, ansi_check_cursor(x, y)
  PROVE  cur_x' \in 0 .. width - 1 /\ cur_y' \in 0 .. height - 1
<1>1. U16(y + 1) \in 0 .. WORD - 1
  BY U16IsWord
<1>2. width \in 1 .. WORD - 1 /\ height \in 1 .. WORD - 1 /\ WORD \in Nat
  BY AnsiAssumption, WordIsLarge
<1> QED BY <1>1, <1>2 DEF ansi_check_cursor

\* Moves by an argument stay on the screen.
LEMMA StepsAreInside ==
  ASSUME Inv
  PROVE  /\ Up \in 0 .. height - 1 /\ Down \in 0 .. height - 1
         /\ Left \in 0 .. width - 1 /\ Right \in 0 .. width - 1
<1>1. Arg(1) \in 0 .. 255
  BY ArgIsByte DEF Inv
<1>2. /\ cur_x \in 0 .. width - 1 /\ cur_y \in 0 .. height - 1
      /\ width \in Nat /\ height \in Nat
  BY AnsiAssumption, WordIsLarge DEF Inv, CursorInside
<1>3. Up \in 0 .. height - 1 /\ Down \in 0 .. height - 1
  BY <1>1, <1>2 DEF Up, Down
<1>4. Left \in 0 .. width - 1 /\ Right \in 0 .. width - 1
  BY <1>1, <1>2 DEF Left, Right
<1> QED BY <1>3, <1>4

\* A position is a uint16_t, and on the screen if it is not 0.
LEMMA PositionIsWord ==
  ASSUME NEW n \in 0 .. 255, NEW of \in 1 .. WORD - 1
  PROVE  /\ Position(n, of) \in 0 .. WORD - 1
         /\ n # 0 => Position(n, of) \in 0 .. of - 1
<1> DEFINE m == (IF of < n THEN of ELSE n) - 1
<1>1. m \in Int /\ (n # 0 => m \in 0 .. of - 1 /\ m \in 0 .. WORD - 1)
  BY WordIsLarge
<1>2. Position(n, of) = U16(m)
  BY DEF Position
<1> HIDE DEF m
<1> QED BY <1>1, <1>2, U16IsWord

\* Whatever a final byte does to the cursor leaves it on the screen.
LEMMA MoveIsInside ==
  ASSUME Inv, NEW c \in Bytes, Move(c)
  PROVE  cur_x' \in 0 .. width - 1 /\ cur_y' \in 0 .. height - 1
<1>1. CASE c \in {CSI_ED, CSI_EL} /\ scrolled' = 0 /\ UNCHANGED cursor
  BY <1>1 DEF Inv, CursorInside, cursor
<1>2. CASE \E x \in 0 .. WORD - 1, y \in 0 .. WORD - 1 : ansi_check_cursor(x, y)
  BY <1>2, CheckedIsInside
<1>3. Arg(1) \in 0 .. 255 /\ Arg(2) \in 0 .. 255
  BY ArgIsByte DEF Inv
<1>4. /\ Position(Arg(1), width) \in 0 .. WORD - 1 /\ Position(Arg(2), width) \in 0 .. WORD - 1
      /\ Position(Arg(1), height) \in 0 .. WORD - 1
  BY <1>3, PositionIsWord, AnsiAssumption
<1>5. /\ Up \in 0 .. WORD - 1 /\ Down \in 0 .. WORD - 1 /\ Left \in 0 .. WORD - 1
      /\ Right \in 0 .. WORD - 1 /\ cur_x \in 0 .. WORD - 1 /\ cur_y \in 0 .. WORD - 1
      /\ scur_x \in 0 .. WORD - 1 /\ scur_y \in 0 .. WORD - 1 /\ 0 \in 0 .. WORD - 1
  <2>1. width \in 1 .. WORD - 1 /\ height \in 1 .. WORD - 1 /\ WORD \in Nat
    BY AnsiAssumption, WordIsLarge
  <2>2. CursorInside
    BY DEF Inv
  <2> QED BY <2>1, <2>2, StepsAreInside DEF CursorInside
<1> QED BY <1>1, <1>2, <1>4, <1>5 DEF Move

\* Without a position 0 a final byte does not scroll.
LEMMA MoveDoesNotScroll ==
  ASSUME Inv, NEW c \in Bytes, Move(c), ~ AsksForZero(c) PROVE scrolled' = 0
<1>1. CASE c \in {CSI_ED, CSI_EL} /\ scrolled' = 0 /\ UNCHANGED cursor
  BY <1>1
<1>2. CASE \E x \in 0 .. width - 1, y \in 0 .. height - 1 : ansi_check_cursor(x, y)
  BY <1>2, AnsiAssumption DEF ansi_check_cursor
<1>3. Arg(1) \in 0 .. 255 /\ Arg(2) \in 0 .. 255
  BY ArgIsByte DEF Inv
<1>4. c = CSI_CHA => Position(Arg(1), width) \in 0 .. width - 1
  BY <1>3, PositionIsWord, AnsiAssumption DEF AsksForZero
<1>5. c \in {CSI_CUP, CSI_HVP} => /\ Position(Arg(1), height) \in 0 .. height - 1
                                 /\ Position(Arg(2), width) \in 0 .. width - 1
  BY <1>3, PositionIsWord, AnsiAssumption DEF AsksForZero
<1>6. /\ cur_x \in 0 .. width - 1 /\ scur_x \in 0 .. width - 1 /\ 0 \in 0 .. width - 1
      /\ cur_y \in 0 .. height - 1 /\ scur_y \in 0 .. height - 1
  BY AnsiAssumption DEF Inv, CursorInside
<1> QED BY <1>1, <1>2, <1>4, <1>5, <1>6, StepsAreInside DEF Move

\* A byte outside an escape sequence asks for a column of uint16_t.
LEMMA ColumnIsWord ==
  ASSUME Inv, NEW c \in Bytes PROVE ColumnAfter(c) \in 0 .. WORD - 1
<1>1. cur_x \in 0 .. width - 1 /\ width \in 1 .. WORD - 1 /\ WORD \in Nat
  BY AnsiAssumption, WordIsLarge DEF Inv, CursorInside
<1>2. cur_x \in 0 .. WORD - 1 /\ cur_x + 1 \in Int /\ (cur_x \div 8 + 1) * 8 \in Int
  BY <1>1
<1> QED BY <1>2, U16IsWord DEF ColumnAfter

-----------------------------------------------------------------------------
\* ansi_init and the cursor the BIOS leaves establish the invariant.
LEMMA InitInv == Init => Inv
<1> SUFFICES ASSUME Init PROVE Inv
  OBVIOUS
<1>1. TypeOK
  BY AnsiAssumption, WordIsLarge DEF Init, TypeOK, LEVEL_NONE, LEVEL_OSC
<1>2. CursorInside
  BY AnsiAssumption DEF Init, CursorInside
<1> QED BY <1>1, <1>2 DEF Inv

\* Attributes stay in their ranges under every SGR mode.
LEMMA SgrKeepsTypes ==
  ASSUME TypeOK, ansi_sgr
  PROVE  text_mode' \subseteq ModesSet /\ color_fg' \in 0 .. 15 /\ color_bg' \in 0 .. 15
<1>1. Arg(1) \in 0 .. 255
  BY ArgIsByte
<1>2. text_mode' \subseteq ModesSet
  BY DEF TypeOK, ansi_sgr
<1>3. FG \in 0 .. 15 /\ BG \in 0 .. 15 /\ color_fg \in 0 .. 15 /\ color_bg \in 0 .. 15
  BY AnsiAssumption DEF TypeOK
<1>4. color_fg' = Chosen(Arg(1), 30, 90, FG, color_fg)
      /\ color_bg' = Chosen(Arg(1), 40, 100, BG, color_bg)
  BY DEF ansi_sgr
<1>5. ASSUME NEW mode \in 0 .. 255, NEW first \in Nat, NEW bright \in Nat,
             NEW default \in 0 .. 15, NEW now \in 0 .. 15
      PROVE  Chosen(mode, first, bright, default, now) \in 0 .. 15
  BY <1>5 DEF Chosen
<1> QED BY <1>1, <1>2, <1>3, <1>4, <1>5

\* Every byte keeps it: one step per action, one per part under it.
LEMMA NextInv == Inv /\ [Next]_vars => Inv'
<1> SUFFICES ASSUME Inv, [Next]_vars PROVE Inv'
  OBVIOUS
<1> USE AnsiAssumption
<1>1. CASE UNCHANGED vars
  BY <1>1 DEF Inv, TypeOK, CursorInside, vars, parser, cursor, saved, attributes
<1>2. ASSUME NEW c \in Bytes, Character(c) PROVE Inv'
  <2>1. TypeOK'
    BY <1>2 DEF Inv, TypeOK, Character, attributes, LEVEL_NONE, LEVEL_ESC, LEVEL_OSC
  <2>2. PICK x \in 0 .. WORD - 1, y \in 0 .. WORD - 1 : ansi_check_cursor(x, y)
    <3>1. /\ cur_x \in 0 .. WORD - 1 /\ cur_y \in 0 .. WORD - 1 /\ cur_x - 1 \in Int
          /\ cur_y + 1 \in Int /\ 0 \in 0 .. WORD - 1
          /\ (cur_x # 0 => cur_x - 1 \in 0 .. WORD - 1)
      BY WordIsLarge DEF Inv, CursorInside
    <3>2. U16(cur_y + 1) \in 0 .. WORD - 1 /\ ColumnAfter(c) \in 0 .. WORD - 1
      BY <3>1, U16IsWord, ColumnIsWord
    <3> QED BY <1>2, <3>1, <3>2 DEF Character
  <2>3. CursorInside'
    BY <1>2, <2>2, CheckedIsInside DEF Inv, CursorInside, Character, saved
  <2> QED BY <2>1, <2>3 DEF Inv
<1>3. ASSUME NEW c \in Bytes, ansi_handle_esc(c) PROVE Inv'
  <2>1. esc_level' \in LEVEL_NONE .. LEVEL_OSC
    BY <1>3 DEF Inv, TypeOK, ansi_handle_esc, parser, LEVEL_NONE, LEVEL_ESC, LEVEL_CSI, LEVEL_OSC
  <2>2. \/ args' = << >> /\ arg_buf_i' = 0 /\ arg' = 0
        \/ UNCHANGED <<args, arg_buf_i, arg>>
    BY <1>3 DEF ansi_handle_esc, parser
  <2>3. << >> \in Seq(0 .. WORD - 1) /\ Len(<< >>) = 0 /\ 0 <= MaxArgs
        /\ 0 \in 0 .. MaxDigits /\ 0 \in 0 .. WORD - 1
    BY WordIsLarge
  <2>4. TypeOK'
    BY <1>3, <2>1, <2>2, <2>3 DEF Inv, TypeOK, ansi_handle_esc, attributes
  <2>5. CursorInside'
    BY <1>3 DEF Inv, CursorInside, ansi_handle_esc, cursor, saved
  <2> QED BY <2>4, <2>5 DEF Inv
<1>4. ASSUME NEW c \in Bytes, Digit(c) PROVE Inv'
  <2>1. TypeOK'
    <3>1. arg \in Int /\ c \in Int
      BY WordIsLarge DEF Inv, TypeOK
    <3>2. U16(10 * arg + (c - 48)) \in 0 .. WORD - 1
      BY <3>1, U16IsWord
    <3>3. arg_buf_i' \in 0 .. MaxDigits /\ arg' \in 0 .. WORD - 1
      BY <1>4, <3>2 DEF Inv, TypeOK, Digit
    <3> QED BY <1>4, <3>3 DEF Inv, TypeOK, Digit, attributes
  <2>2. CursorInside'
    BY <1>4 DEF Inv, CursorInside, Digit, cursor, saved
  <2> QED BY <2>1, <2>2 DEF Inv
<1>5. ASSUME NEW c \in Bytes, Separator(c) PROVE Inv'
  <2>1. TypeOK'
    BY <1>5, PushedFits, WordIsLarge DEF Inv, TypeOK, Separator, attributes
  <2>2. CursorInside'
    BY <1>5 DEF Inv, CursorInside, Separator, cursor, saved
  <2> QED BY <2>1, <2>2 DEF Inv
<1>6. ASSUME NEW c \in Bytes, Final(c) PROVE Inv'
  <2>1. text_mode' \subseteq ModesSet /\ color_fg' \in 0 .. 15 /\ color_bg' \in 0 .. 15
    <3>1. CASE c = CSI_SGR
      BY <1>6, <3>1, SgrKeepsTypes DEF Inv, Final
    <3>2. CASE c # CSI_SGR
      BY <1>6, <3>2 DEF Inv, TypeOK, Final, attributes
    <3> QED BY <3>1, <3>2
  <2>2. TypeOK'
    BY <1>6, <2>1, PushedFits, WordIsLarge DEF Inv, TypeOK, Final, LEVEL_NONE, LEVEL_OSC
  <2>3. cur_x' \in 0 .. width - 1 /\ cur_y' \in 0 .. height - 1
    BY <1>6, MoveIsInside DEF Final
  <2>4. scur_x' \in 0 .. width - 1 /\ scur_y' \in 0 .. height - 1
    BY <1>6 DEF Inv, CursorInside, Final, saved
  <2> QED BY <2>2, <2>3, <2>4 DEF Inv, CursorInside
<1> QED BY <1>1, <1>2, <1>3, <1>4, <1>5, <1>6 DEF Next, ansi_handle

\* The invariant holds throughout.
LEMMA InvHolds == Spec => []Inv
BY InitInv, NextInv, PTL DEF Spec

\* Type correctness of the parser (ansi.c): the arrays args and arg_buf are never
\* overrun and colors stay in the palette, for every stream of bytes.
THEOREM TypeCorrect == Spec => []TypeOK
<1>1. Inv => TypeOK
  BY DEF Inv
<1> QED BY <1>1, InvHolds, PTL

\* The cursor, and the saved one, is on the screen after every byte (ansi.c,
\* ansi_check_cursor), for every size of the screen, position 0 included.
THEOREM CursorStaysInside == Spec => []CursorInside
<1>1. Inv => CursorInside
  BY DEF Inv
<1> QED BY <1>1, InvHolds, PTL

-----------------------------------------------------------------------------
\* ansi_check_cursor given a line of the screen scrolls only by one line, when
\* the column wraps on the last line.
LEMMA ScrollFromLine ==
  ASSUME NEW x \in 0 .. WORD - 1, NEW y \in 0 .. height - 1, ansi_check_cursor(x, y), scrolled' # 0
  PROVE  x >= width /\ scrolled' = 1 /\ y = height - 1 /\ cur_y' = height - 1
BY AnsiAssumption, WordIsLarge, U16IsWord DEF ansi_check_cursor

\* And from the line below the current one at a column of the screen.
LEMMA ScrollFromNext ==
  ASSUME NEW x \in 0 .. width - 1, NEW y \in 0 .. height - 1,
         ansi_check_cursor(x, U16(y + 1)), scrolled' # 0
  PROVE  scrolled' = 1 /\ y = height - 1 /\ cur_y' = height - 1
BY AnsiAssumption, WordIsLarge, U16IsWord DEF ansi_check_cursor

\* The bytes that scroll: a line feed of some kind, or a glyph at the last column.
LEMMA StepScrolls ==
  ASSUME Careful = TRUE, Inv, Next, scrolled' # 0
  PROVE  scrolled' = 1 /\ cur_y = height - 1 /\ cur_y' = height - 1
<1> USE AnsiAssumption
<1>1. PICK c \in Bytes : ansi_handle(c)
  BY DEF Next
<1>2. CASE Character(c)
  <2>1. CASE \E x \in 0 .. width - 1 : ansi_check_cursor(x, U16(cur_y + 1))
    BY <2>1, ScrollFromNext DEF Inv, CursorInside
  <2>2. CASE \E x \in 0 .. WORD - 1 : ansi_check_cursor(x, cur_y)
    BY <2>2, ScrollFromLine DEF Inv, CursorInside
  <2>3. /\ 0 \in 0 .. width - 1 /\ cur_x \in 0 .. width - 1 /\ 0 \in 0 .. WORD - 1
        /\ cur_x \in 0 .. WORD - 1 /\ (cur_x # 0 => cur_x - 1 \in 0 .. WORD - 1)
        /\ ColumnAfter(c) \in 0 .. WORD - 1
    BY WordIsLarge, ColumnIsWord DEF Inv, CursorInside
  <2> QED BY <1>2, <2>1, <2>2, <2>3 DEF Character
<1>3. CASE Final(c)
  BY <1>3, MoveDoesNotScroll DEF Final
<1>4. CASE ansi_handle_esc(c) \/ Digit(c) \/ Separator(c)
  BY <1>4 DEF ansi_handle_esc, Digit, Separator
<1> QED BY <1>1, <1>2, <1>3, <1>4 DEF ansi_handle

\* As long as no sequence asks for position 0, the screen scrolls line by line
\* from its last line (ansi.c, "check if we need to scroll").
THEOREM ScrollsOnlyAtBottom ==
  ASSUME Careful = TRUE PROVE Spec => ScrollsAtBottom
<1>1. ASSUME Inv, [Next]_vars
      PROVE  [scrolled' # 0 => scrolled' = 1 /\ cur_y = height - 1 /\ cur_y' = height - 1]_vars
  <2>1. CASE Next
    BY <1>1, <2>1, StepScrolls
  <2>2. CASE UNCHANGED vars
    BY <2>2
  <2> QED BY <1>1, <2>1, <2>2
<1> QED BY <1>1, InvHolds, PTL DEF Spec, ScrollsAtBottom
=============================================================================
