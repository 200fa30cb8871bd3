-------------------------------- MODULE Ansi --------------------------------
(***************************************************************************)
(* The terminal's character stream, src/kernel/tty/ansi.c: the parser of   *)
(* escape sequences, the cursor and the text attributes, with what the     *)
(* text mode terminal (tty/tm.c) does to the cursor in its callback.  One  *)
(* step is one call of ansi_handle with one byte.                          *)
(*                                                                         *)
(* Colors are those of color_fmt = 0, indices of the 16 VGA colors.  A bit *)
(* of text_mode is named by the SGR number that sets it.  The digits in    *)
(* arg_buf are kept as their number (arg_buf_i) and their value.           *)
(***************************************************************************)
EXTENDS Integers, Sequences

CONSTANTS width, height,   \* of the screen, uint16_t
          MaxArgs,         \* LEN(ctx->args)
          MaxDigits,       \* LEN(ctx->arg_buf)
          FG, BG,          \* default colors
          Bytes,           \* the bytes written to the terminal
          Careful          \* whether positions 0 are not asked for

WORD == 65536   \* values of a uint16_t
U16(n) == n % WORD
U8(n) == n % 256

ASSUME AnsiAssumption ==
  /\ width \in 1 .. WORD - 1 /\ height \in 1 .. WORD - 1
  /\ MaxArgs \in Nat \ {0} /\ MaxDigits \in Nat \ {0}
  /\ FG \in 0 .. 15 /\ BG \in 0 .. 15
  /\ Bytes \subseteq 0 .. 255
  /\ Careful \in BOOLEAN

VARIABLES esc_level, args, arg_buf_i, arg,
          cur_x, cur_y, scur_x, scur_y,
          text_mode, color_fg, color_bg,
          scrolled   \* the lines the last byte made the screen scroll

parser == <<esc_level, args, arg_buf_i, arg>>
cursor == <<cur_x, cur_y>>
saved  == <<scur_x, scur_y>>
attributes == <<text_mode, color_fg, color_bg>>
vars == <<parser, cursor, saved, attributes, scrolled>>

LEVEL_NONE == 0
LEVEL_ESC  == 1
LEVEL_CSI  == 2
LEVEL_OSC  == 3

C0_BS == 8
C0_HT == 9
C0_LF == 10
C0_VT == 11
C0_FF == 12
C0_CR == 13
C0_ESC == 27
DEL == 127
Digits == 48 .. 57
Separators == 58 .. 63
Fe_CSI == 91
Fe_OSC == 93
CSI_CUU == 65
CSI_CUD == 66
CSI_CUF == 67
CSI_CUB == 68
CSI_CNL == 69
CSI_CPL == 70
CSI_CHA == 71
CSI_CUP == 72
CSI_ED == 74
CSI_EL == 75
CSI_HVP == 102
CSI_SGR == 109
CSI_SCP == 115
CSI_RCP == 117

\* ansi_init clears the parser; tm_term_install puts the cursor where the BIOS
\* left it, and the context is in zeroed memory.
Init ==
  /\ esc_level = LEVEL_NONE /\ args = << >> /\ arg_buf_i = 0 /\ arg = 0
  /\ cur_x \in 0 .. width - 1 /\ cur_y \in 0 .. height - 1
  /\ scur_x = 0 /\ scur_y = 0
  /\ text_mode = {} /\ color_fg = FG /\ color_bg = BG
  /\ scrolled = 0

-----------------------------------------------------------------------------
\* Mutant: the column behind the last one is on the screen.
ansi_check_cursor_LastColumn(x, y) ==
  LET down == IF x > width THEN U16(y + 1) ELSE y
  IN  /\ cur_x' = IF x > width THEN 0 ELSE x
      /\ cur_y' = IF down >= height THEN height - 1 ELSE down
      /\ scrolled' = IF down >= height THEN down - height + 1 ELSE 0

\* The cursor is at column x and line y, uint16_t both: a column outside the
\* screen wraps, a line outside scrolls.
ansi_check_cursor(x, y) ==
  LET down == IF x >= width THEN U16(y + 1) ELSE y
  IN  /\ cur_x' = IF x >= width THEN 0 ELSE x
      /\ cur_y' = IF down >= height THEN height - 1 ELSE down
      /\ scrolled' = IF down >= height THEN down - height + 1 ELSE 0

-----------------------------------------------------------------------------
(* Bytes outside an escape sequence. *)

\* Where the callback for a byte that is not handled leaves the column.
ColumnAfter(c) ==
  IF c = C0_HT THEN U16((cur_x \div 8 + 1) * 8)
  ELSE IF c < 32 \/ c = DEL THEN cur_x
  ELSE U16(cur_x + 1)

Handled == {C0_BS, C0_LF, C0_CR, C0_VT, C0_FF, C0_ESC}

\* The first byte behind ESC ] is taken as text already.
Character(c) ==
  /\ esc_level \in {LEVEL_NONE, LEVEL_OSC}
  /\ esc_level' = IF c = C0_ESC THEN LEVEL_ESC ELSE LEVEL_NONE
  /\ \/ c = C0_BS            /\ ansi_check_cursor(IF cur_x = 0 THEN 0 ELSE cur_x - 1, cur_y)
     \/ c = C0_LF            /\ ansi_check_cursor(0, U16(cur_y + 1))
     \/ c = C0_CR            /\ ansi_check_cursor(0, cur_y)
     \/ c \in {C0_VT, C0_FF} /\ ansi_check_cursor(cur_x, U16(cur_y + 1))
     \/ c = C0_ESC           /\ ansi_check_cursor(cur_x, cur_y)
     \/ c \notin Handled     /\ ansi_check_cursor(ColumnAfter(c), cur_y)
  /\ UNCHANGED <<args, arg_buf_i, arg, saved, attributes>>

\* The byte behind ESC.  All but [ and ] leave the parser here.
ansi_handle_esc(c) ==
  /\ esc_level = LEVEL_ESC
  /\ \/ c = Fe_CSI /\ esc_level' = LEVEL_CSI /\ args' = << >> /\ arg_buf_i' = 0 /\ arg' = 0
     \/ c = Fe_OSC /\ esc_level' = LEVEL_OSC /\ UNCHANGED <<args, arg_buf_i, arg>>
     \/ c \notin {Fe_CSI, Fe_OSC} /\ UNCHANGED parser
  /\ scrolled' = 0
  /\ UNCHANGED <<cursor, saved, attributes>>

-----------------------------------------------------------------------------
(* Control sequences. *)

Digit(c) ==
  /\ esc_level = LEVEL_CSI /\ c \in Digits
  /\ IF arg_buf_i < MaxDigits
     THEN arg_buf_i' = arg_buf_i + 1 /\ arg' = U16(10 * arg + (c - 48))
     ELSE UNCHANGED <<arg_buf_i, arg>>
  /\ scrolled' = 0
  /\ UNCHANGED <<esc_level, args, cursor, saved, attributes>>

\* Mutant: the arguments are not counted.
Pushed_NoLimit == Append(args, arg)

\* No digits count as a 0.
Pushed == IF Len(args) < MaxArgs THEN Append(args, arg) ELSE args

Separator(c) ==
  /\ esc_level = LEVEL_CSI /\ c \in Separators
  /\ args' = Pushed /\ arg_buf_i' = 0 /\ arg' = 0
  /\ scrolled' = 0
  /\ UNCHANGED <<esc_level, cursor, saved, attributes>>

\* Argument i as uint8_t, 1 if there is none.  There always is a first one.
Arg(i) == IF i <= Len(Pushed) THEN U8(Pushed[i]) ELSE 1

Up    == IF cur_y < Arg(1) THEN 0 ELSE cur_y - Arg(1)

\* Mutant: the cursor may move below the screen.
Down_NoLimit == cur_y + Arg(1)

Down  == IF height - 1 - cur_y < Arg(1) THEN height - 1 ELSE cur_y + Arg(1)
Right == IF width - 1 - cur_x < Arg(1) THEN width - 1 ELSE cur_x + Arg(1)
Left  == IF cur_x < Arg(1) THEN 0 ELSE cur_x - Arg(1)

\* Line or column n of as many as there are, counted from 1: 0 gives the last of uint16_t.
Position(n, of) == U16((IF of < n THEN of ELSE n) - 1)

Moves == {CSI_CUU, CSI_CUD, CSI_CUF, CSI_CUB, CSI_CNL, CSI_CPL, CSI_CHA, CSI_CUP, CSI_HVP,
          CSI_RCP, CSI_ED, CSI_EL}

\* What a final byte does to the cursor; ED and EL return without checking it.
Move(c) ==
  \/ c = CSI_CUU /\ ansi_check_cursor(cur_x, Up)
  \/ c = CSI_CPL /\ ansi_check_cursor(0, Up)
  \/ c = CSI_CUD /\ ansi_check_cursor(cur_x, Down)
  \/ c = CSI_CNL /\ ansi_check_cursor(0, Down)
  \/ c = CSI_CUF /\ ansi_check_cursor(Right, cur_y)
  \/ c = CSI_CUB /\ ansi_check_cursor(Left, cur_y)
  \/ c = CSI_CHA /\ ansi_check_cursor(Position(Arg(1), width), cur_y)
  \/ c \in {CSI_CUP, CSI_HVP}
       /\ ansi_check_cursor(Position(Arg(2), width), Position(Arg(1), height))
  \/ c = CSI_RCP /\ ansi_check_cursor(scur_x, scur_y)
  \/ c \in {CSI_ED, CSI_EL} /\ scrolled' = 0 /\ UNCHANGED cursor
  \/ c \notin Moves /\ ansi_check_cursor(cur_x, cur_y)

\* Position 0 is the one above or to the left of the screen.
AsksForZero(c) ==
  \/ c \in {CSI_CHA, CSI_HVP, CSI_CUP} /\ Arg(1) = 0
  \/ c \in {CSI_HVP, CSI_CUP} /\ Arg(2) = 0

\* ansi_sgr looks at the first argument only.
ModesSet == 1 .. 9 \union {20, 21, 51, 52, 53, 73, 74}
ModesCleared(mode) ==
  CASE mode = 0  -> ModesSet
    [] mode = 22 -> {1, 2}
    [] mode = 23 -> {3, 20}
    [] mode = 24 -> {4, 21}
    [] mode = 25 -> {5, 6}
    [] mode \in 27 .. 29 -> {mode - 20}
    [] mode = 54 -> {51, 52}
    [] mode = 55 -> {53}
    [] mode = 75 -> {73, 74}
    [] OTHER     -> {}

\* The color a mode chooses, of the eight from `first` or the bright eight.
Chosen(mode, first, bright, default, now) ==
  IF mode \in first .. first + 7 THEN mode - first
  ELSE IF mode \in bright .. bright + 7 THEN mode - bright + 8
  ELSE IF mode \in {0, first + 9} THEN default
  ELSE now

ansi_sgr ==
  LET mode == Arg(1)
  IN  /\ text_mode' = (text_mode \ ModesCleared(mode)) \union ({mode} \intersect ModesSet)
      /\ color_fg' = Chosen(mode, 30, 90, FG, color_fg)
      /\ color_bg' = Chosen(mode, 40, 100, BG, color_bg)

\* Any other byte ends the sequence, also one that means nothing.
Final(c) ==
  /\ esc_level = LEVEL_CSI /\ c \notin Digits \union Separators
  /\ Careful => ~ AsksForZero(c)
  /\ esc_level' = LEVEL_NONE /\ args' = Pushed /\ arg_buf_i' = 0 /\ arg' = 0
  /\ Move(c)
  /\ IF c = CSI_SCP THEN scur_x' = cur_x /\ scur_y' = cur_y ELSE UNCHANGED saved
  /\ IF c = CSI_SGR THEN ansi_sgr ELSE UNCHANGED attributes

-----------------------------------------------------------------------------
ansi_handle(c) ==
  Character(c) \/ ansi_handle_esc(c) \/ Digit(c) \/ Separator(c) \/ Final(c)

Next == \E c \in Bytes : ansi_handle(c)

Spec == Init /\ [][Next]_vars

-----------------------------------------------------------------------------
\* Type correctness: the arrays of arguments and digits are not overrun, and
\* colors are indices of the VGA palette.
TypeOK ==
  /\ esc_level \in LEVEL_NONE .. LEVEL_OSC
  /\ args \in Seq(0 .. WORD - 1) /\ Len(args) <= MaxArgs
  /\ arg_buf_i \in 0 .. MaxDigits /\ arg \in 0 .. WORD - 1
  /\ text_mode \subseteq ModesSet
  /\ color_fg \in 0 .. 15 /\ color_bg \in 0 .. 15

\* After every byte the cursor, and the place saved for it, is on the screen,
\* whatever arguments a sequence had: the callback writes to video memory at
\* cur_x + cur_y * width.
CursorInside ==
  /\ cur_x \in 0 .. width - 1 /\ cur_y \in 0 .. height - 1
  /\ scur_x \in 0 .. width - 1 /\ scur_y \in 0 .. height - 1

\* The screen scrolls only when the cursor goes down from the last line, and by
\* one line: the callback subtracts the lines from height and copies the rest.
ScrollsAtBottom ==
  [][scrolled' # 0 => scrolled' = 1 /\ cur_y = height - 1 /\ cur_y' = height - 1]_vars
=============================================================================
