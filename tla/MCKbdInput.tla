----------------------------- MODULE MCKbdInput -----------------------------
(***************************************************************************)
(* Four keys of us_keymap (Enter, space, A, and Up, which types more than  *)
(* one byte), both modifiers, a pipe that holds two bytes and a line       *)
(* buffer of two.  Up's "\033[A" is shortened to two bytes.                *)
(***************************************************************************)
EXTENDS KbdInput

CONSTANTS Enter, A, Up, LShift, LCtrl,   \* keys
          Bar,                           \* the space bar
  nl, sp, esc, a, cap, soh       \* bytes: \n " " \033 a A \001

\* Only A has an entry in all three rows of us_keymap.
MCKeymap ==
  [m \in {LShift, LCtrl, NoMod} |->
    [k \in PlainKeys |->
       CASE k = A /\ m = NoMod      -> <<a>>
         [] k = A /\ m = LShift     -> <<cap>>
         [] k = A /\ m = LCtrl      -> <<soh>>
         [] k = Enter /\ m = NoMod  -> <<nl>>
         [] k = Bar /\ m = NoMod    -> <<sp>>
         [] k = Up /\ m = NoMod     -> <<esc, cap>>
         [] OTHER                   -> << >>]]

=============================================================================
