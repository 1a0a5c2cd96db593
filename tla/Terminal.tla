------------------------------ MODULE Terminal ------------------------------
(***************************************************************************)
(* The text screen of video/terminal.c: the cells of the video buffer, the *)
(* cursor and the colour, changed one character at a time.  `text` records *)
(* what has been printed since init_terminal, for the properties.          *)
(***************************************************************************)
EXTENDS Integers, Sequences

CONSTANTS
    screen_width,
    screen_height,
    Start,          \* where the BIOS may have left the cursor
    Colors,         \* attribute bytes that set_color may be called with
    LightGrey       \* the one init_terminal sets

ASSUME TerminalAssumption ==
    /\ screen_width \in Nat \ {0}
    /\ screen_height \in Nat \ {0}
    /\ Start \subseteq 0..(screen_width * screen_height - 1)
    /\ LightGrey \in Colors

VARIABLES
    video_buffer,   \* one cell per position
    cursor,
    attributes,
    text,           \* history: every character printed, with its colour
    start           \* history: the cursor init_terminal found

termVars == <<video_buffer, cursor, attributes, text, start>>

Size == screen_width * screen_height

Cells == 0..(Size - 1)

\* What the firmware left on the screen, and what memset writes.
BiosCell == [character |-> "bios", attributes |-> LightGrey]
ZeroCell == [character |-> "zero", attributes |-> 0]

-----------------------------------------------------------------------------

\* memcpy and memset, by what they do to the cells they are given.
Memcpy(buf, dest, src, num) ==
    [i \in DOMAIN buf |->
        IF i \in dest..(dest + num - 1) THEN buf[src + (i - dest)] ELSE buf[i]]

Memset(buf, dest, num) ==
    [i \in DOMAIN buf |->
        IF i \in dest..(dest + num - 1) THEN ZeroCell ELSE buf[i]]

\* Mutant: the loop begins with the lowest row.
MutScroll(buf) ==
    LET moved[i \in 0..(screen_height - 1)] ==
            IF i = 0 THEN buf
            ELSE Memcpy(moved[i - 1], screen_width * (screen_height - 1 - i),
                        screen_width * (screen_height - i), screen_width)
    IN  Memset(moved[screen_height - 1],
               screen_width * (screen_height - 1), screen_width)

\* The rows move up one by one, from the top, and the last one is cleared.
Scroll(buf) ==
    LET moved[i \in 0..(screen_height - 1)] ==
            IF i = 0 THEN buf
            ELSE Memcpy(moved[i - 1], screen_width * (i - 1),
                        screen_width * i, screen_width)
    IN  Memset(moved[screen_height - 1],
               screen_width * (screen_height - 1), screen_width)

\* move_cursor, with the buffer as the caller has left it.
MoveCursor(position, buf) ==
    \/ /\ position < Size
       /\ cursor' = position
       /\ video_buffer' = buf
    \/ /\ position >= Size
       /\ cursor' = screen_width * (screen_height - 1)
       /\ video_buffer' = Scroll(buf)

PrintChar(c) ==
    /\ \/ /\ c = "\n"
          /\ MoveCursor((cursor \div screen_width + 1) * screen_width,
                        video_buffer)
       \/ /\ c # "\n"
          /\ MoveCursor(cursor + 1,
                        [video_buffer EXCEPT
                            ![cursor] = [character |-> c,
                                         attributes |-> attributes]])
    /\ text' = Append(text, [character |-> c, attributes |-> attributes])
    /\ UNCHANGED <<attributes, start>>

SetColor(color) ==
    /\ attributes # color
    /\ attributes' = color
    /\ UNCHANGED <<video_buffer, cursor, text, start>>

\* init_terminal reads the cursor back from the controller.
InitTerminal ==
    /\ cursor' \in Start
    /\ start' = cursor'
    /\ attributes' = LightGrey
    /\ UNCHANGED <<video_buffer, text>>

TermInit ==
    /\ video_buffer = [i \in Cells |-> BiosCell]
    /\ cursor = 0
    /\ attributes = 0
    /\ text = <<>>
    /\ start = 0

-----------------------------------------------------------------------------
(* The screen as a window on a roll of paper *)

\* Where the paper stands before each character, counted in cells from the
\* first row of the screen at init_terminal; no row is ever left twice.
Paper ==
    LET pos[k \in 0..Len(text)] ==
            IF k = 0 THEN start
            ELSE IF text[k].character = "\n"
                 THEN screen_width * (pos[k - 1] \div screen_width + 1)
                 ELSE pos[k - 1] + 1
    IN  pos

\* The cells of the rows that have left the screen.
RolledOff ==
    LET row == Paper[Len(text)] \div screen_width
    IN  IF row < screen_height THEN 0
        ELSE screen_width * (row - (screen_height - 1))

\* The screen shows the last screen_height rows of what was printed: the cell
\* of every character that has not scrolled away holds it in its colour, the
\* others hold what the firmware left or, in a row scrolled in, nothing; and
\* the cursor is on the screen, behind the last character.
ScreenShowsTail ==
    LET paper == Paper
        off == RolledOff
    IN  /\ cursor = paper[Len(text)] - off
        /\ cursor \in Cells
        /\ \A i \in Cells :
              LET here == {k \in 1..Len(text) :
                             /\ paper[k - 1] = off + i
                             /\ text[k].character # "\n"}
              IN  \/ \E k \in here : video_buffer[i] = text[k]
                  \/ here = {} /\ video_buffer[i] =
                        IF off + i < Size THEN BiosCell ELSE ZeroCell

=============================================================================
