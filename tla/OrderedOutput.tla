--------------------------- MODULE OrderedOutput ---------------------------
(* What every parallel Mandelbrot program promises: the picture appears on  *)
(* the terminal as a single thread would draw it, line by line and, within  *)
(* a line, piece by piece, and nothing follows it.                          *)
EXTENDS Integers

CONSTANTS
    y_chars,  \* lines of the picture
    pieces    \* writes that one line takes: its points and the newline

VARIABLE last   \* <<line, piece>> of the last write

vars == <<last>>

Blank == <<-1, pieces - 1>>
Complete == <<y_chars - 1, pieces - 1>>

\* The write that continues the picture.
Successor(w) == IF w[2] = pieces - 1 THEN <<w[1] + 1, 0>> ELSE <<w[1], w[2] + 1>>

Init == last = Blank

Draw == last # Complete /\ last' = Successor(last)

Spec == Init /\ [][Draw]_vars
=============================================================================
