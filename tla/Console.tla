------------------------------ MODULE Console -------------------------------
(***************************************************************************)
(* The console of console.c: the line editor of consoleintr() on the ring  *)
(* input.buf, the history of commands, consoleread() with its sleep and    *)
(* wakeup, consolewrite(), and the cursor that cgaputc() moves.            *)
(*                                                                         *)
(* cons.lock makes the handling of one key and a turn of consoleread()     *)
(* steps.  The four indices are only used modulo INPUT_BUF, subtracted and *)
(* compared, so they are all lowered by INPUT_BUF once r reaches it: this  *)
(* is the console as long as fewer than 2^31 characters were typed.  The   *)
(* cells of buf outside r .. end-1 are never read and hold Blank.  What is *)
(* on the screen is left out, where the cursor is on it is not.            *)
(***************************************************************************)
EXTENDS Integers, SequencesExt

CONSTANTS
    Printable,             \* ordinary characters
    Marker,                \* one of them, typed once, in the first line that is remembered
    INPUT_BUF, MAX_HISTORY,
    USHORT,                \* the indices of the history are below USHORT
    ROWS, COLS,            \* of the screen; the last row stays empty
    Readers, ReadSizes,    \* who calls consoleread(), and for how much
    MaxLines               \* bound on the lines that are remembered, 1 with the marker

MAX_HISTORY_PLUS == MAX_HISTORY + 1
NL == "nl"
CR == "cr"
EOF == "^D"
Ends == {NL, EOF}
Blank == "blank"
PANIC == -1

VARIABLES
    input,       \* struct input, and the cursor pos: column + COLS * row
    hist,        \* cmd_history: a command without the character that ended it
    rd,          \* the readers: where they are, how much they still want
    lines        \* how many lines were remembered so far

vars == <<input, hist, rd, lines>>

Outside == [pc |-> "user", n |-> 0, got |-> FALSE, killed |-> FALSE]

Init ==
    /\ input = [buf |-> [i \in 0 .. INPUT_BUF - 1 |-> Blank], r |-> 0, w |-> 0, e |-> 0, end |-> 0, pos |-> 0]
    /\ hist = [cmds |-> [i \in 0 .. MAX_HISTORY |-> <<>>], first |-> 0, cur |-> 0, size |-> 0]
    /\ rd = [p \in Readers |-> Outside]
    /\ lines = 0

-----------------------------------------------------------------------------
(* What the functions of console.c make of the input s                     *)

Cell(s, i) == s.buf[i % INPUT_BUF]

\* The characters from index i up to index j
Window(s, i, j) == [k \in 1 .. j - i |-> Cell(s, i + k - 1)]

Moved(pos, c, tail) ==
    CASE c = NL -> pos + COLS - (pos % COLS)
      [] c \in {"backspace", "left"} -> IF pos > 0 THEN pos - 1 ELSE pos
      [] c = "clear" -> 0
      [] c = "right" -> IF pos < ROWS * COLS THEN pos + 1 ELSE pos
      [] c = "endofline" -> pos + tail
      [] OTHER -> pos + 1

\* Mutant: the screen scrolls one row too late
cgaputcLate(s, c) ==
    LET pos == Moved(s.pos, c, s.end - s.e) IN
    [s EXCEPT !.pos = CASE s.pos = PANIC \/ pos > ROWS * COLS -> PANIC
                        [] pos \div COLS > ROWS - 1 -> pos - COLS
                        [] OTHER -> pos]

\* The cursor after cgaputc(): beyond the screen it panics, in the last row
\* the screen scrolls up by a row
cgaputc(s, c) ==
    LET pos == Moved(s.pos, c, s.end - s.e) IN
    [s EXCEPT !.pos = CASE s.pos = PANIC \/ pos > ROWS * COLS -> PANIC
                        [] pos \div COLS >= ROWS - 1 -> pos - COLS
                        [] OTHER -> pos]

Putn(s, c, n) == FoldLeft(LAMBDA t, i : cgaputc(t, c), s, [i \in 1 .. n |-> i])

kill_line(s) ==
    LET stop == CHOOSE j \in s.w .. s.end :
                    /\ j = s.w \/ Cell(s, j - 1) = NL
                    /\ \A k \in j + 1 .. s.end : k # s.w /\ Cell(s, k - 1) # NL
        t == [cgaputc(s, "endofline") EXCEPT !.e = stop, !.end = stop]
    IN Putn(t, "backspace", s.end - stop)

Put(s, c) == cgaputc([s EXCEPT !.buf[s.e % INPUT_BUF] = c, !.e = @ + 1, !.end = @ + 1], c)

\* The text of a command is put after the line was killed, without a look
\* at the room there is
Shown(s, text) == FoldLeft(Put, kill_line(s), text)

remove_char(s) ==
    IF s.e = s.w THEN s
    ELSE LET from == s.e - 1
             shift == FoldLeft(LAMBDA b, k : [b EXCEPT ![(from + k - 1) % INPUT_BUF] = b[(from + k) % INPUT_BUF]],
                               s.buf, [k \in 1 .. s.end - from |-> k])
         IN cgaputc([s EXCEPT !.buf = shift, !.e = from, !.end = @ - 1], "backspace")

clear_screen(s) ==
    Putn(cgaputc([s EXCEPT !.w = s.e, !.r = s.e, !.end = s.e], "clear"), "$", 2)

\* Mutant: they move the first one first
ShiftedRightForward(s) ==
    FoldLeft(LAMBDA b, k : [b EXCEPT ![(s.e + k) % INPUT_BUF] = b[(s.e + k - 1) % INPUT_BUF]],
             s.buf, [k \in 1 .. s.end - s.e |-> k])

\* The characters from the cursor on move to the right, the last one first
ShiftedRight(s) ==
    FoldLeft(LAMBDA b, k : [b EXCEPT ![(s.end - k + 1) % INPUT_BUF] = b[(s.end - k) % INPUT_BUF]],
             s.buf, [k \in 1 .. s.end - s.e |-> k])

\* Indices lowered, dead cells blanked
Rebased(s) ==
    LET d == IF s.r >= INPUT_BUF THEN INPUT_BUF ELSE 0 IN
    [s EXCEPT !.r = @ - d, !.w = @ - d, !.e = @ - d, !.end = @ - d,
              !.buf = [i \in DOMAIN @ |-> IF (i - s.r) % INPUT_BUF < s.end - s.r THEN @[i] ELSE Blank]]

-----------------------------------------------------------------------------
(* The history                                                             *)

push_command_to_history(s) ==
    IF s.end = s.w + 1 THEN hist
    ELSE LET last_idx == (hist.first + hist.size) % MAX_HISTORY_PLUS
             first == IF hist.size = MAX_HISTORY THEN (hist.first + 1) % MAX_HISTORY_PLUS ELSE hist.first
             size == IF hist.size < MAX_HISTORY THEN hist.size + 1 ELSE hist.size
         IN [cmds |-> [hist.cmds EXCEPT ![last_idx] = Window(s, s.w, s.end - 1)],
             first |-> first, size |-> size, cur |-> (size + first) % MAX_HISTORY_PLUS]

HistoryEnd == (hist.first + hist.size) % MAX_HISTORY_PLUS

\* cur-- on a ushort: from 0 it goes to USHORT - 1 before the remainder is taken
prev_index == ((hist.cur + USHORT - 1) % USHORT) % MAX_HISTORY_PLUS
next_index == (hist.cur + 1) % MAX_HISTORY_PLUS

-----------------------------------------------------------------------------
(* consoleintr() with one key                                              *)

\* The key was handled
Edited(s, h) == input' = Rebased(s) /\ hist' = h

Running == input.pos # PANIC

KillLine == Running /\ Edited(kill_line(input), hist) /\ UNCHANGED <<rd, lines>>
RemoveChar == Running /\ Edited(remove_char(input), hist) /\ UNCHANGED <<rd, lines>>
ClearScreen == Running /\ Edited(clear_screen(input), hist) /\ UNCHANGED <<rd, lines>>

Backward ==
    /\ Running /\ input.e > input.w
    /\ Edited(cgaputc([input EXCEPT !.e = @ - 1], "left"), hist) /\ UNCHANGED <<rd, lines>>

Forward ==
    /\ Running /\ input.e < input.end
    /\ Edited(cgaputc([input EXCEPT !.e = @ + 1], "right"), hist) /\ UNCHANGED <<rd, lines>>


show_prev_command ==
    /\ Running /\ hist.cur # hist.first
    /\ Edited(Shown(input, hist.cmds[prev_index]), [hist EXCEPT !.cur = prev_index])
    /\ UNCHANGED <<rd, lines>>

show_next_command ==
    /\ Running /\ hist.cur # HistoryEnd
    /\ Edited(Shown(input, IF next_index = HistoryEnd THEN <<>> ELSE hist.cmds[next_index]),
              [hist EXCEPT !.cur = next_index])
    /\ UNCHANGED <<rd, lines>>

HasRoom(s) == s.end - s.r < INPUT_BUF

MayType(c) == c = Marker => lines = 0 /\ \A i \in DOMAIN input.buf : input.buf[i] # Marker

Typed(c) ==
    /\ Running /\ HasRoom(input) /\ MayType(c)
    /\ Edited(Put([input EXCEPT !.buf = ShiftedRight(input)], c), hist)
    /\ UNCHANGED <<rd, lines>>


Woken == [p \in Readers |-> IF rd[p].pc = "asleep" THEN [rd[p] EXCEPT !.pc = "loop"] ELSE rd[p]]

\* A line ends.  The buffer cannot be full here: HasRoom has been tested
Commit(key) ==
    LET c == IF key = CR THEN NL ELSE key
        buf == IF key = NL THEN input.buf ELSE ShiftedRight(input)
        s == [input EXCEPT !.buf = [buf EXCEPT ![input.end % INPUT_BUF] = c], !.end = @ + 1]
    IN
    /\ Running /\ HasRoom(input)
    /\ Edited(cgaputc([s EXCEPT !.e = s.end, !.w = s.end], c), push_command_to_history(s))
    /\ rd' = Woken
    /\ lines' = IF s.end = s.w + 1 THEN lines ELSE lines + 1
    /\ lines' <= (IF \E i \in DOMAIN hist'.cmds : Contains(hist'.cmds[i], Marker) THEN 1 ELSE MaxLines)

consoleintr ==
    \/ KillLine \/ RemoveChar \/ ClearScreen \/ Backward \/ Forward
    \/ show_prev_command \/ show_next_command
    \/ \E c \in Printable : Typed(c)
    \/ \E key \in {NL, CR, EOF} : Commit(key)

-----------------------------------------------------------------------------
(* consoleread(), consolewrite() and kill()                                *)

\* consoleread() from the test of the loop on, for n more characters: it runs
\* until it has them, a line ends, or input runs out; ^D is left for the next
\* call when this one has characters to return.  A killed reader exits, and
\* another process takes its place
ReadLoop(p, n, got, killed) ==
    LET s == input
        queue == Window(s, s.r, s.w)
        stops == {i \in 1 .. Len(queue) : i <= n /\ (queue[i] \in Ends \/ i = n)}
        i == CHOOSE i \in stops : \A j \in stops : i <= j
    IN
    /\ \/ /\ stops # {}
          /\ input' = Rebased([s EXCEPT !.r = IF queue[i] = EOF /\ (got \/ i > 1) THEN @ + i - 1 ELSE @ + i])
          /\ rd' = [rd EXCEPT ![p] = Outside]
       \/ /\ stops = {}
          /\ input' = Rebased([s EXCEPT !.r = s.w])
          /\ rd' = [rd EXCEPT ![p] = IF killed THEN Outside
                                     ELSE [pc |-> "asleep", n |-> n - Len(queue), got |-> got \/ queue # <<>>,
                                           killed |-> FALSE]]
    /\ UNCHANGED <<hist, lines>>

consoleread(p) == Running /\ rd[p].pc = "user" /\ \E n \in ReadSizes : ReadLoop(p, n, FALSE, FALSE)

ReadWoken(p) == Running /\ rd[p].pc = "loop" /\ ReadLoop(p, rd[p].n, rd[p].got, rd[p].killed)

\* A program writes a character
consolewrite ==
    /\ Running
    /\ \E c \in {"x", NL} : input' = cgaputc(input, c)
    /\ UNCHANGED <<hist, rd, lines>>

\* A process that reads is killed, which wakes it up
kill(p) ==
    /\ Running /\ rd[p].pc # "user" /\ ~rd[p].killed
    /\ rd' = [rd EXCEPT ![p].killed = TRUE, ![p].pc = "loop"]
    /\ UNCHANGED <<input, hist, lines>>

Next ==
    \/ consoleintr \/ consolewrite
    \/ \E p \in Readers : consoleread(p) \/ ReadWoken(p) \/ kill(p)

Spec == Init /\ [][Next]_vars

-----------------------------------------------------------------------------
TypeOK ==
    /\ input.pos \in {PANIC} \cup 0 .. (ROWS - 1) * COLS - 1
    /\ input.r <= input.w /\ input.w <= input.e /\ input.e <= input.end
    /\ hist.first \in 0 .. MAX_HISTORY /\ hist.cur \in 0 .. MAX_HISTORY /\ hist.size \in 0 .. MAX_HISTORY

(***************************************************************************)
(* The cursor stays on the screen, whatever is typed, recalled, erased and *)
(* written by programs, and cgaputc() panics ("pos under/overflow") only   *)
(* when the cursor is sent to the end of the line over more than a row of  *)
(* characters: they are never scrolled into view while they are inserted.  *)
(***************************************************************************)
CursorMoves ==
    TypeOK' /\ (input'.pos = PANIC => input.end - input.e > COLS + 1)


\* The commands that are remembered, the oldest first
History == [i \in 1 .. hist.size |-> hist.cmds[(hist.first + i - 1) % MAX_HISTORY_PLUS]]

\* The one that was shown last: 1 is the oldest, hist.size + 1 is none
ShownLast == 1 + ((hist.cur - hist.first) % MAX_HISTORY_PLUS)

Line == Window(input, input.w, input.end)

(***************************************************************************)
(* The console is a line editor: keys edit the line at the cursor, an end  *)
(* of line enters what was edited, consoleread() takes what was entered in *)
(* order, and the last commands are remembered in order.                   *)
(***************************************************************************)
Editor == INSTANCE LineEditor WITH
    Chars <- Printable, SIZE <- INPUT_BUF, MAX <- MAX_HISTORY,
    queue <- Window(input, input.r, input.w), line <- Line,
    cursor <- input.e - input.w, hist <- History

View == Editor!vars

(***************************************************************************)
(* "Show prev command": an arrow key goes to the command before or after   *)
(* the one shown last, never past the oldest, and puts it on the line; but *)
(* from slot 0 of the ring the ushort index goes elsewhere.                *)
(***************************************************************************)
Recall ==
    hist'.cur # hist.cur /\ lines' = lines /\ hist.cur # 0 =>
        /\ ShownLast' \in {ShownLast - 1, ShownLast + 1} \cap 1 .. hist.size + 1
        /\ Line' = IF ShownLast' \in DOMAIN History THEN History[ShownLast'] ELSE <<>>

=============================================================================
