------------------------------- MODULE Shell -------------------------------
(***************************************************************************)
(* The command line of shell/shell.c: the buffer the keys edit, the history*)
(* of commands, and what the screen shows of it.                           *)
(*                                                                         *)
(* Strings are the C strings of the code: arrays whose text ends at the    *)
(* first NUL and is followed by what was there before.  The screen is a    *)
(* ring of rows; the row of the prompt has one cell per column after the   *)
(* prompt, of the others it is only known whether something was drawn on   *)
(* them.  draw_char paints the strokes of a character over what is there,  *)
(* and only draw_rect removes anything.  A command is the number of lines  *)
(* it prints, or clear; those that stop the machine are left out, and what *)
(* the commands do elsewhere is in the other modules.                      *)
(***************************************************************************)
EXTENDS Integers, Sequences

CONSTANTS
    SHELL_BUFFER_SIZE,  \* 256
    HISTORY_SIZE,       \* 16
    Printable,          \* the printable characters
    REDRAW_COLUMNS,     \* columns shell_redraw_cmd clears       (90)
    LINE_COLUMNS,       \* columns shell_clear_line clears       (91; cmd_clear 92)
    FB_COLUMNS,         \* columns from the prompt to the edge of the screen (152 of 1280 pixels)
    SCAN_COLUMNS,       \* columns of a scan line, margin and prompt included (160)
    ROWS,               \* rows between shell_start_y and max_y  (46)
    CLEAR_ROWS,         \* rows that cmd_clear reaches           (26)
    MaxLines,           \* bound: lines a command prints
    MaxKeys             \* bound: keys in a behaviour

ASSUME ShellAssumption ==
    /\ SHELL_BUFFER_SIZE \in Nat \ {0} /\ HISTORY_SIZE \in Nat \ {0}
    /\ REDRAW_COLUMNS \in 0 .. LINE_COLUMNS /\ LINE_COLUMNS \in Nat
    /\ REDRAW_COLUMNS <= SHELL_BUFFER_SIZE
    /\ SCAN_COLUMNS \in Nat \ {0} /\ FB_COLUMNS \in 0 .. SCAN_COLUMNS
    /\ ROWS \in Nat \ {0} /\ CLEAR_ROWS \in 1 .. ROWS
    /\ MaxLines \in Nat /\ MaxKeys \in Nat

VARIABLES
    cmd_buffer, cmd_pos,
    history, history_count, history_pos,
    column,             \* shell_x: columns from the end of the prompt
    row,                \* shell_y
    cells,              \* what is drawn in the row after the prompt
    drawn,              \* rows with something on them
    executed,           \* history: the text shell_execute was last given
    clean,              \* history: the row was empty when the prompt came
    fits,               \* history: nothing of the line was drawn past the edge
    keys                \* bounded counter

lineVars == << cmd_buffer, cmd_pos >>
historyVars == << history, history_count, history_pos >>
screenVars == << column, row, cells, drawn, clean, fits >>
shellVars == << lineVars, historyVars, screenVars, executed, keys >>

----------------------------------------------------------------------------
(* C strings                                                               *)

NUL == "nul"

ASSUME NulAssumption == NUL \notin Printable

Bytes == 0 .. SHELL_BUFFER_SIZE - 1
Buffer == [Bytes -> Printable \cup {NUL}]

shell_strlen(s) == CHOOSE n \in Bytes : s[n] = NUL /\ \A k \in 0 .. n - 1 : s[k] # NUL

\* Everything up to the NUL and the NUL itself; the rest stays.
shell_strcpy(dst, src) ==
    [n \in Bytes |-> IF n <= shell_strlen(src) THEN src[n] ELSE dst[n]]

Text(s, n) == [k \in 1 .. n |-> s[k - 1]]
String(s) == Text(s, shell_strlen(s))

----------------------------------------------------------------------------
(* The screen                                                              *)

Columns == 0 .. SHELL_BUFFER_SIZE - 1
Blank == "blank"
Smudge == "smudge"      \* strokes of several characters, or of unknown ones

\* There is no check at the edge of the screen: the pixels come out on the next
\* scan line, on its margin and prompt first, of which nothing is recorded here,
\* and then after the prompt again.
Lands(col) ==
    IF col < FB_COLUMNS THEN {col}
    ELSE {k \in Columns : k < FB_COLUMNS /\ (col - k) % SCAN_COLUMNS = 0}

draw_char(row_cells, col, c) ==
    [k \in Columns |-> IF k \notin Lands(col) THEN row_cells[k]
                       ELSE IF row_cells[k] = Blank THEN c ELSE Smudge]

Cleared(row_cells, n) == [col \in Columns |-> IF col < n THEN Blank ELSE row_cells[col]]

\* A row as it is found.
Found(r, on) == [col \in Columns |-> IF r \in on THEN Smudge ELSE Blank]

\* The cells after the first n characters have been drawn one by one.
Drawn(row_cells, buffer, n) ==
    LET after[k \in 0 .. n] ==
          IF k = 0 THEN row_cells ELSE draw_char(after[k - 1], k - 1, buffer[k - 1])
    IN  after[n]

\* Fault: the old text is not removed first.
shell_redraw_cmd_over(buffer, n) ==
    /\ cells' = Drawn(cells, buffer, n)
    /\ column' = n /\ fits' = (n <= FB_COLUMNS)
    /\ UNCHANGED << row, drawn, clean >>

\* The text after the prompt is removed, as far as the clearing goes, and the
\* command drawn.
shell_redraw_cmd(buffer, n) ==
    /\ cells' = Drawn(Cleared(cells, REDRAW_COLUMNS), buffer, n)
    /\ column' = n /\ fits' = (n <= FB_COLUMNS)
    /\ UNCHANGED << row, drawn, clean >>

NextRow(r) == IF r + 1 < ROWS THEN r + 1 ELSE 0

\* shell_newline and shell_prompt around a command that prints nothing.
prompt_after_nothing ==
    /\ row' = NextRow(row)
    /\ cells' = Cleared(Found(NextRow(row), drawn), LINE_COLUMNS)
    /\ drawn' = drawn \cup {row, NextRow(row)}
    /\ clean' = TRUE

\* A command prints n lines: shell_print goes down a row after each, and
\* clears the row only when it starts again at the top.
prompt_after_output(n) ==
    LET rows == {(NextRow(row) + k) % ROWS : k \in 0 .. n - 1}
        last == (NextRow(row) + n) % ROWS
        on == drawn \cup {row} \cup rows
    IN  /\ row' = last
        /\ cells' = Cleared(Found(last, on), IF last = 0 THEN LINE_COLUMNS ELSE 0)
        /\ drawn' = on \cup {last}
        /\ clean' = (last = 0 \/ last \notin on)

\* cmd_clear empties the upper part of the screen and goes to the top.
prompt_after_clear ==
    /\ row' = 0
    /\ cells' = Cleared(Found(0, drawn), LINE_COLUMNS)
    /\ drawn' = {0} \cup {r \in drawn \cup {row, NextRow(row)} : r >= CLEAR_ROWS}
    /\ clean' = TRUE

\* shell_newline, the command and shell_prompt.
shell_execute(text) ==
    /\ executed' = text
    /\ column' = 0 /\ fits' = TRUE
    /\ \/ prompt_after_nothing
       \/ \E n \in 1 .. MaxLines : prompt_after_output(n)
       \/ prompt_after_clear

----------------------------------------------------------------------------
(* shell_process_char                                                      *)

\* Non-empty commands are kept; a full history loses its oldest.
SavedHistory(buffer) ==
    IF cmd_pos = 0 THEN history
    ELSE IF history_count < HISTORY_SIZE
    THEN [history EXCEPT ![history_count] = shell_strcpy(@, buffer)]
    ELSE [h \in 0 .. HISTORY_SIZE - 1 |->
            IF h < HISTORY_SIZE - 1 THEN shell_strcpy(history[h], history[h + 1])
            ELSE shell_strcpy(history[h], buffer)]

\* Fault: the command is not terminated.
Terminated_not(buffer) == buffer

Terminated(buffer) == [buffer EXCEPT ![cmd_pos] = NUL]

enter ==
    LET buffer == Terminated(cmd_buffer)
        count == IF cmd_pos > 0 /\ history_count < HISTORY_SIZE
                 THEN history_count + 1 ELSE history_count
    IN  /\ cmd_buffer' = buffer /\ cmd_pos' = 0
        /\ history' = SavedHistory(buffer)
        /\ history_count' = count /\ history_pos' = count
        /\ shell_execute(String(buffer))

\* draw_rect, unlike draw_char, stops at the edge: what was drawn past it stays.
backspace ==
    /\ cmd_pos > 0
    /\ cmd_pos' = cmd_pos - 1
    /\ column' = column - 1
    /\ cells' = [k \in Columns |->
                   IF k = column - 1 /\ k < FB_COLUMNS THEN Blank ELSE cells[k]]
    /\ UNCHANGED << cmd_buffer, historyVars, row, drawn, clean, fits, executed >>

escape ==
    /\ cmd_pos' = 0 /\ cmd_buffer' = [cmd_buffer EXCEPT ![0] = NUL]
    /\ shell_redraw_cmd(cmd_buffer, 0)
    /\ UNCHANGED << historyVars, executed >>

\* An older or a newer command takes the place of the line.
call_back(h) ==
    LET buffer == shell_strcpy(cmd_buffer, history[h])
    IN  /\ history_pos' = h
        /\ cmd_buffer' = buffer
        /\ cmd_pos' = shell_strlen(buffer)
        /\ shell_redraw_cmd(buffer, shell_strlen(buffer))
        /\ UNCHANGED << history, history_count, executed >>

up == history_pos > 0 /\ call_back(history_pos - 1)

down ==
    \/ history_pos < history_count - 1 /\ call_back(history_pos + 1)
    \/ /\ history_pos = history_count - 1
       /\ history_pos' = history_count
       /\ cmd_pos' = 0 /\ cmd_buffer' = [cmd_buffer EXCEPT ![0] = NUL]
       /\ shell_redraw_cmd(cmd_buffer, 0)
       /\ UNCHANGED << history, history_count, executed >>

printable(c) ==
    /\ cmd_pos < SHELL_BUFFER_SIZE - 1
    /\ cmd_buffer' = [cmd_buffer EXCEPT ![cmd_pos] = c] /\ cmd_pos' = cmd_pos + 1
    /\ cells' = draw_char(cells, column, c) /\ column' = column + 1
    /\ fits' = (fits /\ column < FB_COLUMNS)
    /\ UNCHANGED << historyVars, row, drawn, clean, executed >>

shell_process_char ==
    \/ enter \/ backspace \/ escape \/ up \/ down
    \/ \E c \in Printable : printable(c)

----------------------------------------------------------------------------
\* shell_init: an empty screen and the prompt.
ShellInit ==
    /\ cmd_buffer = [n \in Bytes |-> NUL] /\ cmd_pos = 0
    /\ history = [h \in 0 .. HISTORY_SIZE - 1 |-> [n \in Bytes |-> NUL]]
    /\ history_count = 0 /\ history_pos = 0
    /\ column = 0 /\ row = 0 /\ drawn = {0} /\ clean = TRUE /\ fits = TRUE
    /\ cells = [col \in Columns |-> Blank]
    /\ executed = << >> /\ keys = 0

\* shell_run: the next key, or there is none and the thread yields.
shell_run ==
    \/ keys < MaxKeys /\ keys' = keys + 1 /\ shell_process_char
    \/ UNCHANGED shellVars

ShellNext == shell_run

ShellSpec == ShellInit /\ [][ShellNext]_shellVars

----------------------------------------------------------------------------
(* Properties                                                              *)

\* The buffers hold text, and the positions lie in them.
ShellTypeOK ==
    /\ cmd_buffer \in Buffer /\ cmd_pos \in Bytes
    /\ history \in [0 .. HISTORY_SIZE - 1 -> Buffer]
    /\ history_count \in 0 .. HISTORY_SIZE /\ history_pos \in 0 .. history_count
    /\ column \in Columns /\ row \in 0 .. ROWS - 1 /\ drawn \subseteq 0 .. ROWS - 1
    /\ cells \in [Columns -> Printable \cup {Blank, Smudge}]

Editor == INSTANCE LineEditor
          WITH Chars <- Printable, Size <- HISTORY_SIZE, Limit <- SHELL_BUFFER_SIZE - 1,
               line <- Text(cmd_buffer, cmd_pos),
               past <- [h \in 1 .. history_count |-> String(history[h - 1])],
               at <- history_pos, ran <- executed

\* The command line is a line editor: what Enter runs is the line as it was
\* edited, and what the arrows call back is the text of the last commands,
\* although the arrays keep the ends of earlier, longer texts
\* (shell_process_char, shell_strcpy).
ImplementsLineEditor == Editor!LineSpec

\* What the screen shows after the prompt is the line: the characters typed or
\* called back, at their places, and nothing of what was there before, in the
\* columns that shell_redraw_cmd clears - if the row was empty when the prompt
\* came to it, and if nothing was drawn past the edge of the screen since then or
\* since the last redraw: draw_char has no check there and draws over the line.
ScreenShowsCommand ==
    /\ column = cmd_pos
    /\ clean /\ fits => \A col \in 0 .. REDRAW_COLUMNS - 1 :
                            cells[col] = IF col < cmd_pos THEN cmd_buffer[col] ELSE Blank

\* shell.c:561 "Helper to clear and redraw current command line": the same in
\* every column a command can reach.
WholeLineShown ==
    clean => \A col \in Columns :
                cells[col] = IF col < cmd_pos THEN cmd_buffer[col] ELSE Blank

\* shell.c:71 "Clear old line": the prompt comes to an empty row.
PromptOnEmptyRow == clean
=============================================================================
