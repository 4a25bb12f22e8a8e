-------------------------------- MODULE Shell --------------------------------
(***************************************************************************)
(* The line editor of the kernel shell (shell/sh.rs) on the console it     *)
(* prints to: one step is one byte of input, handle_input with everything  *)
(* it prints.  A buffer is the sequence of its first len bytes.            *)
(***************************************************************************)
EXTENDS Console

CONSTANTS CmdBufSize,       \* CMD_BUF_SIZE, 256
          HistorySize,      \* HISTORY_SIZE, 16
          ShellCommands,    \* SHELL_COMMANDS, a sequence of texts
          Letters,          \* printable bytes that are typed, a blank among them
          CommandOutputs,   \* what a command prints: whole lines
          ShellCols, ShellRows

NoCursor == -1
Prompt == <<">", " ">>
MaxLine == CmdBufSize - 1

ShellNew ==
    [buf |-> <<>>, esc |-> "None", history |-> [i \in 0 .. HistorySize - 1 |-> <<>>], head |-> 0, count |-> 0,
     cursor |-> NoCursor, draft |-> <<>>, con |-> WriteStr(ConsoleInit(ShellCols, ShellRows), Prompt)]

Show(s, text) == [s EXCEPT !.con = WriteStr(@, text)]
Times(ch, n) == [i \in 1 .. n |-> ch]
HistorySlot(s, i) == (s.head + i) % HistorySize
ExitHistoryBrowse(s) == [s EXCEPT !.cursor = NoCursor, !.draft = <<>>]
RedrawLine(s, previous) ==
    LET clear == Max({0, previous - Len(s.buf)})
    IN  Show(s, <<"cr">> \o Prompt \o s.buf \o Times(" ", clear) \o Times("bs", clear))

\* trim_command_bytes
Inked(cmd) == {i \in DOMAIN cmd : cmd[i] # " "}
Trimmed(cmd) == IF Inked(cmd) = {} THEN <<>> ELSE SubSeq(cmd, Min(Inked(cmd)), Max(Inked(cmd)))

\* Mutant of SaveHistory: a full history is overwritten without moving its head.
SaveHistoryStuck(s, line) ==
    LET cmd == Trimmed(line)
    IN  IF cmd = <<>> \/ (s.count > 0 /\ s.history[HistorySlot(s, s.count - 1)] = cmd) THEN s
        ELSE IF s.count < HistorySize THEN [s EXCEPT !.history[HistorySlot(s, s.count)] = cmd, !.count = @ + 1]
        ELSE [s EXCEPT !.history[s.head] = cmd]
SaveHistory(s, line) ==
    LET cmd == Trimmed(line)
    IN  IF cmd = <<>> \/ (s.count > 0 /\ s.history[HistorySlot(s, s.count - 1)] = cmd) THEN s
        ELSE IF s.count < HistorySize THEN [s EXCEPT !.history[HistorySlot(s, s.count)] = cmd, !.count = @ + 1]
        ELSE [s EXCEPT !.history[s.head] = cmd, !.head = (@ + 1) % HistorySize]

LoadHistoryEntry(s, i) == [s EXCEPT !.cursor = i, !.buf = s.history[HistorySlot(s, i)]]
HistoryUp(s) ==
    IF s.count = 0 THEN s
    ELSE LET from == IF s.cursor = NoCursor THEN [s EXCEPT !.draft = s.buf] ELSE s
             next == IF s.cursor = NoCursor THEN s.count - 1 ELSE Minus(s.cursor, 1)
         IN  RedrawLine(LoadHistoryEntry(from, next), Len(s.buf))
HistoryDown(s) ==
    IF s.cursor = NoCursor THEN s
    ELSE RedrawLine(IF s.cursor + 1 < s.count THEN LoadHistoryEntry(s, s.cursor + 1)
                    ELSE [s EXCEPT !.cursor = NoCursor, !.buf = s.draft, !.draft = <<>>], Len(s.buf))

\* complete_command
CommonPrefix(a, b) ==
    SubSeq(a, 1, Max({n \in 0 .. Min({Len(a), Len(b)}) : SubSeq(a, 1, n) = SubSeq(b, 1, n)}))
RECURSIVE CommonPrefixOf(_)
CommonPrefixOf(ms) == IF Len(ms) = 1 THEN ms[1] ELSE CommonPrefix(CommonPrefixOf(Front(ms)), Last(ms))
RECURSIVE Listing(_)
Listing(ms) == IF ms = <<>> THEN <<>> ELSE Head(ms) \o <<" ", " ">> \o Listing(Tail(ms))
SetLine(s, line) == [s EXCEPT !.buf = SubSeq(line, 1, Min({Len(line), MaxLine}))]
CompleteCommand(s) ==
    LET matches == SelectSeq(ShellCommands, LAMBDA cmd : IsPrefix(s.buf, cmd))
        out == ExitHistoryBrowse(s)
        lcp == CommonPrefixOf(matches)
    IN  IF s.buf = <<>> THEN Show(s, <<"nl">> \o Listing(ShellCommands) \o <<"nl">> \o Prompt)
        ELSE IF " " \in ToSet(s.buf) \/ matches = <<>> THEN s
        ELSE IF Len(matches) = 1 THEN RedrawLine(SetLine(out, matches[1] \o <<" ">>), Len(s.buf))
        ELSE IF Len(lcp) > Len(s.buf) THEN RedrawLine(SetLine(out, lcp), Len(s.buf))
        ELSE Show(out, <<"nl">> \o Listing(matches) \o <<"nl">> \o Prompt \o s.buf)

\* The end of a line; "output" is what execute_command prints.
EnterLine(s, output) ==
    LET saved == SaveHistory(Show(s, <<"nl">>), s.buf)
    IN  Show(ExitHistoryBrowse([saved EXCEPT !.buf = <<>>, !.esc = "None"]), output \o Prompt)
Interrupt(s) == Show(ExitHistoryBrowse([s EXCEPT !.buf = <<>>, !.esc = "None"]), <<"^", "C", "nl">> \o Prompt)

EscapeStep(s, byte) ==
    LET after == [s EXCEPT !.esc = IF s.esc # "Esc" THEN "None"
                                   ELSE CASE byte = "[" -> "Csi" [] byte = "O" -> "Ss3" [] OTHER -> "None"]
    IN  CASE s.esc # "Esc" /\ byte = "A" -> HistoryUp(after)
          [] s.esc # "Esc" /\ byte = "B" -> HistoryDown(after)
          [] OTHER -> after
\* Mutant of Backspace: the glyph stays on the screen.
BackspaceNoErase(s) == IF s.buf = <<>> THEN s ELSE Show(ExitHistoryBrowse([s EXCEPT !.buf = Front(@)]), <<"bs">>)
Backspace(s) == IF s.buf = <<>> THEN s ELSE Show(ExitHistoryBrowse([s EXCEPT !.buf = Front(@)]), <<"bs", " ", "bs">>)
TypeLetter(s, byte) ==
    IF Len(s.buf) < MaxLine THEN Show(ExitHistoryBrowse([s EXCEPT !.buf = Append(@, byte)]), <<byte>>) ELSE s
HandleInput(s, byte, output) ==
    CASE s.esc # "None" -> EscapeStep(s, byte)
      [] s.esc = "None" /\ byte = "esc" -> [s EXCEPT !.esc = "Esc"]
      [] s.esc = "None" /\ byte \in {"bs", "del"} -> Backspace(s)
      [] s.esc = "None" /\ byte = "tab" -> CompleteCommand(s)
      [] s.esc = "None" /\ byte \in {"nl", "cr"} -> EnterLine(s, output)
      [] s.esc = "None" /\ byte = "intr" -> Interrupt(s)
      [] s.esc = "None" /\ byte \in Letters -> TypeLetter(s, byte)
      [] OTHER -> s

----------------------------------------------------------------------------
\* The plain editor: a line, the lines before it, the one that is shown (0 for
\* the line itself), what was typed before looking back, and whether the line
\* has at some time been too long for one row of the screen.
PlainShell == [line |-> <<>>, past |-> <<>>, at |-> 0, draft |-> <<>>, wrapped |-> FALSE]
Edit(r, line) == [r EXCEPT !.line = line, !.at = 0, !.draft = <<>>]
Recall(r, i) == [r EXCEPT !.at = i, !.line = r.past[i]]
NewPrompt(r) == [Edit(r, <<>>) EXCEPT !.wrapped = FALSE]
Remembered(past, t) ==
    IF t = <<>> \/ (past # <<>> /\ Last(past) = t) THEN past
    ELSE SubSeq(Append(past, t), Max({1, Len(past) + 2 - HistorySize}), Len(past) + 1)
\* The longest text that every command beginning with the line begins with; the
\* only one is followed by a blank.
Completed(line) ==
    LET all == {cmd \in ToSet(ShellCommands) : IsPrefix(line, cmd)}
        shared == {p \in UNION {Prefixes(cmd) : cmd \in all} : \A cmd \in all : IsPrefix(p, cmd)}
        longest == CHOOSE p \in shared : \A q \in shared : Len(q) <= Len(p)
    IN  IF Cardinality(all) = 1 THEN SubSeq(longest \o <<" ">>, 1, Min({Len(longest) + 1, MaxLine})) ELSE longest
Completable(line) ==
    line # <<>> /\ " " \notin ToSet(line) /\ \E i \in DOMAIN ShellCommands : IsPrefix(line, ShellCommands[i])
PlainKey(r, key) ==
    CASE key = "up" -> IF r.past = <<>> THEN r
                       ELSE IF r.at = 0 THEN Recall([r EXCEPT !.draft = r.line], Len(r.past))
                       ELSE Recall(r, Max({1, r.at - 1}))
      [] key = "down" -> IF r.at = 0 THEN r
                         ELSE IF r.at < Len(r.past) THEN Recall(r, r.at + 1) ELSE Edit(r, r.draft)
      [] key = "erase" -> IF r.line = <<>> THEN r ELSE Edit(r, Front(r.line))
      [] key = "tab" -> IF r.line = <<>> THEN [r EXCEPT !.wrapped = FALSE]
                        ELSE IF ~Completable(r.line) THEN r
                        ELSE [Edit(r, Completed(r.line)) EXCEPT !.wrapped = @ /\ Completed(r.line) # r.line]
      [] key = "enter" -> NewPrompt([r EXCEPT !.past = Remembered(@, Trimmed(r.line))])
      [] key = "intr" -> NewPrompt(r)
      [] key \in Letters -> IF Len(r.line) < MaxLine THEN Edit(r, Append(r.line, key)) ELSE r
      [] OTHER -> r
TooLong(r) == [r EXCEPT !.wrapped = @ \/ Len(Prompt) + Len(r.line) >= ShellCols]
\* The key that a byte completes.
KeyOf(esc, byte) ==
    CASE esc = "Esc" -> "none"
      [] esc \in {"Csi", "Ss3"} -> IF byte = "A" THEN "up" ELSE IF byte = "B" THEN "down" ELSE "none"
      [] esc = "None" /\ byte \in {"bs", "del"} -> "erase"
      [] esc = "None" /\ byte \in {"nl", "cr"} -> "enter"
      [] OTHER -> byte

ShellNext ==
    /\ kind = "shell"
    /\ \E byte \in Letters \cup {"esc", "[", "O", "A", "B", "bs", "tab", "nl", "intr"} :
       \E output \in IF byte = "nl" THEN CommandOutputs ELSE {<<>>} :
         Call("shell", HandleInput(obj, byte, output), TooLong(PlainKey(ref, KeyOf(obj.esc, byte))))

\* The line, the history and what is being looked at are those of the plain
\* editor, whatever the order of keys and however often the ring of lines went
\* round (sh.rs:138, 173, 194, 234); and while the line fits, the row that the
\* cursor is in shows the prompt, the line and nothing else, with the cursor
\* behind it, through every redraw and listing (sh.rs:86, 303).
ShellAgrees ==
    LET con == obj.con
        row == [x \in 1 .. con.cols |-> con.cells[con.y][x - 1][1]]
        shown == Prompt \o obj.buf
    IN  /\ obj.buf = ref.line /\ obj.cursor + 1 = ref.at /\ obj.draft = ref.draft
        /\ ref.past = [i \in 1 .. obj.count |-> obj.history[HistorySlot(obj, i - 1)]]
        /\ con.x \in 0 .. con.cols - 1 /\ con.y \in 0 .. con.rows - 1
        /\ ref.wrapped \/ (row = shown \o Times(" ", con.cols - Len(shown)) /\ con.x = Len(shown))
=============================================================================
