------------------------------- MODULE Console -------------------------------
(***************************************************************************)
(* The kernel console: the escape-sequence parser (tty/console/vt.rs), the *)
(* actions it asks for (tty/console/mod.rs) and the character grid of the  *)
(* frame buffer (tty/fbcon.rs).  The object is what the CONSOLE lock       *)
(* guards together with the statics of fbcon; one step is one write_str.   *)
(* A cell stands for the pixels of a glyph.                                *)
(***************************************************************************)
EXTENDS Structures, SequencesExt

CONSTANTS TabWidth,      \* 8
          MaxParams,     \* 16, the parameters a sequence can have
          MaxActions,    \* 8, the actions a character can give
          ScreenTexts,   \* the strings written to a console of kind "screen"
          ColourTexts,   \* and to one of kind "colours"
          MaxPending     \* bound on the part of a sequence that earlier writes left

Digits == <<"0", "1", "2", "3", "4", "5", "6", "7", "8", "9">>
IsDigit(ch) == ch \in ToSet(Digits)
Digit(ch) == (CHOOSE i \in DOMAIN Digits : Digits[i] = ch) - 1
Intermediates == {" ", "!", "#", "$", "%", "&"}
U16Max == 65535

----------------------------------------------------------------------------
\* Colours are <<red, green, blue>>.
DEFAULT_FG == <<204, 204, 204>>
DEFAULT_BG == <<26, 26, 46>>
DEFAULT_BG_COLOR == <<0, 0, 0>>
ANSI_COLORS ==
    << <<0, 0, 0>>, <<170, 0, 0>>, <<0, 170, 0>>, <<170, 85, 0>>,
       <<0, 0, 170>>, <<170, 0, 170>>, <<0, 170, 170>>, <<170, 170, 170>>,
       <<85, 85, 85>>, <<255, 85, 85>>, <<85, 255, 85>>, <<255, 255, 85>>,
       <<85, 85, 255>>, <<255, 85, 255>>, <<85, 255, 255>>, <<255, 255, 255>> >>
AnsiToRgb(code) ==
    IF code < 16 THEN ANSI_COLORS[code + 1]
    ELSE IF code < 232 THEN LET c == code - 16 IN <<(c \div 36) * 51, ((c \div 6) % 6) * 51, (c % 6) * 51>>
    ELSE LET gray == (code - 232) * 10 + 8 IN <<gray, gray, gray>>
BrightenRgb(rgb) == [i \in 1 .. 3 |-> Min({255, rgb[i] + 85})]

----------------------------------------------------------------------------
\* fbcon: a blank shows its background only.
Cell(ch, fg, bg) == IF ch = " " THEN <<" ", bg>> ELSE <<ch, fg, bg>>
BlankRow(c) == [x \in 0 .. c.cols - 1 |-> Cell(" ", c.fg, c.bg)]
ClearScreen(c) == [c EXCEPT !.cells = [y \in 0 .. c.rows - 1 |-> BlankRow(c)], !.x = 0, !.y = 0]
SetCursorPos(c, x, y) == IF x < c.cols /\ y < c.rows THEN [c EXCEPT !.x = x, !.y = y] ELSE c
DrawChar(c, ch) == [c EXCEPT !.cells[c.y][c.x] = Cell(ch, c.fg, c.bg)]
ScrollUp(c) == [c EXCEPT !.cells = [y \in 0 .. c.rows - 1 |-> IF y < c.rows - 1 THEN c.cells[y + 1] ELSE BlankRow(c)]]

NextLine(c) == [c EXCEPT !.x = 0, !.y = @ + 1]
\* Mutant of Wrapped: the last column is taken for one before the last.
WrappedLate(c) == IF c.x > c.cols THEN NextLine(c) ELSE c
Wrapped(c) == IF c.x >= c.cols THEN NextLine(c) ELSE c
PutChar(c, ch) ==
    LET moved ==
          CASE ch = "nl" -> NextLine(c)
            [] ch = "cr" -> [c EXCEPT !.x = 0]
            [] ch = "tab" -> Wrapped([c EXCEPT !.x = ((@ + TabWidth) \div TabWidth) * TabWidth])
            [] ch = "bs" -> IF c.x > 0 THEN DrawChar([c EXCEPT !.x = @ - 1], " ") ELSE c
            [] OTHER -> Wrapped([DrawChar(c, ch) EXCEPT !.x = @ + 1])
    IN  IF moved.y >= c.rows THEN [ScrollUp(moved) EXCEPT !.y = c.rows - 1] ELSE moved

----------------------------------------------------------------------------
\* VtParser.  An action is its name and its arguments.
ParserReset(c) == [c EXCEPT !.state = "Ground", !.params = <<>>, !.current = 0]
PushParam(c) == [c EXCEPT !.params = IF Len(@) < MaxParams THEN Append(@, c.current) ELSE @, !.current = 0]
GetParam(c, i, default) == IF i <= Len(c.params) /\ c.params[i] > 0 THEN c.params[i] ELSE default
AsU8(n) == n % 256

ExecuteCsi(c, ch) ==
    LET n == GetParam(c, 1, 1)
        mode == AsU8(GetParam(c, 1, 0))
    IN  CASE ch = "A" -> << <<"CursorUp", n>> >>
          [] ch = "B" -> << <<"CursorDown", n>> >>
          [] ch = "C" -> << <<"CursorForward", n>> >>
          [] ch = "D" -> << <<"CursorBack", n>> >>
          [] ch = "E" -> << <<"CursorDown", n>>, <<"Print", "cr">> >>
          [] ch = "F" -> << <<"CursorUp", n>>, <<"Print", "cr">> >>
          [] ch = "G" -> << <<"CursorPosition", 0, n>> >>
          [] ch \in {"H", "f"} -> << <<"CursorPosition", n, GetParam(c, 2, 1)>> >>
          [] ch = "J" -> << <<"EraseDisplay", mode>> >>
          [] ch = "m" -> [i \in DOMAIN c.params |-> <<"SetAttr", AsU8(c.params[i])>>]
          [] OTHER -> <<>>   \* erase line, scroll, save, restore and show the cursor do nothing; reports go to the serial line

\* The state and the parameters after a character, and the actions it gives.
Goto(c, state) == [c EXCEPT !.state = state]
FeedGround(c, ch) ==
    CASE ch = "esc" -> <<Goto(c, "Escape"), <<>> >>
      [] ch = "bs" -> <<c, << <<"CursorBack", 1>> >> >>
      [] ch \in {"nl", "vt", "ff"} -> <<c, << <<"Print", "nl">> >> >>
      [] ch \in {"bel", "nul"} -> <<c, <<>> >>
      [] OTHER -> <<c, << <<"Print", ch>> >> >>
FeedEscape(c, ch) ==
    CASE ch = "[" -> <<[ParserReset(c) EXCEPT !.state = "Csi"], <<>> >>
      [] ch = "]" -> <<Goto(c, "Osc"), <<>> >>
      [] ch = "P" -> <<Goto(c, "Dcs"), <<>> >>
      [] ch = "c" -> <<ParserReset(c), << <<"Reset">> >> >>
      [] ch = "D" -> <<Goto(c, "Ground"), << <<"CursorDown", 1>> >> >>
      [] ch = "E" -> <<Goto(c, "Ground"), << <<"Print", "cr">>, <<"Print", "nl">> >> >>
      [] ch = "M" -> <<Goto(c, "Ground"), << <<"CursorUp", 1>> >> >>
      [] OTHER -> <<Goto(c, "Ground"), <<>> >>
\* The parameters are not read again once the sequence is over.
FinishCsi(c, ch) == <<ParserReset(c), ExecuteCsi(PushParam(c), ch)>>
FeedCsi(c, ch) ==
    CASE ch = "?" -> <<Goto(c, "CsiParam"), <<>> >>
      [] IsDigit(ch) -> <<[c EXCEPT !.current = Digit(ch), !.state = "CsiParam"], <<>> >>
      [] ch = ";" -> <<Goto(PushParam(c), "CsiParam"), <<>> >>
      [] OTHER -> FinishCsi(c, ch)
FeedCsiParam(c, ch) ==
    CASE IsDigit(ch) -> <<[c EXCEPT !.current = Min({U16Max, Min({U16Max, @ * 10}) + Digit(ch)})], <<>> >>
      [] ch = ";" -> <<PushParam(c), <<>> >>
      [] ch \in Intermediates -> <<c, <<>> >>
      [] OTHER -> FinishCsi(c, ch)
Feed(c, ch) ==
    CASE c.state = "Ground" -> FeedGround(c, ch)
      [] c.state = "Escape" -> FeedEscape(c, ch)
      [] c.state = "Csi" -> FeedCsi(c, ch)
      [] c.state = "CsiParam" -> FeedCsiParam(c, ch)
      [] c.state = "Osc" -> <<IF ch \in {"bel", "\\"} THEN Goto(c, "Ground") ELSE c, <<>> >>
      [] c.state = "Dcs" -> <<IF ch = "\\" THEN Goto(c, "Ground") ELSE c, <<>> >>

----------------------------------------------------------------------------
\* Console.  "ext" is SgrExtState, as a tuple: empty for None, else the target
\* field, the mode (0 while it is expected) and the components read so far.
SetColour(c, target, rgb) == IF target = "fg" THEN [c EXCEPT !.fg = rgb, !.ext = <<>>] ELSE [c EXCEPT !.bg = rgb, !.ext = <<>>]
HandleExtendedSgr(c, attr) ==
    LET target == c.ext[1]
    IN  CASE c.ext[2] = 0 -> [c EXCEPT !.ext = <<target, attr>>]
          [] c.ext[2] = 5 -> SetColour(c, target, AnsiToRgb(attr))
          [] c.ext[2] = 2 -> IF Len(c.ext) < 4 THEN [c EXCEPT !.ext = Append(@, attr)]
                             ELSE SetColour(c, target, <<c.ext[3], c.ext[4], attr>>)
HandleAttr(c, attr) ==
    CASE attr = 0 -> [c EXCEPT !.fg = DEFAULT_FG, !.bg = DEFAULT_BG, !.ext = <<>>]
      [] attr = 1 -> [c EXCEPT !.fg = BrightenRgb(@)]
      [] attr \in 30 .. 37 -> [c EXCEPT !.fg = AnsiToRgb(attr - 30)]
      [] attr = 38 -> [c EXCEPT !.ext = <<"fg", 0>>]
      [] attr = 39 -> [c EXCEPT !.fg = DEFAULT_FG]
      [] attr \in 40 .. 47 -> [c EXCEPT !.bg = AnsiToRgb(attr - 40)]
      [] attr = 48 -> [c EXCEPT !.ext = <<"bg", 0>>]
      [] attr = 49 -> [c EXCEPT !.bg = DEFAULT_BG]
      [] attr \in 90 .. 97 -> [c EXCEPT !.fg = AnsiToRgb(attr - 90 + 8)]
      [] attr \in 100 .. 107 -> [c EXCEPT !.bg = AnsiToRgb(attr - 100 + 8)]
      [] OTHER -> c
\* Mutant of HandleSgr: an attribute that is no colour mode is swallowed.
HandleSgrSwallows(c, attr) ==
    IF c.ext = <<>> THEN HandleAttr(c, attr)
    ELSE IF c.ext[2] = 0 /\ attr \notin {2, 5} THEN [c EXCEPT !.ext = <<>>]
    ELSE HandleExtendedSgr(c, attr)
HandleSgr(c, attr) ==
    IF c.ext = <<>> THEN HandleAttr(c, attr)
    ELSE IF c.ext[2] = 0 /\ attr \notin {2, 5} THEN HandleAttr([c EXCEPT !.ext = <<>>], attr)
    ELSE HandleExtendedSgr(c, attr)

Minus(a, b) == Max({0, a - b})    \* saturating_sub
ProcessAction(c, act) ==
    CASE act[1] = "Print" -> PutChar(c, act[2])
      [] act[1] = "CursorUp" -> SetCursorPos(c, c.x, Minus(c.y, act[2]))
      [] act[1] = "CursorDown" -> SetCursorPos(c, c.x, Min({Minus(c.rows, 1), c.y + act[2]}))
      [] act[1] = "CursorForward" -> SetCursorPos(c, Min({Minus(c.cols, 1), c.x + act[2]}), c.y)
      [] act[1] = "CursorBack" -> SetCursorPos(c, Minus(c.x, act[2]), c.y)
      [] act[1] = "CursorPosition" -> SetCursorPos(c, Minus(act[3], 1), Minus(act[2], 1))
      [] act[1] = "EraseDisplay" -> IF act[2] = 2 THEN ClearScreen(c) ELSE c
      [] act[1] = "SetAttr" -> HandleSgr(c, act[2])
      [] act[1] = "Reset" -> ParserReset([ClearScreen([c EXCEPT !.fg = DEFAULT_FG, !.bg = DEFAULT_BG]) EXCEPT !.ext = <<>>])

\* write_str: the actions of a character are carried out before the next one is
\* read; VtActionIter holds MaxActions of them and loses the rest.
RECURSIVE ProcessActions(_, _)
ProcessActions(c, acts) == IF acts = <<>> THEN c ELSE ProcessActions(ProcessAction(c, Head(acts)), Tail(acts))
WriteChar(c, ch) ==
    LET fed == Feed(c, ch)
    IN  ProcessActions(fed[1], SubSeq(fed[2], 1, Min({MaxActions, Len(fed[2])})))
RECURSIVE WriteStr(_, _)
WriteStr(c, text) == IF text = <<>> THEN c ELSE WriteStr(WriteChar(c, Head(text)), Tail(text))

\* fbcon::init of a screen of cols columns and rows rows, and Console::new.
ConsoleInit(cols, rows) ==
    LET c == [cols |-> cols, rows |-> rows, x |-> 0, y |-> 0, cells |-> <<>>, fg |-> DEFAULT_FG, bg |-> DEFAULT_BG_COLOR,
              state |-> "Ground", params |-> <<>>, current |-> 0, ext |-> <<>>]
    IN  ClearScreen(c)

----------------------------------------------------------------------------
\* The plain definition reads a whole sequence at a time.  "pending" is the
\* sequence that has begun; "cut" says that a colour attribute was left
\* incomplete, or lost for want of room, and that nothing is claimed of the
\* colours until the next reset.
PlainScreen(cols, rows) ==
    [pending |-> <<>>, x |-> 0, y |-> 0, page |-> [y \in 1 .. rows |-> [x \in 1 .. cols |-> " "]],
     fg |-> DEFAULT_FG, bg |-> DEFAULT_BG_COLOR, cut |-> FALSE]
Cols(r) == Len(r.page[1])
Rows(r) == Len(r.page)
Clamped(v, limit) == Max({0, Min({v, limit - 1})})

\* A text flows over the page as over paper that is drawn up a line at its end.
Down(r) ==
    IF r.y + 1 < Rows(r) THEN [r EXCEPT !.x = 0, !.y = @ + 1]
    ELSE [r EXCEPT !.x = 0, !.page = Append(Tail(@), [x \in 1 .. Cols(r) |-> " "])]
Flow(r, to) == IF to < Cols(r) THEN [r EXCEPT !.x = to] ELSE Down(r)
Typed(r, ch) ==
    CASE ch \in {"nl", "vt", "ff"} -> Down(r)
      [] ch = "cr" -> [r EXCEPT !.x = 0]
      [] ch = "bs" -> [r EXCEPT !.x = Clamped(@ - 1, Cols(r))]
      [] ch = "tab" -> Flow(r, Min({t \in r.x + 1 .. r.x + TabWidth : t % TabWidth = 0}))
      [] ch \in {"bel", "nul"} -> r
      [] OTHER -> Flow([r EXCEPT !.page[r.y + 1][r.x + 1] = ch], r.x + 1)
Moved(r, dx, dy) == [r EXCEPT !.x = Clamped(@ + dx, Cols(r)), !.y = Clamped(@ + dy, Rows(r))]
Cleared(r) == [PlainScreen(Cols(r), Rows(r)) EXCEPT !.fg = r.fg, !.bg = r.bg, !.cut = r.cut]

\* ESC [ ... final, ESC ] ... BEL or \, ESC P ... \, and ESC with one character.
Whole(s) ==
    CASE Len(s) = 1 -> FALSE
      [] Len(s) >= 2 /\ s[2] = "[" -> Len(s) > 2 /\ ~IsDigit(Last(s)) /\ Last(s) # ";"
                                    /\ ~(Last(s) = "?" /\ Len(s) = 3) /\ ~(Last(s) \in Intermediates /\ Len(s) > 3)
      [] Len(s) >= 2 /\ s[2] = "]" -> Last(s) \in {"bel", "\\"}
      [] Len(s) >= 2 /\ s[2] = "P" -> Last(s) = "\\"
      [] OTHER -> TRUE
\* The numbers of a sequence, an empty one being 0.
Value(ds) == Min({U16Max, FoldLeft(LAMBDA n, d : n * 10 + Digit(d), 0, ds)})
Numbers(s) ==
    LET body == SelectSeq(SubSeq(s, 3, Len(s) - 1), LAMBDA ch : IsDigit(ch) \/ ch = ";")
        stops == {0} \cup {i \in DOMAIN body : body[i] = ";"}
        nth(k) == Min({i \in stops : Cardinality({j \in stops : j < i}) = k - 1})
        stop(i) == Min({j \in stops \cup {Len(body) + 1} : j > i})
    IN  [k \in 1 .. Cardinality(stops) |-> Value(SubSeq(body, nth(k) + 1, stop(nth(k)) - 1))]

\* Attributes in order; 38 and 48 take the colour that follows them.
Simple(n) == n \notin {38, 48}
Coloured(r, field, rgb) == IF field = 38 THEN [r EXCEPT !.fg = rgb] ELSE [r EXCEPT !.bg = rgb]
CutShort(r) == [r EXCEPT !.cut = TRUE, !.fg = <<>>, !.bg = <<>>]
RECURSIVE Attributes(_, _)
Attributes(r, ns) ==
    CASE ns = <<>> -> r
      [] ns # <<>> /\ Simple(ns[1]) ->
           LET h == HandleAttr([fg |-> r.fg, bg |-> r.bg, ext |-> <<>>], ns[1])
           IN  Attributes([r EXCEPT !.fg = h.fg, !.bg = h.bg], Tail(ns))
      [] Len(ns) > 1 /\ ~Simple(ns[1]) /\ ns[2] \notin {2, 5} -> Attributes(r, Tail(ns))
      [] Len(ns) > 2 /\ ~Simple(ns[1]) /\ ns[2] = 5 ->
           Attributes(Coloured(r, ns[1], AnsiToRgb(ns[3])), SubSeq(ns, 4, Len(ns)))
      [] Len(ns) > 4 /\ ~Simple(ns[1]) /\ ns[2] = 2 ->
           Attributes(Coloured(r, ns[1], SubSeq(ns, 3, 5)), SubSeq(ns, 6, Len(ns)))
      [] OTHER -> CutShort(r)

Meaning(r, s) ==
    LET ns == Numbers(s)
        n == IF ns[1] = 0 THEN 1 ELSE ns[1]
        m == IF Len(ns) < 2 \/ ns[2] = 0 THEN 1 ELSE ns[2]
        final == Last(s)
        to(row, col) == IF row <= Rows(r) /\ col <= Cols(r) THEN [r EXCEPT !.x = col - 1, !.y = row - 1] ELSE r
    IN  IF s[2] # "[" THEN
          CASE s[2] = "c" -> [PlainScreen(Cols(r), Rows(r)) EXCEPT !.bg = DEFAULT_BG]
            [] s[2] = "D" -> Moved(r, 0, 1)
            [] s[2] = "E" -> Down(r)
            [] s[2] = "M" -> Moved(r, 0, -1)
            [] OTHER -> r
        ELSE
          CASE final = "A" -> Moved(r, 0, -n)
            [] final = "B" -> Moved(r, 0, n)
            [] final = "C" -> Moved(r, n, 0)
            [] final = "D" -> Moved(r, -n, 0)
            [] final = "E" -> [Moved(r, 0, n) EXCEPT !.x = 0]
            [] final = "F" -> [Moved(r, 0, -n) EXCEPT !.x = 0]
            [] final = "G" -> to(1, n)
            [] final \in {"H", "f"} -> to(n, m)
            [] final = "J" -> IF ns[1] = 2 THEN Cleared(r) ELSE r
            [] final = "m" -> IF r.cut \/ Len(ns) > MaxActions THEN CutShort(r) ELSE Attributes(r, ns)
            [] OTHER -> r
PlainChar(r, ch) ==
    LET s == Append(r.pending, ch)
    IN  IF r.pending = <<>> /\ ch # "esc" THEN Typed(r, ch)
        ELSE IF Whole(s) THEN Meaning([r EXCEPT !.pending = <<>>], s)
        ELSE [r EXCEPT !.pending = IF Len(s) > 2 /\ s[2] # "[" THEN @ ELSE s]   \* a string's text is skipped
RECURSIVE PlainText(_, _)
PlainText(r, text) == IF text = <<>> THEN r ELSE PlainText(PlainChar(r, Head(text)), Tail(text))

ConsoleNext ==
    /\ kind \in {"screen", "colours"}
    /\ Len(ref.pending) <= MaxPending
    /\ \/ \E text \in ScreenTexts : Call("screen", WriteStr(obj, text), PlainText(ref, text))
       \/ \E text \in ColourTexts : Call("colours", WriteStr(obj, text), PlainText(ref, text))

\* What the console shows is what the text says, wherever it was cut into
\* calls, and the cursor, where the next glyph is drawn without a check, is on
\* the screen (fbcon.rs:243, 369).
ConsoleAgrees ==
    /\ obj.x \in 0 .. obj.cols - 1 /\ obj.y \in 0 .. obj.rows - 1
    /\ <<obj.x, obj.y>> = <<ref.x, ref.y>>
    /\ \A y \in 1 .. obj.rows, x \in 1 .. obj.cols : obj.cells[y - 1][x - 1][1] = ref.page[y][x]
    /\ ref.cut \/ (obj.ext = <<>> /\ <<obj.fg, obj.bg>> = <<ref.fg, ref.bg>>)
=============================================================================
