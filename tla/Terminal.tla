------------------------------ MODULE Terminal ------------------------------
(***************************************************************************)
(* Pseudo terminals, drivers/tty/pty/mod.rs.  The two directions of a pair *)
(* share nothing but the termios flags, so each is an object of its own:   *)
(* "ptyin" from master to slave with the line editing, "ptyout" from slave *)
(* to master.                                                              *)
(***************************************************************************)
EXTENDS Structures, SequencesExt

CONSTANTS PtySize,       \* PTY_BUFFER_SIZE
          LineMax,       \* 256, the length of the line buffer
          PtyInput, PtyOutput,    \* bytes: letters, "nl", "cr", "hi" (8th bit), "nul", control characters
          PtyFlags       \* the flag sets a pair is given

----------------------------------------------------------------------------
PtyRing == [data |-> [i \in 0 .. PtySize - 1 |-> "nul"], read |-> 0, write |-> 0, count |-> 0]
PtyWrite(r, byte) ==
    IF r.count >= PtySize THEN r
    ELSE [r EXCEPT !.data[r.write] = byte, !.write = (@ + 1) % PtySize, !.count = @ + 1]
PtyRead(r) == [r EXCEPT !.read = (@ + 1) % PtySize, !.count = @ - 1]
PtyContents(r) == [i \in 1 .. r.count |-> r.data[(r.read + i - 1) % PtySize]]

\* process_input and process_output: the bytes that a byte becomes.
ProcessInput(flags, byte) ==
    CASE byte = "cr" /\ "IGNCR" \in flags -> <<>>
      [] byte = "cr" /\ "IGNCR" \notin flags /\ "ICRNL" \in flags -> <<"nl">>
      [] byte = "nl" /\ "INLCR" \in flags -> <<"cr">>
      [] byte = "hi" /\ "ISTRIP" \in flags -> <<"a">>
      [] OTHER -> <<byte>>
ProcessOutput(flags, byte) ==
    CASE byte = "nl" /\ {"OPOST", "ONLCR"} \subseteq flags -> <<"cr", "nl">>
      [] byte = "cr" /\ {"OPOST", "OCRNL"} \subseteq flags -> <<"nl">>
      [] byte = "nul" -> <<>>
      [] OTHER -> <<byte>>

\* Mutant of PtyWrites: a byte that does not fit overwrites the oldest.
PtyWritesOver(r, bytes) ==
    FoldLeft(LAMBDA q, b : PtyWrite(IF q.count = PtySize THEN PtyRead(q) ELSE q, b), r, bytes)
\* master_write and slave_write: byte by byte; one that does not fit is lost.
PtyWrites(r, bytes) == FoldLeft(PtyWrite, r, bytes)

\* canonical_read up to the line: "line" is the line buffer, and a newline
\* that comes to a full one is stored past its end.
RECURSIVE FillLine(_)
FillLine(o) ==
    LET c == o.ring.data[o.ring.read]
        rest == [o EXCEPT !.ring = PtyRead(@)]
    IN  IF o.ring.count = 0 THEN o
        ELSE CASE c = "nl" -> IF Len(o.line) = LineMax THEN [rest EXCEPT !.panicked = TRUE]
                              ELSE [rest EXCEPT !.line = Append(@, c)]
               [] c = "eof" -> rest
               [] c = "erase" -> FillLine([rest EXCEPT !.line = IF @ = <<>> THEN @ ELSE Front(@)])
               [] c = "kill" -> FillLine([rest EXCEPT !.line = <<>>])
               [] OTHER -> FillLine(IF Len(o.line) < LineMax THEN [rest EXCEPT !.line = Append(@, c)] ELSE rest)

\* slave_read of n bytes.
CanonicalRead(o, n) ==
    LET filled == IF o.line = <<>> THEN FillLine(o) ELSE o
    IN  IF filled.panicked THEN filled ELSE [filled EXCEPT !.line = SubSeq(@, n + 1, Len(@))]
RawRead(o, n) == [o EXCEPT !.ring = FoldLeft(LAMBDA q, i : IF q.count = 0 THEN q ELSE PtyRead(q), @, [i \in 1 .. n |-> i])]
SlaveRead(o, n) == IF "ICANON" \in o.flags THEN CanonicalRead(o, n) ELSE RawRead(o, n)

\* PtyPair::allocate, with the flags that are set afterwards.
PtyAllocate(flags) == [ring |-> PtyRing, line |-> <<>>, flags |-> flags, panicked |-> FALSE]

\* The plain definition: what is left of the bytes, and of the line they make.
\* A byte is in the line unless a later one of its line erases or kills it, or
\* the line was full.
Fits(s, bytes) == SubSeq(s \o bytes, 1, IF Len(s \o bytes) < PtySize THEN Len(s \o bytes) ELSE PtySize)
LineEnd(s) == LET ends == {i \in DOMAIN s : s[i] \in {"nl", "eof"}} IN IF ends = {} THEN Len(s) ELSE Min(ends)
Edited(s) ==
    FoldLeft(LAMBDA line, c : CASE c = "eof" -> line
                                [] c = "erase" -> SubSeq(line, 1, Len(line) - 1)
                                [] c = "kill" -> <<>>
                                [] OTHER -> IF Len(line) < LineMax THEN Append(line, c) ELSE line, <<>>, s)
PlainRead(r, flags, n) ==
    IF "ICANON" \notin flags THEN [r EXCEPT !.input = SubSeq(@, n + 1, Len(@))]
    ELSE LET fetch == r.line = <<>>
             end == IF fetch THEN LineEnd(r.input) ELSE 0
             line == IF fetch THEN Edited(SubSeq(r.input, 1, end)) ELSE r.line
         IN  [input |-> SubSeq(r.input, end + 1, Len(r.input)), line |-> SubSeq(line, n + 1, Len(line))]

PtyInNext ==
    /\ kind = "ptyin" /\ ~obj.panicked
    /\ \/ \E b \in PtyInput :
            LET bytes == ProcessInput(obj.flags, b)
            IN  Call("ptyin", [obj EXCEPT !.ring = PtyWrites(@, bytes)], [ref EXCEPT !.input = Fits(@, bytes)])
       \/ \E n \in 1 .. 2 : Call("ptyin", SlaveRead(obj, n), PlainRead(ref, obj.flags, n))
       \/ Call("ptyin", PtyAllocate(obj.flags), [input |-> <<>>, line |-> <<>>])
PtyOutNext ==
    /\ kind = "ptyout"
    /\ \/ \E b \in PtyOutput :
            LET bytes == ProcessOutput(obj.flags, b)
            IN  Call("ptyout", [obj EXCEPT !.ring = PtyWrites(@, bytes)], [ref EXCEPT !.input = Fits(@, bytes)])
       \/ \E n \in 1 .. 2 : Call("ptyout", RawRead(obj, n), [ref EXCEPT !.input = SubSeq(@, n + 1, Len(@))])
       \/ Call("ptyout", PtyAllocate(obj.flags), [input |-> <<>>, line |-> <<>>])

\* The ring and the line have the bytes they should have.  The reader panics
\* only over a newline that comes to a full line.
Taken(r) == r.data[(r.read + PtySize - 1) % PtySize]
PtyAgrees ==
    /\ PtyContents(obj.ring) = ref.input
    /\ IF obj.panicked THEN Len(obj.line) = LineMax /\ Taken(obj.ring) = "nl" ELSE obj.line = ref.line
=============================================================================
