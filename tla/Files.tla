-------------------------------- MODULE Files --------------------------------
(***************************************************************************)
(* Descriptors and pipes (fs/runtime/manager.rs) under the system calls of *)
(* fs/syscall/{file,pipe,poll}.rs.  Every operation of FsState runs under  *)
(* the FS_STATE lock and is one step; a call that loops on it (a blocking  *)
(* read, poll, select) takes a step for each pass.  A process has one      *)
(* thread, and fork gives the child no descriptors, so a pipe belongs to   *)
(* one process.  A descriptor is [type, at, nb]: "at" is the offset of a   *)
(* file, the cursor of a directory or the number of a pipe, "nb" its       *)
(* O_NONBLOCK.  Names, metadata and close-on-exec, which no code path      *)
(* acts on, are left out.                                                  *)
(***************************************************************************)
EXTENDS Threads, FiniteSetsExt, Functions, TLC

CONSTANTS FilePids,
          FdMax,         \* bound on descriptors that are handed out
          Dup2Targets,   \* the numbers dup2 and dup3 are asked for
          MaxPipes, PipeBytes,    \* bounds on pipes and on what they hold
          FileLen, DirLen         \* size of the file and of the directory

FIRST_USER_FD == 3
NoPipe == [readers |-> 0, writers |-> 0, data |-> 0]

FilesInit ==
    /\ kind = "files"
    /\ shared = [table |-> [p \in FilePids |-> <<>>], next |-> [p \in FilePids |-> 0],
                 pipes |-> [i \in 1..MaxPipes |-> NoPipe], last |-> 0]
    /\ local = [p \in FilePids |-> [pc |-> "idle", call |-> "none", fd |-> 0, nb |-> FALSE]]

(***************************************************************************)
(* FsState.  A pipe is removed when both of its counts are zero.           *)
(***************************************************************************)
Table(p) == shared.table[p]
Has(p, fd) == fd \in DOMAIN Table(p)

AllocFdFrom(s, p, min) ==
    LET from == Max({s.next[p], min, FIRST_USER_FD}) IN
    Min((from..FdMax + 1) \ DOMAIN s.table[p])

Insert(s, p, fd, f) == [s EXCEPT !.table[p] = (fd :> f) @@ @]
Give(s, p, fd, f) == [Insert(s, p, fd, f) EXCEPT !.next[p] = fd + 1]

\* duplicate_open_file with d = 1, and what close does with d = -1.
Counted(s, f, d) ==
    CASE f.type = "pipe_read"  -> [s EXCEPT !.pipes[f.at].readers = @ + d]
      [] f.type = "pipe_write" -> [s EXCEPT !.pipes[f.at].writers = @ + d]
      [] OTHER -> s
Emptied(s) ==
    [s EXCEPT !.pipes = [i \in DOMAIN @ |-> IF @[i].readers = 0 /\ @[i].writers = 0 THEN NoPipe ELSE @[i]]]

Closed(s, p, fd) ==
    IF fd \notin DOMAIN s.table[p] THEN s
    ELSE Emptied(Counted([s EXCEPT !.table[p] = Restrict(@, DOMAIN @ \ {fd})], s.table[p][fd], -1))

DropProcessFds(s, p) ==
    LET t == s.table[p]
        all == FoldSet(LAMBDA fd, acc : Counted(acc, t[fd], -1), s, DOMAIN t)
    IN  [Emptied(all) EXCEPT !.table[p] = <<>>, !.next[p] = 0]

\* read_for_pid, write_for_pid and poll_revents_for_pid on descriptor f.
ReadOutcome(f) ==
    CASE f.type = "file" -> IF f.at < FileLen THEN "data" ELSE "eof"
      [] f.type = "pipe_read" ->
           IF shared.pipes[f.at].data > 0 THEN "data"
           ELSE IF shared.pipes[f.at].writers = 0 THEN "eof" ELSE "EAGAIN"
      [] f.type = "dir" -> "EISDIR"
      [] OTHER -> "EBADF"

WriteOutcome(f) ==
    CASE f.type = "pipe_write" -> IF shared.pipes[f.at].readers = 0 THEN "EPIPE" ELSE "ok"
      [] f.type = "dir" -> "EISDIR"
      [] OTHER -> "EBADF"

\* Mutant of PollRevents: a pipe whose writers are gone is not readable.
PollReventsNoEof(f, events) ==
    CASE f.type \in {"file", "dir"} -> events \cap {"IN"}
      [] f.type = "pipe_read" -> IF shared.pipes[f.at].data > 0 THEN events \cap {"IN"} ELSE {}
      [] OTHER -> IF shared.pipes[f.at].readers = 0 THEN {"ERR", "HUP"} ELSE events \cap {"OUT"}

PollRevents(f, events) ==
    CASE f.type \in {"file", "dir"} -> events \cap {"IN"}
      [] f.type = "pipe_read" ->
           LET pipe == shared.pipes[f.at] IN
           (IF pipe.data > 0 \/ pipe.writers = 0 THEN events \cap {"IN"} ELSE {})
             \cup (IF pipe.writers = 0 THEN {"HUP"} ELSE {})
      [] OTHER -> IF shared.pipes[f.at].readers = 0 THEN {"ERR", "HUP"} ELSE events \cap {"OUT"}

\* The standard descriptors are the terminal, which may have input or not.
PollFd(p, fd, events, tty) ==
    IF fd = 0 THEN (IF tty THEN events \cap {"IN"} ELSE {})
    ELSE IF fd \in {1, 2} THEN events \cap {"OUT"}
    ELSE IF ~Has(p, fd) THEN {"NVAL"} ELSE PollRevents(Table(p)[fd], events)

(***************************************************************************)
(* The calls.                                                              *)
(***************************************************************************)
MayCall(p) == At("files", p, "idle")
Reply(p, s) == Step("files", p, s, local[p])
Fail(p) == Reply(p, shared)     \* an error changes nothing
Wait(p, call, fd, nb) ==
    Step("files", p, shared, [local[p] EXCEPT !.call = call, !.pc = call, !.fd = fd, !.nb = nb])
Finish(p, s) ==
    Step("files", p, s, [local[p] EXCEPT !.call = "none", !.pc = "idle", !.fd = 0, !.nb = FALSE])

\* The path is resolved and looked up before the table is touched.
SysOpen(p) ==
    /\ MayCall(p)
    /\ \E what \in {"file", "dir", "missing"}, accmode \in {"O_RDONLY", "O_RDWR"}, flags \in {"valid", "directory", "invalid"} :
         LET fd == AllocFdFrom(shared, p, FIRST_USER_FD)
             error == CASE what = "missing" -> "ENOENT"
                        [] flags = "invalid" -> "EINVAL"
                        [] accmode # "O_RDONLY" -> "EROFS"
                        [] what = "file" /\ flags = "directory" -> "ENOTDIR"
                        [] OTHER -> "none"
         IN  IF error # "none" THEN Fail(p)
             ELSE fd <= FdMax /\ Reply(p, Give(shared, p, fd, [type |-> what, at |-> 0, nb |-> FALSE]))

\* sys_pipe_impl: both ends are closed again when they cannot be reported.
SysPipe(p) ==
    LET id == shared.last + 1
        end(type, nb) == [type |-> type, at |-> id, nb |-> nb]
        fd == AllocFdFrom(shared, p, FIRST_USER_FD)
    IN  /\ MayCall(p) /\ id <= MaxPipes /\ fd < FdMax
        /\ \E nb, written \in BOOLEAN :
             LET one == Give(shared, p, fd, end("pipe_read", nb))
                 other == AllocFdFrom(one, p, FIRST_USER_FD)
                 two == [Give(one, p, other, end("pipe_write", nb)) EXCEPT
                           !.last = id, !.pipes[id] = [readers |-> 1, writers |-> 1, data |-> 0]]
             IN  /\ other <= FdMax
                 /\ IF written THEN Reply(p, two)
                    ELSE Reply(p, Closed(Closed(two, p, fd), p, other))

\* sys_read asks once whether the descriptor blocks, then tries until it does
\* not.
ReadEnter(p) ==
    /\ MayCall(p)
    /\ \E fd \in DOMAIN Table(p) \ {0} : Wait(p, "read", fd, Table(p)[fd].nb)

ReadTry(p) ==
    /\ At("files", p, "read")
    /\ LET fd == local[p].fd
           f == Table(p)[fd]
           got == ReadOutcome(f)
       IN  IF ~Has(p, fd) THEN Finish(p, shared)
           ELSE IF got = "EAGAIN" THEN local[p].nb /\ Finish(p, shared)
           ELSE Finish(p, IF got # "data" THEN shared
                          ELSE IF f.type = "file" THEN [shared EXCEPT !.table[p][fd].at = @ + 1]
                          ELSE [shared EXCEPT !.pipes[f.at].data = @ - 1])

SysWrite(p) ==
    /\ MayCall(p)
    /\ \E fd \in DOMAIN Table(p) \ {1, 2} :
         LET f == Table(p)[fd] IN
         IF WriteOutcome(f) # "ok" THEN Fail(p)
         ELSE shared.pipes[f.at].data < PipeBytes /\ Reply(p, [shared EXCEPT !.pipes[f.at].data = @ + 1])

SysClose(p) ==
    /\ MayCall(p)
    /\ \E fd \in DOMAIN Table(p) : Reply(p, Closed(shared, p, fd))

\* lseek_for_pid: the offset, or the cursor of a directory.
MovedTo(s, p, fd, pos) == [s EXCEPT !.table[p][fd].at = pos]

SysLseek(p) ==
    /\ MayCall(p)
    /\ \E fd \in DOMAIN Table(p) :
         LET f == Table(p)[fd] IN
         IF f.type \notin {"file", "dir"} THEN Fail(p)
         ELSE \E pos \in {0, IF f.type = "file" THEN FileLen ELSE DirLen} : Reply(p, MovedTo(shared, p, fd, pos))

\* The entries from the cursor on, room of them, and the cursor after them.
Advanced(s, p, fd, room) == [s EXCEPT !.table[p][fd].at = Max({@, Min({DirLen, @ + room})})]

\* sys_getdents64: as many entries as fit; none fits is an error unless the
\* directory is at its end.
SysGetdents(p) ==
    /\ MayCall(p)
    /\ \E fd \in DOMAIN Table(p), room \in 0..DirLen :
         LET f == Table(p)[fd] IN
         IF f.type # "dir" THEN Fail(p)
         ELSE IF room = 0 /\ f.at < DirLen THEN Fail(p)
         ELSE Reply(p, Advanced(shared, p, fd, room))

\* dup_for_pid: the lowest number from min on.
Duplicated(s, p, fd, min) == Give(Counted(s, s.table[p][fd], 1), p, AllocFdFrom(s, p, min), s.table[p][fd])

\* sys_dup, F_DUPFD and F_DUPFD_CLOEXEC.
SysDup(p) ==
    /\ MayCall(p)
    /\ \E fd \in DOMAIN Table(p), min \in {0} \cup Dup2Targets :
         AllocFdFrom(shared, p, min) <= FdMax /\ Reply(p, Duplicated(shared, p, fd, min))

\* Mutant of DuplicateOnto: the descriptor it replaces is forgotten, not closed.
DuplicateOntoForgets(s, p, old, new) == Insert(Counted(s, s.table[p][old], 1), p, new, s.table[p][old])

\* dup2_for_pid closes the target first.
DuplicateOnto(s, p, old, new) ==
    LET f == s.table[p][old] IN Insert(Counted(Closed(s, p, new), f, 1), p, new, f)

\* sys_dup3 refuses equal numbers, sys_dup2 returns them.
SysDup2(p) ==
    /\ MayCall(p)
    /\ \E old \in DOMAIN Table(p), new \in Dup2Targets :
         IF old = new THEN Reply(p, shared)
         ELSE Reply(p, [DuplicateOnto(shared, p, old, new) EXCEPT
                          !.next[p] = Max({@, FIRST_USER_FD, new + 1})])

\* fcntl_setfl_for_pid: only a pipe keeps O_NONBLOCK.
SetFl(s, p, fd, nb) ==
    IF s.table[p][fd].type \in {"pipe_read", "pipe_write"} THEN [s EXCEPT !.table[p][fd].nb = nb] ELSE s

SysFcntlSetfl(p) ==
    /\ MayCall(p)
    /\ \E fd \in DOMAIN Table(p), nb \in BOOLEAN : Reply(p, SetFl(shared, p, fd, nb))

\* Every call on a descriptor that is not there, and fstat and fstatfs on one
\* that is: nothing changes.
BadDescriptor(p) == MayCall(p) /\ Fail(p)

\* sys_poll and sys_select on one descriptor: a pass that finds nothing is
\* repeated until the time-out, if there is one.  A descriptor that is not open
\* is reported by poll and an error of select; either returns.
PollEnter(p) ==
    /\ MayCall(p)
    /\ \E call \in {"poll", "select"}, fd \in {0, 1, FdMax} \cup DOMAIN Table(p), timed \in BOOLEAN :
         Wait(p, call, fd, timed)

PollPass(p) ==
    /\ At("files", p, "poll") \/ At("files", p, "select")
    /\ \E events \in {{"IN"}, {"OUT"}}, tty \in BOOLEAN :
         (PollFd(p, local[p].fd, events, tty) = {} => local[p].nb) /\ Finish(p, shared)

\* The reaper drops what a process that is gone had open.
ProcessExit(p) ==
    /\ At("files", p, "idle")
    /\ Step("files", p, DropProcessFds(shared, p), Goto(local[p], "gone"))

FilesEnter(p) ==
    \/ SysOpen(p) \/ SysPipe(p) \/ ReadEnter(p) \/ SysWrite(p) \/ SysClose(p) \/ SysLseek(p) \/ SysGetdents(p)
    \/ SysDup(p) \/ SysDup2(p) \/ SysFcntlSetfl(p) \/ BadDescriptor(p) \/ PollEnter(p) \/ ProcessExit(p)
FilesStep(p) == ReadTry(p) \/ PollPass(p)

(***************************************************************************)
(* The counts of a pipe are its descriptors, so that the end of file and   *)
(* the broken pipe are reported exactly when the other end is gone, and a  *)
(* pipe nobody has open is gone too; poll tells what read and write would  *)
(* do.                                                                     *)
(***************************************************************************)
Ends(i, type) ==
    {<<p, fd>> \in FilePids \X (0..FdMax) : Has(p, fd) /\ Table(p)[fd].type = type /\ Table(p)[fd].at = i}
PipesCounted ==
    \A i \in 1..MaxPipes :
        /\ shared.pipes[i].readers = Cardinality(Ends(i, "pipe_read"))
        /\ shared.pipes[i].writers = Cardinality(Ends(i, "pipe_write"))
PollTells ==
    \A p \in FilePids : \A fd \in DOMAIN Table(p) :
        LET f == Table(p)[fd] IN
        /\ f.type = "pipe_read" => ("IN" \in PollRevents(f, {"IN"}) <=> ReadOutcome(f) # "EAGAIN")
        /\ f.type = "pipe_write" => ("OUT" \in PollRevents(f, {"OUT"}) <=> WriteOutcome(f) = "ok")
=============================================================================
