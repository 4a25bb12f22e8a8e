------------------------------- MODULE Mounts -------------------------------
(***************************************************************************)
(* Paths and the mount table: fs/vfs/path.rs, fs/vfs/mount.rs and the      *)
(* calls of fs/runtime/manager.rs on them.  A path is whether it starts    *)
(* with "/" and its components, a normalized one the components alone;     *)
(* that one path lies below another is a string comparison up to a "/" in  *)
(* the code and a prefix of components here.                               *)
(***************************************************************************)
EXTENDS Structures, SequencesExt

CONSTANTS Names,         \* components that are neither "." nor ".."
          PathLen,       \* bound on the components of an input
          FileSystems,
          MaxMounts      \* bound on the entries of the table

Root == <<>>
Components == Names \cup {".", "..", ""}
Paths == UNION {[1 .. n -> Names] : n \in 0 .. PathLen}
Inputs == [absolute : BOOLEAN, parts : UNION {[1 .. n -> Components] : n \in 1 .. PathLen}]

\* Mutant of WalkPath: ".." at the root is kept.
WalkPathAboveRoot(parts, comp) ==
    CASE comp \in {"", "."} -> parts
      [] comp = ".." /\ parts # <<>> -> Front(parts)
      [] OTHER -> Append(parts, comp)
WalkPath(parts, comp) ==
    CASE comp \in {"", "."} -> parts
      [] comp = ".." -> IF parts = <<>> THEN parts ELSE Front(parts)
      [] OTHER -> Append(parts, comp)

\* normalize_path: no path at all for the empty input.
NormalizePath(cwd, input) ==
    IF ~input.absolute /\ input.parts = <<"">> THEN {}
    ELSE {FoldLeft(WalkPath, IF input.absolute THEN Root ELSE FoldLeft(WalkPath, Root, cwd), input.parts)}

\* split_parent of a normalized path.
SplitParent(path) == IF path = Root THEN <<Root, "">> ELSE <<Front(path), Last(path)>>

\* The table: target |-> file system and the source it came from, if any.
NoSource == "none"
MountRoot(table, fs) == Updated(table, Root, [fs |-> fs, source |-> NoSource])
Mount(table, target, fs, source) ==
    IF target = Root THEN MountRoot(table, fs)
    ELSE IF target \in DOMAIN table THEN table
    ELSE Updated(table, target, [fs |-> fs, source |-> source])
Umount(table, target) == IF target = Root THEN table ELSE Without(table, {target})

\* resolve: every mount the path lies at or below, the longest of them.
Resolve(table, path) ==
    LET below == {t \in DOMAIN table : IsPrefix(t, path)}
        longest == {t \in below : \A u \in below : Len(u) <= Len(t)}
    IN  IF below = {} THEN NoSource ELSE table[CHOOSE t \in longest : TRUE].fs

\* A source is a partition, or a file when its name contains "/"; world says
\* whether the target is a directory, and whether the source can be opened as a
\* file system of the type.  procfs needs no source, and keeps the name it is given.
Sources == {"partition", "file"}
Worlds == [directory : BOOLEAN, opens : BOOLEAN]

\* mount_file_source and mount_partition_source: what fails leaves the table.
MountOpened(table, target, fs, source, world) ==
    IF fs # "procfs" /\ world.opens /\ world.directory THEN Mount(table, target, fs, source) ELSE table

MountSource(table, target, fs, source, world) ==
    IF fs # "procfs" THEN MountOpened(table, target, fs, source, world)
    ELSE IF world.directory THEN Mount(table, target, fs, source) ELSE table

\* remount_target unmounts before it looks at the source again: when that fails,
\* or the source of a procfs looks like a file, the mount is lost.
RemountTarget(table, target, world) ==
    LET old  == table[target]
        rest == Umount(table, target)
    IN  IF target \notin DOMAIN table \/ old.source = NoSource THEN table
        ELSE IF old.fs = "procfs" /\ old.source # "file" THEN Mount(rest, target, old.fs, old.source)
        ELSE MountOpened(rest, target, old.fs, old.source, world)

\* The plain definition keeps the mounts as a set of triples.
Mounted == {mount[1] : mount \in ref}
Elsewhere(target) == {mount \in ref : mount[1] # target}
MountNext ==
    /\ kind = "mounts"
    /\ \E target \in Paths :
         \/ \E fs \in FileSystems, source \in Sources, world \in Worlds :
              /\ Cardinality(ref) < MaxMounts \/ target \in Mounted
              /\ Call("mounts", MountSource(obj, target, fs, source, world),
                      IF world.directory /\ (fs = "procfs" \/ world.opens) /\ (target = Root \/ target \notin Mounted)
                      THEN Elsewhere(target) \cup {<<target, fs, IF target = Root THEN NoSource ELSE source>>}
                      ELSE ref)
         \/ Call("mounts", Umount(obj, target), IF target = Root THEN ref ELSE Elsewhere(target))
         \/ \E world \in Worlds :
              Call("mounts", RemountTarget(obj, target, world),
                   IF target = Root \/ <<target, "procfs", "partition">> \in ref THEN ref
                   ELSE IF world.directory /\ world.opens THEN ref \ {<<target, "procfs", "file">>}
                   ELSE Elsewhere(target))

\* A path belongs to the file system of its nearest ancestor that has one.
RECURSIVE Nearest(_)
Nearest(path) ==
    IF path \in Mounted THEN (CHOOSE mount \in ref : mount[1] = path)[2] ELSE Nearest(SplitParent(path)[1])

\* Every path resolves, to the nearest mount, and the table has the mounts with
\* their sources; a relative path is the absolute one that begins with the working
\* directory, and normalizing twice changes nothing and leaves no dots (which does
\* not depend on the table).
MountsAgree ==
    /\ \A path \in Paths : Resolve(obj, path) = Nearest(path)
    /\ ref = {<<t, obj[t].fs, obj[t].source>> : t \in DOMAIN obj}
    /\ DOMAIN obj = {Root} => \A cwd \in Paths, input \in Inputs : \A p \in NormalizePath(cwd, input) :
         /\ p \in Seq(Names)
         /\ p # Root => NormalizePath(Root, [absolute |-> FALSE, parts |-> p]) = {p}
         /\ ~input.absolute => {p} = NormalizePath(Root, [absolute |-> TRUE, parts |-> cwd \o input.parts])
=============================================================================
