------------------------------ MODULE Volumes ------------------------------
(***************************************************************************)
(* The two file systems the kernel reads itself: FAT32 (backing/fat), a    *)
(* volume that is never written, and the initramfs (backing/initramfs.rs), *)
(* a store filled from the records of an archive.  A FAT volume is an      *)
(* initial state; every question is asked of it in that state.             *)
(***************************************************************************)
EXTENDS Structures, SequencesExt

CONSTANTS ClusterCount,    \* clusters 2 .. ClusterCount + 1 hold data
          FatEntries,      \* length of the table, which may be longer than that
          ClusterSize,     \* bytes in a cluster
          ClusterRecords,  \* directory records in a cluster
          ArchiveNames     \* the names the archive's paths are made of

EndOfChain == 1000         \* any value that is at least FAT32_EOC
Failed == <<-1>>           \* Err, where clusters or bytes are expected
NotFound == <<"error">>    \* and where a path is

----------------------------------------------------------------------------
\* A byte is named by its place on the volume.
Clusters == 2 .. ClusterCount + 1
ReadCluster(cluster) == IF cluster \in Clusters THEN [i \in 1 .. ClusterSize |-> cluster * ClusterSize + i - 1] ELSE Failed

\* collect_chain, with the clusters it has gone through and the steps it may
\* still take.
RECURSIVE Chain(_, _, _, _)
Chain(fat, current, chain, remaining) ==
    IF remaining = 0 \/ current \notin DOMAIN fat THEN Failed
    ELSE IF fat[current] >= EndOfChain \/ fat[current] = 0 THEN Append(chain, current)
    ELSE Chain(fat, fat[current], Append(chain, current), remaining - 1)
\* Mutant of CollectChain: as many steps as the data has clusters, less the first.
CollectChainShort(fat, start) == IF start = 0 THEN <<>> ELSE Chain(fat, start, <<>>, ClusterCount - 1)
CollectChain(fat, start) == IF start = 0 THEN <<>> ELSE Chain(fat, start, <<>>, ClusterCount + 2)

\* read_file from its loop on: what has been read, the place in the file where
\* the next cluster begins, and what is still wanted.
RECURSIVE ReadClusters(_, _, _, _, _)
ReadClusters(chain, at, offset, wanted, got) ==
    IF chain = <<>> \/ Len(got) >= wanted THEN got
    ELSE LET data == ReadCluster(Head(chain))
             start == Max({0, offset - at})
             end == Min({start + wanted - Len(got), ClusterSize})
         IN  IF data = Failed THEN Failed
             ELSE ReadClusters(Tail(chain), at + ClusterSize, offset, wanted,
                               IF offset >= at + ClusterSize THEN got ELSE got \o SubSeq(data, start + 1, end))
ReadFile(fat, node, offset, len) ==
    IF len = 0 \/ offset >= node.size \/ node.cluster = 0 THEN <<>>
    ELSE LET chain == CollectChain(fat, node.cluster)
         IN  IF chain = Failed THEN Failed
             ELSE ReadClusters(chain, 0, offset, Min({len, node.size - offset}), <<>>)

\* The data clusters that follow one another from start until "ends" does, and
\* the bytes in them.
ChainPaths(fat, start, ends) ==
    {s \in UNION {[1 .. n -> Clusters] : n \in 1 .. ClusterCount} :
        s[1] = start /\ fat[Last(s)] \in ends /\ \A i \in 1 .. Len(s) - 1 : fat[s[i]] = s[i + 1]}
Bytes(s) == [i \in 1 .. Len(s) * ClusterSize |-> s[((i - 1) \div ClusterSize) + 1] * ClusterSize + ((i - 1) % ClusterSize)]
\* A chain that ends gives the bytes asked for, as far as the file and the chain
\* go.  One that runs in a circle or out of the table is an error, and so is
\* one that leads to an entry without data once it has been read so far.
FatAnswers(fat) ==
    \A start \in Clusters :
      LET sound == ChainPaths(fat, start, {0, EndOfChain})
          stray == ChainPaths(fat, start, DOMAIN fat \ ({0} \cup Clusters))
      IN  \A size \in 1 .. ClusterCount * ClusterSize + 1 : \A offset \in 0 .. size - 1, len \in 1 .. size :
            LET got == ReadFile(fat, [cluster |-> start, size |-> size], offset, len)
                end == Min({offset + len, size})
            IN  IF sound # {}
                THEN \A s \in sound : got = SubSeq(Bytes(s), offset + 1, Min({end, Len(Bytes(s))}))
                ELSE got = Failed \/ \E s \in stray : end <= Len(Bytes(s)) /\ got = SubSeq(Bytes(s), offset + 1, end)

----------------------------------------------------------------------------
\* read_directory.  A record is its kind and its name: "end", "deleted",
\* "volume", a short name, and the pieces of a long name, the last of which
\* comes first and is marked.
PlainRecords == {<<"end", "">>, <<"deleted", "">>, <<"volume", "">>}
NameRecords == {<<"last", "y">>, <<"piece", "x">>, <<"short", "s">>}
IsPiece(e) == e[1] \in {"last", "piece"}
\* Mutant of Forgets: a deleted record leaves the pieces before it.
ForgetsNot(e) == e[1] = "volume"
\* The records that end a long name without using it.
Forgets(e) == e[1] \in {"deleted", "volume"}
\* One record: what is listed, and the long name that is pending.
ReadRecord(d, e) ==
    CASE Forgets(e) -> [d EXCEPT !.pending = <<>>]
      [] e[1] = "last" -> [d EXCEPT !.pending = <<e[2]>>]
      [] e[1] = "piece" -> [d EXCEPT !.pending = <<e[2]>> \o @]
      [] e[1] = "short" -> [d EXCEPT !.out = Append(@, IF d.pending = <<>> THEN <<e[2]>> ELSE d.pending), !.pending = <<>>]
      [] OTHER -> d
RECURSIVE ReadRecords(_, _)
ReadRecords(d, es) ==
    IF es = <<>> THEN d
    ELSE IF es[1][1] = "end" THEN [d EXCEPT !.done = TRUE]
    ELSE ReadRecords(ReadRecord(d, es[1]), Tail(es))
RECURSIVE ReadDirClusters(_, _)
ReadDirClusters(d, cs) == IF cs = <<>> \/ d.done THEN d ELSE ReadDirClusters(ReadRecords(d, Head(cs)), Tail(cs))
ReadDirectory(cs) == ReadDirClusters([out |-> <<>>, pending |-> <<>>, done |-> FALSE], cs).out

\* The names, from the records as one list: a short record is called by the
\* pieces that come right before it, read backwards from the last one marked.
LiveRecords(es) == LET ends == {i \in DOMAIN es : es[i][1] = "end"} IN IF ends = {} THEN es ELSE SubSeq(es, 1, Min(ends) - 1)
PiecesBefore(es, i) ==
    LET run == {k \in 1 .. i - 1 : \A j \in k .. i - 1 : IsPiece(es[j])}
        marked == {k \in run : es[k][1] = "last"}
        from == IF marked = {} THEN Min(run \cup {i}) ELSE Max(marked)
    IN  [k \in 1 .. i - from |-> es[i - k][2]]
NamesOf(es) ==
    LET shorts == SetToSortSeq({i \in DOMAIN es : es[i][1] = "short"}, <)
    IN  [n \in DOMAIN shorts |-> LET p == PiecesBefore(es, shorts[n]) IN IF p = <<>> THEN <<es[shorts[n]][2]>> ELSE p]
DirAnswers(cs) == ReadDirectory(cs) = NamesOf(LiveRecords(FlattenSeq(cs)))

----------------------------------------------------------------------------
\* The initramfs: "obj" maps the paths of the archive's records to their
\* kinds, a later record for a path replacing an earlier one.
ArchivePaths == UNION {[1 .. n -> ArchiveNames] : n \in 0 .. 2}
BelowPath(p, q) == Len(p) < Len(q) /\ IsPrefix(p, q)
ParseRecord(store, path, k) == IF path = <<>> THEN store ELSE Updated(store, path, k)
StoreIsDir(store, p) ==
    p = <<>> \/ (p \in DOMAIN store /\ store[p] = "dir") \/ \E q \in DOMAIN store : BelowPath(p, q)
StoreReadFile(store, p) == p \in DOMAIN store /\ store[p] = "file"
MetadataKind(store, p) ==
    IF p \in DOMAIN store THEN store[p] ELSE IF StoreIsDir(store, p) THEN "dir" ELSE "none"
Lookup(store, p, name) ==
    CASE ~StoreIsDir(store, p) -> NotFound
      [] StoreIsDir(store, p) /\ name = "." -> p
      [] StoreIsDir(store, p) /\ name = ".." -> IF p = <<>> THEN p ELSE Front(p)
      [] OTHER -> LET child == Append(p, name)
                  IN  IF child \in DOMAIN store \/ StoreIsDir(store, child) THEN child ELSE NotFound
\* Mutant of ChildKind: an entry further down does not make a directory.
ChildKindOwn(store, p, q) == store[q]
\* collect_dir_entries: every entry below p gives a name, with the kind of what
\* bears it there; of two kinds for one name, the directory stays.
ChildKind(store, p, q) == IF Len(q) = Len(p) + 1 THEN store[q] ELSE "dir"
ChildKinds(store, p, name) == {ChildKind(store, p, q) : q \in {q \in DOMAIN store : IsPrefix(Append(p, name), q)}}
ReadDir(store, p) ==
    {<<name, IF "dir" \in ChildKinds(store, p, name) THEN "dir" ELSE "file">> :
        name \in {n \in ArchiveNames : ChildKinds(store, p, n) # {}}} \cup {<<".", "dir">>, <<"..", "dir">>}

\* Volumes: every table over the data clusters, with chains that end, meet, run
\* in circles, and lead to an entry without data or out of the table.
FatTables ==
    {[c \in 0 .. FatEntries - 1 |-> IF c \in Clusters THEN t[c] ELSE EndOfChain] :
        t \in [Clusters -> {0, EndOfChain} \cup (2 .. FatEntries)]}
FatDirectories == [1 .. 2 -> [1 .. ClusterRecords -> PlainRecords \cup NameRecords]]
VolumesInit ==
    \/ kind = "fat" /\ obj \in FatTables /\ ref = Nil
    \/ kind = "fatdir" /\ obj \in FatDirectories /\ ref = Nil
    \/ kind = "initramfs" /\ obj = <<>> /\ ref = Nil
ArchiveNext ==
    \E path \in ArchivePaths, k \in {"file", "dir"} : Call("initramfs", ParseRecord(obj, path, k), ref)

\* What a directory lists is what can be looked up in it, under the kind that
\* its metadata gives, and what can be read is a file; of archives in which
\* nothing is below a file.
TreeShaped(store) == \A p \in DOMAIN store : store[p] = "file" => \A q \in DOMAIN store : ~BelowPath(p, q)
ArchiveAnswers(store) ==
    TreeShaped(store) =>
      \A p \in ArchivePaths :
        /\ StoreReadFile(store, p) <=> MetadataKind(store, p) = "file"
        /\ StoreIsDir(store, p) =>
             \A name \in ArchiveNames \cup {".", ".."} :
               LET child == Lookup(store, p, name)
               IN  {e \in ReadDir(store, p) : e[1] = name} = IF child = NotFound THEN {} ELSE {<<name, MetadataKind(store, child)>>}
=============================================================================
