-------------------------------- MODULE Lists --------------------------------
(***************************************************************************)
(* The pointer lists of kernel/src/libs: list (circular, two links, a head *)
(* that is a node), hlist (one link and the address of the pointer that    *)
(* leads to the node) and lru (a map and a two-way list in the order of    *)
(* use).  Pointers are names; Null is the null pointer.                    *)
(***************************************************************************)
EXTENDS Structures, SequencesExt

CONSTANTS Heads, Items, Null,      \* list heads, list nodes
          LruKeys, LruValues, Capacity

\* The items that are on no list, according to f, a sequence for every head.
Loose(f) == Items \ UNION {ToSet(f[h]) : h \in Heads}
Owner(f, n) == CHOOSE h \in Heads : n \in ToSet(f[h])
Place(s, n) == CHOOSE i \in DOMAIN s : s[i] = n

----------------------------------------------------------------------------
\* ListHead

ListInit == [next |-> [n \in Heads \cup Items |-> IF n \in Heads THEN n ELSE Null],
             prev |-> [n \in Heads \cup Items |-> IF n \in Heads THEN n ELSE Null]]

IsEmpty(l, h) == l.next[h] = h
Between(l, before, n, after) ==
    [next |-> [l.next EXCEPT ![n] = after, ![before] = n], prev |-> [l.prev EXCEPT ![n] = before, ![after] = n]]
AddFront(l, h, n) == Between(l, h, n, l.next[h])
AddTail(l, h, n)  == Between(l, l.prev[h], n, h)
Del(l, n) ==
    [next |-> [[l.next EXCEPT ![l.prev[n]] = l.next[n]] EXCEPT ![n] = Null],
     prev |-> [[l.prev EXCEPT ![l.next[n]] = l.prev[n]] EXCEPT ![n] = Null]]
DelInit(l, n) == LET m == Del(l, n) IN [next |-> [m.next EXCEPT ![n] = n], prev |-> [m.prev EXCEPT ![n] = n]]
ReplaceNode(l, old, new) ==
    LET m == [next |-> [l.next EXCEPT ![new] = l.next[old], ![l.prev[old]] = new],
              prev |-> [l.prev EXCEPT ![new] = l.prev[old], ![l.next[old]] = new]]
    IN  [next |-> [m.next EXCEPT ![old] = Null], prev |-> [m.prev EXCEPT ![old] = Null]]
\* splice for before = the head, splice_tail for after = the head
SpliceAt(l, before, after, list) ==
    LET first == l.next[list]
        last  == l.prev[list]
    IN  IF IsEmpty(l, list) THEN l
        ELSE [next |-> [l.next EXCEPT ![before] = first, ![last] = after, ![list] = list],
              prev |-> [l.prev EXCEPT ![first] = before, ![after] = last, ![list] = list]]

ListAdd(h, n)     == n \in Loose(ref) /\ Call("list", AddFront(obj, h, n), [ref EXCEPT ![h] = <<n>> \o @])
ListAddTail(h, n) == n \in Loose(ref) /\ Call("list", AddTail(obj, h, n), [ref EXCEPT ![h] = Append(@, n)])
ListDel(n)        == n \notin Loose(ref) /\ \E l \in {Del(obj, n), DelInit(obj, n)} :
                        Call("list", l, [ref EXCEPT ![Owner(ref, n)] = RemoveAt(@, Place(@, n))])
ListPopFront(h)   == Call("list", IF IsEmpty(obj, h) THEN obj ELSE Del(obj, obj.next[h]),
                          [ref EXCEPT ![h] = IF @ = <<>> THEN @ ELSE Tail(@)])
ListPopBack(h)    == Call("list", IF IsEmpty(obj, h) THEN obj ELSE Del(obj, obj.prev[h]),
                          [ref EXCEPT ![h] = IF @ = <<>> THEN @ ELSE Front(@)])
ListMove(h, n) ==
    LET rest == [ref EXCEPT ![Owner(ref, n)] = RemoveAt(@, Place(@, n))]
    IN  /\ n \notin Loose(ref)
        /\ \/ Call("list", AddFront(Del(obj, n), h, n), [rest EXCEPT ![h] = <<n>> \o @])
           \/ Call("list", AddTail(Del(obj, n), h, n), [rest EXCEPT ![h] = Append(@, n)])
ListReplace(old, new) ==
    /\ old \notin Loose(ref) /\ new \in Loose(ref)
    /\ Call("list", ReplaceNode(obj, old, new), [ref EXCEPT ![Owner(ref, old)] = ReplaceAt(@, Place(@, old), new)])
ListSplice(h, list) ==
    /\ h # list
    /\ \/ Call("list", SpliceAt(obj, h, obj.next[h], list), [ref EXCEPT ![h] = ref[list] \o @, ![list] = <<>>])
       \/ Call("list", SpliceAt(obj, obj.prev[h], h, list), [ref EXCEPT ![h] = @ \o ref[list], ![list] = <<>>])

ListNext ==
    /\ kind = "list"
    /\ \/ \E h \in Heads, n \in Items : ListAdd(h, n) \/ ListAddTail(h, n) \/ ListMove(h, n)
       \/ \E n \in Items : ListDel(n)
       \/ \E h \in Heads : ListPopFront(h) \/ ListPopBack(h)
       \/ \E n, m \in Items : ListReplace(n, m)
       \/ \E h, l \in Heads : ListSplice(h, l)

\* ListIter and ListIterRev, and their _safe forms: up to limit nodes of a walk
\* that stops when it is back at the head
RECURSIVE Follow(_, _, _, _)
Follow(link, n, stop, limit) ==
    IF n = stop \/ limit = 0 THEN <<>> ELSE <<n>> \o Follow(link, link[n], stop, limit - 1)
Walk(link, h) == Follow(link, link[h], h, Cardinality(Items) + 1)
ListContents(l) == [h \in Heads |-> Walk(l.next, h)]

\* Both directions of every list agree; is_empty, is_singular and is_linked
\* say what the walks say.
ListLinked(l) ==
    \A h \in Heads :
       /\ Walk(l.prev, h) = Reverse(Walk(l.next, h))
       /\ IsEmpty(l, h) <=> Walk(l.next, h) = <<>>
       /\ (l.next[h] # h /\ l.next[h] = l.prev[h]) <=> Len(Walk(l.next, h)) = 1
       /\ \A n \in ToSet(Walk(l.next, h)) : l.next[n] # Null /\ l.prev[n] # Null

----------------------------------------------------------------------------
\* HListHead and HListNode.  A pointer to a pointer is the head or the node
\* that holds it.

HListInit == [first |-> [h \in Heads |-> Null], next |-> [n \in Items |-> Null], pprev |-> [n \in Items |-> Null]]

HPoint(l, at, n) == IF at \in Heads THEN [l EXCEPT !.first[at] = n] ELSE [l EXCEPT !.next[at] = n]
HBack(l, n, at)  == IF n = Null THEN l ELSE [l EXCEPT !.pprev[n] = at]

HAddHead(l, h, n)   == LET first == l.first[h]
                       IN  [HBack([l EXCEPT !.next[n] = first, !.pprev[n] = h], first, n) EXCEPT !.first[h] = n]
HDel(l, n)          == IF l.pprev[n] = Null THEN l
                       ELSE [HBack(HPoint(l, l.pprev[n], l.next[n]), l.next[n], l.pprev[n])
                                EXCEPT !.next[n] = Null, !.pprev[n] = Null]
HAddBefore(l, n, m) == HPoint([l EXCEPT !.next[n] = m, !.pprev[n] = l.pprev[m], !.pprev[m] = n], l.pprev[m], n)
HAddAfter(l, n, m)  == HBack([l EXCEPT !.next[n] = l.next[m], !.pprev[n] = m, !.next[m] = n], l.next[m], n)
HMoveList(l, h, old) == [HBack([l EXCEPT !.first[h] = l.first[old]], l.first[old], h) EXCEPT !.first[old] = Null]

HListAdd(h, n) == n \in Loose(ref) /\ Call("hlist", HAddHead(obj, h, n), [ref EXCEPT ![h] = <<n>> \o @])
HListDel(n)    == Call("hlist", HDel(obj, n),
                       IF n \in Loose(ref) THEN ref ELSE [ref EXCEPT ![Owner(ref, n)] = RemoveAt(@, Place(@, n))])
HListPop(h)    == Call("hlist", IF obj.first[h] = Null THEN obj ELSE HDel(obj, obj.first[h]),
                       [ref EXCEPT ![h] = IF @ = <<>> THEN @ ELSE Tail(@)])
HListAddNext(n, m) ==
    /\ n \in Loose(ref) /\ m \notin Loose(ref)
    /\ \/ Call("hlist", HAddBefore(obj, n, m), [ref EXCEPT ![Owner(ref, m)] = InsertAt(@, Place(@, m), n)])
       \/ Call("hlist", HAddAfter(obj, n, m), [ref EXCEPT ![Owner(ref, m)] = InsertAt(@, Place(@, m) + 1, n)])
HListMove(h, old) ==     \* onto a head whose list is empty
    h # old /\ ref[h] = <<>> /\ Call("hlist", HMoveList(obj, h, old), [ref EXCEPT ![h] = ref[old], ![old] = <<>>])

HListNext ==
    /\ kind = "hlist"
    /\ \/ \E h \in Heads, n \in Items : HListAdd(h, n)
       \/ \E n \in Items : HListDel(n)
       \/ \E h \in Heads : HListPop(h)
       \/ \E n, m \in Items : HListAddNext(n, m)
       \/ \E h, old \in Heads : HListMove(h, old)

HListContents(l) == [h \in Heads |-> Follow(l.next, l.first[h], Null, Cardinality(Items) + 1)]
\* Every node knows the pointer that leads to it; exactly the nodes on a list are hashed.
HListLinked(l) ==
    \A n \in Items : IF n \in Loose(HListContents(l)) THEN l.pprev[n] = Null
                     ELSE LET at == l.pprev[n] IN n = IF at \in Heads THEN l.first[at] ELSE l.next[at]

----------------------------------------------------------------------------
\* LruCache.  A node is named by its key; map has the keys that have a node.

LruInit == [capacity |-> Capacity, map |-> {}, head |-> Null, tail |-> Null,
            prev |-> [k \in LruKeys |-> Null], next |-> [k \in LruKeys |-> Null], value |-> [k \in LruKeys |-> Null]]

PushFront(c, k) ==
    LET c1 == [c EXCEPT !.prev[k] = Null, !.next[k] = c.head, !.head = k]
    IN  IF c.head # Null THEN [c1 EXCEPT !.prev[c.head] = k] ELSE [c1 EXCEPT !.tail = k]
Unlink(c, k) ==
    LET p  == c.prev[k]
        n  == c.next[k]
        c1 == IF p = Null THEN [c EXCEPT !.head = n] ELSE [c EXCEPT !.next[p] = n]
        c2 == IF n = Null THEN [c1 EXCEPT !.tail = p] ELSE [c1 EXCEPT !.prev[n] = p]
    IN  [c2 EXCEPT !.prev[k] = Null, !.next[k] = Null]
MoveToFront(c, k) == IF c.head = k THEN c ELSE PushFront(Unlink(c, k), k)
LruDrop(c, k) == IF k \notin c.map THEN c ELSE [Unlink(c, k) EXCEPT !.map = @ \ {k}, !.value[k] = Null]
LruWrite(c, k, v) ==
    LET room == IF Cardinality(c.map) >= c.capacity THEN LruDrop(c, c.tail) ELSE c
    IN  IF c.capacity = 0 THEN c
        ELSE IF k \in c.map THEN MoveToFront([c EXCEPT !.value[k] = v], k)
        ELSE PushFront([room EXCEPT !.map = @ \cup {k}, !.value[k] = v], k)

\* resize evicts from the tail until the cache fits
RECURSIVE Shrink(_)
Shrink(c) == IF Cardinality(c.map) > c.capacity THEN Shrink(LruDrop(c, c.tail)) ELSE c

\* Plainly: the entries in the order of their last use and the capacity.
LruHas(k)     == \E i \in DOMAIN ref.order : ref.order[i][1] = k
Others(k)     == SelectSeq(ref.order, LAMBDA e : e[1] # k)
Entry(k)      == SelectSeq(ref.order, LAMBDA e : e[1] = k)
Shortest(s, n) == SubSeq(s, 1, IF Len(s) < n THEN Len(s) ELSE n)
Used(k)       == Entry(k) \o Others(k)
Stored(k, v)  == Shortest(<<<<k, v>>>> \o Others(k), ref.capacity)
LruOrder(c, s) == Call("lru", c, [ref EXCEPT !.order = s])

LruPut(k, v)  == LruOrder(LruWrite(obj, k, v), Stored(k, v))
\* put_if_absent, and get_or_insert of an absent key
LruPutNew(k, v) == k \notin obj.map /\ LruOrder(LruWrite(obj, k, v), Stored(k, v))
\* get, get_mut, promote, and get_or_insert of a present key
LruGet(k)     == LruOrder(IF k \in obj.map THEN MoveToFront(obj, k) ELSE obj, Used(k))
LruRemove(k)  == LruOrder(LruDrop(obj, k), Others(k))
PopLru        == obj.tail # Null /\ LruOrder(LruDrop(obj, obj.tail), Front(ref.order))
PopMru        == obj.head # Null /\ LruOrder(LruDrop(obj, obj.head), Tail(ref.order))
LruResize(n)  == Call("lru", Shrink([obj EXCEPT !.capacity = n]), [order |-> Shortest(ref.order, n), capacity |-> n])
\* clear and drop pop the tail until there is none
LruClear      == LruOrder([Shrink([obj EXCEPT !.capacity = 0]) EXCEPT !.capacity = obj.capacity], <<>>)

LruNext ==
    /\ kind = "lru"
    /\ \/ \E k \in LruKeys, v \in LruValues : LruPut(k, v) \/ LruPutNew(k, v)
       \/ \E k \in LruKeys : LruGet(k) \/ LruRemove(k)
       \/ PopLru \/ PopMru \/ LruClear
       \/ \E n \in 0 .. Capacity : LruResize(n)

LruContents(c) == [order |-> LET s == Follow(c.next, c.head, Null, Cardinality(LruKeys) + 1)
                             IN  [i \in DOMAIN s |-> <<s[i], c.value[s[i]]>>],
                   capacity |-> c.capacity]
\* iter_lru is iter backwards, the list has exactly the keys of the map and
\* never more than the capacity.
LruLinked(c) ==
    LET s == Follow(c.next, c.head, Null, Cardinality(LruKeys) + 1)
    IN  /\ Follow(c.prev, c.tail, Null, Cardinality(LruKeys) + 1) = Reverse(s)
        /\ ToSet(s) = c.map /\ Len(s) = Cardinality(c.map) /\ Len(s) <= c.capacity
=============================================================================
