----------------------------- MODULE WaitQueues -----------------------------
(***************************************************************************)
(* The wait queue of libs/wait_queue, beside the tokens that sleep, in the *)
(* order in which they came, and those that were interrupted.              *)
(***************************************************************************)
EXTENDS Structures, SequencesExt

CONSTANT Tokens

WaitEntry(token, mode) == [token |-> token, state |-> "Sleeping", mode |-> mode]
IsSleeping(e) == e.state = "Sleeping"
IsQueued(q, token) == \E i \in DOMAIN q : q[i].token = token
Enqueue(q, token, mode) == IF IsQueued(q, token) THEN q ELSE Append(q, WaitEntry(token, mode))
Dequeue(q, token) == SelectSeq(q, LAMBDA e : e.token # token)
MarkInterrupted(q, token) == [i \in DOMAIN q |-> IF q[i].token = token THEN [q[i] EXCEPT !.state = "Interrupted"] ELSE q[i]]
\* wake_one_if and wake_all_if; "modes" is what the predicate accepts
Wakeable(q, modes) == {i \in DOMAIN q : IsSleeping(q[i]) /\ q[i].mode \in modes}
WakeOne(q, modes) == IF Wakeable(q, modes) = {} THEN q ELSE RemoveAt(q, Min(Wakeable(q, modes)))
WakeAll(q, modes) == SelectSeq(q, LAMBDA e : ~(IsSleeping(e) /\ e.mode \in modes))
DrainWoken(q) == SelectSeq(q, LAMBDA e : e.state # "Woken")

NoWaiters == [sleeping |-> <<>>, interrupted |-> {}]
Modes == {"Exclusive", "Shared"}
Known(token) == token \in ref.interrupted \/ \E m \in Modes : <<token, m>> \in ToSet(ref.sleeping)
SleepersBut(token) == SelectSeq(ref.sleeping, LAMBDA e : e[1] # token)
FirstOfModes(modes) == Min({i \in DOMAIN ref.sleeping : ref.sleeping[i][2] \in modes})
WaitQueueNext ==
    /\ kind = "waitq"
    /\ \/ \E token \in Tokens, mode \in Modes :
            Call("waitq", Enqueue(obj, token, mode),
                 IF Known(token) THEN ref ELSE [ref EXCEPT !.sleeping = Append(@, <<token, mode>>)])
       \/ \E token \in Tokens : Call("waitq", Dequeue(obj, token),
                                     [sleeping |-> SleepersBut(token), interrupted |-> ref.interrupted \ {token}])
       \/ \E token \in Tokens : Call("waitq", MarkInterrupted(obj, token),
                                     IF Known(token) THEN [sleeping |-> SleepersBut(token), interrupted |-> ref.interrupted \cup {token}]
                                     ELSE ref)
       \/ \E modes \in (SUBSET Modes) \ {{}} :
            \/ Call("waitq", WakeAll(obj, modes), [ref EXCEPT !.sleeping = SelectSeq(@, LAMBDA e : e[2] \notin modes)])
            \/ Call("waitq", WakeOne(obj, modes),
                    IF \E e \in ToSet(ref.sleeping) : e[2] \in modes
                    THEN [ref EXCEPT !.sleeping = RemoveAt(@, FirstOfModes(modes))] ELSE ref)
       \/ Call("waitq", DrainWoken(obj), ref)
       \/ Call("waitq", <<>>, NoWaiters)

\* Nobody is queued twice, and a waiter that was interrupted is passed over.
WaitersAgree ==
    /\ LET s == SelectSeq(obj, IsSleeping) IN [i \in DOMAIN s |-> <<s[i].token, s[i].mode>>] = ref.sleeping
    /\ {obj[i].token : i \in {j \in DOMAIN obj : obj[j].state = "Interrupted"}} = ref.interrupted
    /\ Cardinality({obj[i].token : i \in DOMAIN obj}) = Len(obj)
=============================================================================
