------------------------------- MODULE Memory -------------------------------
(***************************************************************************)
(* What the address spaces promise to programs: every process has pages of *)
(* its own, which fork copies and which nobody else changes.  A page has a *)
(* value, and is in a mapping or not.                                      *)
(***************************************************************************)
EXTENDS Integers

CONSTANTS Mms, NPages

VARIABLES
    space,    \* the pages of each process
    shared    \* the pages mapped MAP_SHARED

Pages == 0 .. NPages - 1

Gone  == [v |-> "none", mapped |-> FALSE]
Fresh == [v : {"zero", "file", "none"}, mapped : {TRUE}]
Image == [v |-> "image", mapped |-> TRUE]

\* Process m wrote its name in page p, which other processes may see where both
\* map the page MAP_SHARED.
Stored(old, new, m, p) ==
    \A n \in Mms :
        LET written == [old[n] EXCEPT ![p].v = m]
        IN  \/ new[n] = written /\ (n = m \/ {<<m, p>>, <<n, p>>} \subseteq shared)
            \/ new[n] = old[n] /\ n # m

\* Process m mapped pages a .. b - 1; pages left over there keep their value.
Mapped(old, new, a, b) ==
    \A p \in Pages :
        IF a <= p /\ p < b
          THEN new[p] \in Fresh \/ (~ old[p].mapped /\ new[p] = [old[p] EXCEPT !.mapped = TRUE])
          ELSE new[p] = old[p]

\* Process m unmapped pages a .. b - 1, of which some values may be left over.
Unmapped(old, new, a, b) ==
    \A p \in Pages :
        IF a <= p /\ p < b /\ old[p].mapped THEN new[p] \in {Gone, [old[p] EXCEPT !.mapped = FALSE]}
                                            ELSE new[p] = old[p]

\* Process m loaded a program: its image, and nothing of what was mapped.
Loaded(old, new) ==
    \A p \in Pages : new[p] \in {Image, Gone, [old[p] EXCEPT !.mapped = FALSE]}

Ended(new) == \A p \in Pages : new[p] = Gone

\* Process m started process c with a copy of its mappings.
Forked(old, new, m, c) ==
    /\ \A p \in Pages : old[c][p] = Gone
    /\ new = [old EXCEPT ![c] = [p \in Pages |-> IF old[m][p].mapped THEN old[m][p] ELSE Gone]]

Next ==
    \E old \in {space}, new \in {space'}, m \in Mms :
        \/ \E p \in Pages : Stored(old, new, m, p)
        \/ \E c \in Mms : Forked(old, new, m, c)
        \/ /\ \A n \in Mms \ {m} : new[n] = old[n]
           /\ \/ Ended(new[m])
              \/ Loaded(old[m], new[m])
              \/ \E a \in Pages : \E b \in a + 1 .. NPages :
                   Mapped(old[m], new[m], a, b) \/ Unmapped(old[m], new[m], a, b)

Spec == [][Next]_space
=============================================================================
