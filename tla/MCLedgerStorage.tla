-------------------------- MODULE MCLedgerStorage ---------------------------
(* Small homes for LedgerStorage: the identity w this home may witness for,*)
(* a ledger a that names it, and a ledger t that a second process writes.  *)
EXTENDS LedgerStorage

CONSTANTS w, a, t, here, elsewhere

Item(kind, names, size) == [kind |-> kind, names |-> names, size |-> size, verifies |-> TRUE]
Forged == [kind |-> "other", names |-> {}, size |-> 1, verifies |-> FALSE]

\* w advertises this home or another endpoint; a names w, nobody, or this
\* home by its endpoint.
AdmissionEvents ==
    [l \in {w, a} |->
        IF l = w THEN {Item("advertise", {here}, 1), Item("advertise", {elsewhere}, 1)}
        ELSE {Item("set", {w}, 1), Item("set", {}, 1), Item("config", {here}, 1), Forged}]

\* Events of two sizes, so that the caps are met one after the other, and three
\* that verify at one position, so that two can fork from the one kept.
CapEvents ==
    [l \in {w, a, t} |->
        IF l = w THEN {Item("other", {}, 2)}
        ELSE IF l = t THEN {Item("other", {}, 2), [Item("other", {}, 2) EXCEPT !.verifies = FALSE]}
        ELSE {Item("set", {w}, 1), Item("other", {}, 1), Item("other", {}, 2), Forged}]

\* A home that writes w itself, under every policy, and no cap that is met.
AdmissionSettings ==
    [ledgers : {{w, a}}, witnessFor : {{}, {w}}, legacy : BOOLEAN, signsFor : {{}},
     endpoints : {{here, elsewhere}},
     eventsOf : {AdmissionEvents}, wallet : {{w}}, tool : {{}}, asked : {{}},
     caps : {[events |-> 9, bytes |-> 99, ledgers |-> 9, forks |-> 0, capacity |-> 99]}]

\* A home that signs for every ledger, beside a second process that writes t
\* and a thread that is asked for it, and small caps.
CapSettings ==
    [ledgers : {{w, a, t}}, witnessFor : {{}}, legacy : {FALSE}, signsFor : {{w, a, t}},
     endpoints : {{here}},
     eventsOf : {CapEvents}, wallet : {{}}, tool : {{t}}, asked : {{t}},
     caps : {[events |-> 2, bytes |-> 3, ledgers |-> 2, forks |-> 1, capacity |-> 4]}]

\* A home that signs for t, which its wallet or a second process writes and
\* cuts back, and which has two branches from its inception on.
CutEvents ==
    [l \in {t} |-> {Item("other", {}, 1), Item("other", {}, 2), Forged,
                    [Item("other", {}, 2) EXCEPT !.verifies = FALSE]}]

CutSettings ==
    {[ledgers |-> {t}, witnessFor |-> {}, legacy |-> FALSE, signsFor |-> {t},
      endpoints |-> {here},
      eventsOf |-> CutEvents, wallet |-> {t} \ tool, tool |-> tool, asked |-> {},
      caps |-> [events |-> 9, bytes |-> 99, ledgers |-> 9, forks |-> 1, capacity |-> 99]] :
        tool \in {{}, {t}}}

MCSettings == AdmissionSettings \cup CapSettings \cup CutSettings
=============================================================================
