-------------------------- MODULE LastWriterWins --------------------------
(***************************************************************************)
(* What the account promises the devices that write to it: one register    *)
(* per entry, each with the clock of the client that wrote it last, and    *)
(* transactions that change several registers at once.  A register takes a *)
(* write unless its clock is ahead of the write's, some can be emptied by  *)
(* their owner, and closing the account empties all of them.               *)
(***************************************************************************)
EXTENDS Naturals

CONSTANTS
    Entry,      \* the registers
    Erasable,   \* those a client may empty one by one
    Stamp,      \* what a write carries: a clock .at and a value .value
    Empty       \* the content of an empty register

VARIABLE register

Kept(old, new) == IF old # Empty /\ new.at < old.at THEN old ELSE new

\* The values one transaction can leave in a register: some writes of its own,
\* or nothing where the owner may empty it, or nothing and then writes.
After(e) ==
    {register[e]} \cup {Kept(register[e], s) : s \in Stamp}
        \cup IF e \in Erasable THEN {Empty} ELSE {}

Init == register \in [Entry -> Stamp \cup {Empty}]

\* One transaction: any set of registers, all at once.
Transact ==
    /\ register' \in [Entry -> Stamp \cup {Empty}]
    /\ \A e \in Entry : register'[e] \in After(e)

Close == register' = [e \in Entry |-> Empty]

Next == Transact \/ Close

Spec == Init /\ [][Next]_register
=============================================================================
