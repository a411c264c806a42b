----------------------------- MODULE MCPageTable -----------------------------
(* Instances of PageTable for TLC.                                          *)
EXTENDS PageTable

CONSTANTS rw, lent, no

\* Memory the VM can access, memory it owns and has lent, other memory.
MCValid == {rw}

MCOwned == {rw, lent}

MCUnowned == {no}

==============================================================================
