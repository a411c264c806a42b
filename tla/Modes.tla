-------------------------------- MODULE Modes --------------------------------
(***************************************************************************)
(* The page mapping modes of hfo2/src/mm.rs, the attribute bits that the   *)
(* stage-2 entries of src/arch/aarch64/mm.c keep of them, and the memory   *)
(* states that the two software bits and the valid bit encode.             *)
(*                                                                         *)
(* A mode is the set of the flags that are set in the bit mask.  The       *)
(* attributes of an entry are the set of the bits that are set in the      *)
(* entry; only the bits that some reader of the entry tells apart are      *)
(* kept.                                                                   *)
(***************************************************************************)

Flag == {"R", "W", "X", "D", "INVALID", "UNOWNED", "SHARED"}

Mode == SUBSET Flag

\* The bits of a stage-2 entry.  AF stands for the constant part that every
\* entry written by arch_mm_mode_to_stage2_attrs has (access flag, memory
\* type); OWNED and EXCLUSIVE are the two software bits.
AttrBit == {"AF", "S2AP_R", "S2AP_W", "XN", "OWNED", "EXCLUSIVE", "VALID"}

Attrs == SUBSET AttrBit

\* arch_mm_absent_pte: the entry is zero.
AbsentPte == {}

mode_to_stage2_attrs(mode) ==
  {"AF"}
    \cup (IF "R" \in mode THEN {"S2AP_R"} ELSE {})
    \cup (IF "W" \in mode THEN {"S2AP_W"} ELSE {})
    \cup (IF "X" \in mode THEN {} ELSE {"XN"})
    \cup (IF "UNOWNED" \in mode THEN {} ELSE {"OWNED"})
    \cup (IF "SHARED" \in mode THEN {} ELSE {"EXCLUSIVE"})
    \cup (IF "INVALID" \in mode THEN {} ELSE {"VALID"})

stage2_attrs_to_mode(attrs) ==
  (IF "S2AP_R" \in attrs THEN {"R"} ELSE {})
    \cup (IF "S2AP_W" \in attrs THEN {"W"} ELSE {})
    \cup (IF "XN" \in attrs THEN {} ELSE {"X"})
    \cup (IF "OWNED" \in attrs THEN {} ELSE {"UNOWNED"})
    \cup (IF "EXCLUSIVE" \in attrs THEN {} ELSE {"SHARED"})
    \cup (IF "VALID" \in attrs THEN {} ELSE {"INVALID"})

\* Mode::valid_owned_exclusive.
valid_owned_exclusive(mode) == mode \cap {"INVALID", "UNOWNED", "SHARED"} = {}

RWX == {"R", "W", "X"}

\* The part of a mode that describes the sharing state (`state_mask` of
\* spci_msg_get_next_state).
StateMask == {"INVALID", "UNOWNED", "SHARED"}
=============================================================================
