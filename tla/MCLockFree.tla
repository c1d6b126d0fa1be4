----------------------------- MODULE MCLockFree -----------------------------
(* Small instances of LockFreeDedup for TLC. *)
EXTENDS LockFreeDedup

Mode(exhaustive, exclusive, deleteOnly, collectOnly) ==
  [exhaustive |-> exhaustive, exclusive |-> exclusive, deleteOnly |-> deleteOnly,
   collectOnly |-> collectOnly, ignored |-> {}]

NormalModes == {Mode(FALSE, FALSE, FALSE, FALSE), Mode(TRUE, FALSE, FALSE, FALSE)}

ExclusiveModes == {Mode(FALSE, TRUE, FALSE, FALSE), Mode(TRUE, TRUE, FALSE, FALSE)}

NormalOrExclusive == NormalModes \union ExclusiveModes

OptionModes ==
  NormalModes \union ExclusiveModes \union
    {Mode(FALSE, FALSE, TRUE, FALSE), Mode(TRUE, FALSE, FALSE, TRUE)}

(* a goes on for longer than the others. *)
Revisions == [i \in Id |-> IF i = "a" THEN 3 ELSE 2]

TwoRevisions == [i \in Id |-> 2]

(* Beside a's backups, the others make their first. *)
FirstOfOthers == [i \in Id |-> IF i = "a" THEN 3 ELSE 1]

OwnHosts == [i \in Id |-> i]

=============================================================================
