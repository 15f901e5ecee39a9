---------------------------- MODULE MCStateStore ----------------------------
(* Small instances of StateStore: the disks a daemon may find.             *)
EXTENDS StateStore, TLC

Holding(rev, content) ==
    [doc |-> [rev |-> rev, content |-> content, temporary |-> FALSE, committed |-> TRUE],
     old |-> FALSE, synced |-> TRUE]
Obsolete(file) == [file EXCEPT !.old = TRUE]
Broken(what) == [doc |-> what, old |-> FALSE, synced |-> TRUE]
Disk(first, second) == [primary |-> first, backup |-> second]

Other == CHOOSE c \in Contents : c # Default

(* A first boot, and a daemon that has run before.                         *)
UsedDisks == {Disk(None, None), Disk(Holding(1, Other), None)}

(* What upgrades, downgrades and damage leave behind.                      *)
WornDisks == {
    Disk(Obsolete(Holding(1, Other)), None),
    Disk(Broken(Garbled), Holding(1, Other)),
    Disk(Broken(Garbled), Obsolete(Holding(1, Other))),
    Disk(Broken(Newer), Holding(1, Other)),
    Disk(Broken(Garbled), Broken(Newer)) }

AnyDisk == UsedDisks \cup WornDisks

(* Any save may stand for any other.                                       *)
Interchangeable == Permutations(Tasks)

OneDisk == {Disk(Holding(1, Other), None)}
DamagedDisk == {Disk(Broken(Garbled), Holding(1, Other))}
=============================================================================
