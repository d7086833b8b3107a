------------------------------ MODULE MCInventory ------------------------------
(* File systems with two roots, two nested or sibling directories, three or
   four names and two or three inodes. *)
EXTENDS Inventory

MCDirs == {"r", "a", "b", "s"}
MCFiles == {"f", "g", "h", "k"}
MCInodes == {1, 2, 3}
MCRoots == {<<"r", "s">>, <<"k", "r">>}
MCBudgets == {3, 5, 12}

FileSystem(bIn, place, inode, outside, mounts) ==
    LET dir == [d \in MCDirs |-> IF d \in {"r", "s"} THEN {d} ELSE IF d = "a" THEN {"r", "a"} ELSE bIn]
    IN [above |-> [e \in MCDirs \cup MCFiles |-> IF e \in MCDirs THEN dir[e] ELSE dir[place[e]]],
        inode |-> inode, outside |-> outside, mounts |-> mounts]

Places == {p \in [MCFiles -> MCDirs] : p["f"] = "a" /\ p["g"] \in {"a", "b"} /\ p["h"] \in {"r", "a", "b"} /\ p["k"] = "s"}
Linkings == {[f \in MCFiles |-> CASE f = "f" -> 1 [] f = "g" -> g [] f = "h" -> h [] OTHER -> k] : g \in {1, 2}, h \in {1, 2}, k \in {1, 3}}
MCFileSystems ==
    {FileSystem(b, p, i, [j \in MCInodes |-> IF j = o THEN 1 ELSE 0], m) :
        b \in {{"r", "b"}, {"r", "a", "b"}}, p \in Places, i \in Linkings, o \in {0, 1}, m \in {{}, {"b"}}}
=============================================================================
