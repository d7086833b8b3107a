------------------------- MODULE MCRepositoryCleanup -------------------------
(* The worktrees of MCWorktreeCleanup; and a worktree whose generated
   directory holds another worktree with a generated directory of its own. *)
EXTENDS RepositoryCleanup, MCWorktreeCleanup

MCCheckouts == {"outside", "inside"}
MCDirs == {"out", "target"}
MCHomeOf == [out |-> "outside", target |-> "inside"]
MCTree == [outside |-> {"outside", "out", "inside", "target"}, out |-> {"out", "inside", "target"},
           inside |-> {"inside", "target"}, target |-> {"target"}]
MCCargo == {"target"}

Scheduled(pressure) ==
    [inUse |-> TRUE, activityOnly |-> FALSE, pressure |-> pressure, timeout |-> TRUE]
Manual == [inUse |-> FALSE, activityOnly |-> TRUE, pressure |-> "off", timeout |-> FALSE]

Directory(kind, days, sweep) ==
    [kind |-> kind, gen |-> 1, days |-> days, tracked |-> FALSE, sweep |-> sweep, locks |-> TRUE]

Inside(days, whole) ==
    [age |-> [outside |-> 2, inside |-> days], tidy |-> whole]
Old  == Inside(2, {})
New  == Inside(0, {})
Over == Inside(2, {"inside"})

Opening(set, c, target) ==
    [settings |-> set, age |-> c.age, tidy |-> c.tidy, people |-> {}, leases |-> {},
     dir |-> [out |-> Directory("Delete", 2, "none"), target |-> target]]

AgedOnce == Directory("Delete", 1, "none")
Swept  == Directory("SweepOnly", 2, "work")

MCOpenings ==
    {Opening(Scheduled("off"), c, k) :
        c \in {Old, Over},
        k \in {AgedOnce, Swept, Directory("Delete", 0, "work"), Directory("Delete", 2, "refused"),
               [Directory("Delete", 2, "none") EXCEPT !.locks = FALSE],
               Directory("ReportOnly", 2, "none")}}
    \cup {Opening(s[1], s[2], k) :
        s \in {<<Scheduled("off"), New>>, <<Scheduled("ownerFree"), Old>>,
               <<Scheduled("ownerFree"), New>>, <<Scheduled("window"), Old>>, <<Manual, New>>},
        k \in {AgedOnce, Swept}}
=============================================================================
