----------------------------- MODULE MCSidebar -----------------------------
EXTENDS Sidebar

CONSTANTS p1, p2, s1, s2

MCVersions == {[p \in Processes |-> "v1"]} \cup {k \in [Processes -> {"v1", "v2"}] : k[p1] # k[p2]}
MCScenes ==
    {[of |-> {"request", "tick", "read", "failure", "killswitch", "display"}, most |-> 3],
     [of |-> {"request", "enrollment", "deletion", "clear", "failure", "reload", "exit",
              "display"}, most |-> 3],
     [of |-> {"reading", "login", "tick", "failure", "display"}, most |-> 4],
     [of |-> {"reading", "login", "tick", "enrollment"}, most |-> 3]}
MCSymmetry == Permutations(Sessions) \cup Permutations(Processes)
=============================================================================
