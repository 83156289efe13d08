--------------------------- MODULE MCAccountStore ---------------------------
(* Model checking instance of AccountStore: three operations at once, two of *)
(* them in one process.                                                      *)
EXTENDS AccountStore, TLC

CONSTANTS a, b, t1, t2, t3, p1, p2

MCHome == t1 :> p1 @@ t2 :> p1 @@ t3 :> p2

\* A loop in the first process, beside one operation in the same process and
\* one in the other; three loops; two logins beside a removal.
MCScenes ==
    { s \in [Tasks -> Kinds] :
        \/ /\ s[t1] = "pass"
           /\ s[t2] \in {"clear", "union", "migrate"}
           /\ s[t3] \in {"pass", "add", "remove", "migrate"}
        \/ /\ s[t1] = "select"
           /\ s[t2] \in {"used", "remove"}
           /\ s[t3] \in {"select", "union", "keep"}
        \/ s[t1] = "pass" /\ s[t2] = "select" /\ s[t3] = "pass"
        \/ s[t1] = "add" /\ s[t2] = "add" /\ s[t3] = "remove" }

=============================================================================
