---------------------------- MODULE MCLegacyRequest ----------------------------
(***************************************************************************)
(* An instance of LegacyRequest for TLC: every mode with the killswitch,   *)
(* and main-first with the refusal of exhausted fallbacks instead.         *)
(***************************************************************************)
EXTENDS LegacyRequest

MCFallbacks == {"f1"}
MCOrder == <<"main", "f1">>
MCConfigs ==
    {[mode |-> m, killswitch |-> TRUE, refused |-> {}] :
        m \in {"main-first", "fallback-first", "sticky-balanced"}}
    \cup {[mode |-> "main-first", killswitch |-> FALSE, refused |-> {"out"}]}
=============================================================================
