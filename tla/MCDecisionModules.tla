------------------------- MODULE MCDecisionModules -------------------------
(* Model values and small configurations for DecisionModules.            *)
EXTENDS DecisionModules, TLC

CONSTANTS s1, s2

MCSources == {s1, s2}

\* a usable configuration: expire after 2 s, accept within [allow, 3] s
Usable(allow) == [backup |-> TRUE, backup_file |-> TRUE,
                  expiration |-> 2, deny_after |-> 3, allow_after |-> allow]

\* allow_after 0 and 1, a misconfiguration (allow_after = deny_after) and
\* nodes without "backup" or without "backup_file"
MCSourceConfigs ==
    {Usable(0), Usable(1), Usable(3),
     [Usable(0) EXCEPT !.backup = FALSE], [Usable(0) EXCEPT !.backup_file = FALSE]}

\* RAND_MAX + 1 = 8 stands for 2^31; a uint32 value is below 2 * 2^31
MCRandMax == 7
\* an absent value, 0, and every value up to 2 * (RAND_MAX + 1) - 1
MCRandomValues == {NoValue} \cup 0..15

MCSymmetry == Permutations(MCSources)
=============================================================================
