---------------------------- MODULE MCRateLimiter ----------------------------
(* Instances of RateLimiter for TLC: requests of either kind, requests for *)
(* a link that may fail, and the two limits. Requests that may fail are    *)
(* alike, and so are those that may not, and the addresses.                *)
EXTENDS RateLimiter, TLC

CONSTANTS Steady, LoginMax, LoginWindow, ResetMax, ResetWindow

MCRequests    == Steady \cup Faulty
MCWorkload    == [r \in MCRequests |-> IF r \in Faulty THEN {"forgot"} ELSE Kinds]
MCMaxAttempts == [login |-> LoginMax, forgot |-> ResetMax]
MCWindow      == [login |-> LoginWindow, forgot |-> ResetWindow]

Symmetry ==
  Permutations(Steady) \cup Permutations(Faulty) \cup Permutations(Ips) \cup Permutations(Emails)
=============================================================================
