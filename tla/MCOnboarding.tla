---------------------------- MODULE MCOnboarding ----------------------------
(* Instances of Onboarding: nobody yet, or an owner with a business that   *)
(* lacks at most two of its parts, or is complete, and a client.           *)
EXTENDS Onboarding

CONSTANTS r1, r2, u1, u2, s1, s2, w1, w2

Parts == [info : BOOLEAN, hours : BOOLEAN, bank : BOOLEAN, twoFactor : BOOLEAN]
Missing(parts) == Cardinality({f \in DOMAIN parts : ~parts[f]})

Left(parts, completed) ==
  [users |-> <<[email |-> u1, password |-> w1, role |-> "business", business |-> 1,
                completed |-> completed, twoFactor |-> parts.twoFactor],
               [email |-> u2, password |-> w1, role |-> "client", business |-> None,
                completed |-> FALSE, twoFactor |-> FALSE]>>,
   businesses |-> <<[email |-> s1, info |-> parts.info, hours |-> parts.hours, services |-> 1,
                     bank |-> parts.bank, billing |-> FALSE, completed |-> completed]>>]

MCBefore ==
  {[users |-> << >>, businesses |-> << >>]}
    \cup {Left(parts, FALSE) : parts \in {x \in Parts : Missing(x) \in 1..2}}
    \cup {Left(parts, TRUE) : parts \in {x \in Parts : Missing(x) = 0}}
=============================================================================
