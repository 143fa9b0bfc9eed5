-------------------------- MODULE SecretStoreRefines --------------------------
(***************************************************************************)
(* SecretStore implements ReadBudget: a capped secret is a resource whose  *)
(* quota is its cap, live while its row is in the table, and a request is  *)
(* granted a read when its claim returns a read_count.                     *)
(***************************************************************************)
EXTENDS SecretStore

Capped(i) == i \in DOMAIN sec /\ Cap(sec[i].flags) # NoMax

liveBar == {i \in rows : Capped(i)}

\* A cap below zero admits no read, as a cap of zero does.
quotaBar ==
    [i \in Id |-> IF ~Capped(i) THEN NoMax
                  ELSE IF Cap(sec[i].flags) < 0 THEN 0 ELSE Cap(sec[i].flags)]

grantedBar == [i \in Id |-> {r \in Req : ticket[r] # 0 /\ rid[r] = i}]

Budget == INSTANCE ReadBudget
            WITH NoQuota <- NoMax, live <- liveBar,
                 quota <- quotaBar, granted <- grantedBar

\* Every step of the handlers issues, grants, retires or leaves alone the
\* read budgets: the claim statement alone decides who reads.
RefinesReadBudget == Budget!Spec
=============================================================================
