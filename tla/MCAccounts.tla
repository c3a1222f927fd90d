----------------------------- MODULE MCAccounts -----------------------------
(* Model values and symmetry for checking Accounts.                        *)
EXTENDS Accounts, TLC

MCSymmetry == Permutations(Emails) \cup Permutations(LinkRequests)
              \cup Permutations(Verifications)

(* Bound: of the calls that carry a session token, two are made.           *)
TwoSessionCalls ==
  Cardinality({h \in Checks \cup SignOuts \cup Saves : at[h] # "idle"}) <= 2
=============================================================================
