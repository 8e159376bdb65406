------------------------------- MODULE MCRPMB -------------------------------
(* Instances of RPMB for TLC. *)
EXTENDS RPMB, TLC

\* Any callers over a transport that reports its errors or loses requests silently,
\* one over a transport that replays.
MCSetups == [callers: SUBSET Proc \ {{}}, transport: {"reporting", "lossy"}]
              \cup [callers: {{p} : p \in Proc}, transport: {"replaying"}]

Symmetry == Permutations(Proc) \cup Permutations(Nonce)
=============================================================================
