----------------------------- MODULE MCMandate -----------------------------
(***************************************************************************)
(* Small instances of Mandate for TLC.                                     *)
(***************************************************************************)
EXTENDS Mandate, TLC

CONSTANTS o1, o2, shop

Tight ==
    [cap |-> 3, daily |-> 3, monthly |-> 4, depositDaily |-> 2, threshold |-> 1,
     payees |-> {shop}, deposit |-> "owner", withdrawal |-> "owner"]
Loose ==
    [Tight EXCEPT !.daily = NoCap, !.monthly = NoCap, !.threshold = NoCap,
                  !.deposit = "agent", !.withdrawal = "agent"]
EmptyBand == [Tight EXCEPT !.threshold = 3]

Default ==
    [cap |-> 3, daily |-> 3, monthly |-> NoCap, depositDaily |-> 2,
     threshold |-> 2, payees |-> {shop}, deposit |-> "owner",
     withdrawal |-> "agent"]

Doc(owner, policy, issued, expires, countersigned, initial) ==
    [owner |-> owner, policy |-> policy, issued |-> issued, expires |-> expires,
     countersigned |-> countersigned, initial |-> initial]

\* The first owner's mandate and its replacement, and a second owner's with
\* and without the first one's signature; one has no approval band.
OwnerDocuments ==
    {Doc(o1, Tight, 0, 2, {}, 0), Doc(o1, Loose, 2, 9, {}, 0),
     Doc(o2, Loose, 1, 9, {}, 0), Doc(o2, Tight, 1, 9, {o1}, 0),
     Doc(o1, EmptyBand, 2, 9, {}, 0)}

SpendingDocuments ==
    {Doc(o1, Tight, 0, 3, {}, 1), Doc(o2, Tight, 1, 9, {o1}, 0)}

Ask(kind, amount) == [kind |-> kind, amount |-> amount, payee |-> shop,
                      bound |-> TRUE]
SpendingRequests == {Ask("yield_realize", 2), Ask("deposit", 1)}
UnboundRequest == {[Ask("yield_realize", 9) EXCEPT !.bound = FALSE]}

FlowSymmetry == Permutations(Flows)
Symmetric == Permutations(Flows) \cup Permutations(Approvals)
=============================================================================
