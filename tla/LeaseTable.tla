----------------------------- MODULE LeaseTable -----------------------------
(***************************************************************************)
(* What an address pool promises: an address is lent to one client at a    *)
(* time, a client borrows at most one, and an address changes hands only   *)
(* by being returned first, or when the whole table is reset.              *)
(***************************************************************************)
CONSTANTS Mac, Ip

VARIABLE lent  \* pairs: a client and the address it borrows

Init == lent = {}

Grant(m, i) ==
  /\ \A l \in lent : l[1] # m /\ l[2] # i
  /\ lent' = lent \cup {<<m, i>>}

Return(m, i) ==
  /\ <<m, i>> \in lent
  /\ lent' = lent \ {<<m, i>>}

Reset == lent' = {}

Next == Reset \/ \E m \in Mac, i \in Ip : Grant(m, i) \/ Return(m, i)

Spec == Init /\ [][Next]_lent

=============================================================================
