---------------------------- MODULE SameBuckets ----------------------------
(***************************************************************************)
(* How a Same Need ranks the topology domains it could be served in:       *)
(* ChooseSameBucket of pkg/decision/occ/samebucket.go.  A bucket is one    *)
(* domain's supply for the Need:                                           *)
(*   sat    the domain's supply covers the Need                            *)
(*   cred   supply already bound to the Need's cluster, capped at the want *)
(*   own    the part of cred that is stamped with this very gang           *)
(*   total  creditable and acquirable supply together                      *)
(*   count  the number of machines                                         *)
(* Scores are units instead of ratios: one resource dimension orders them  *)
(* the same way.                                                           *)
(***************************************************************************)
EXTENDS Naturals

\* The order of ChooseSameBucket: does domain d with bucket a beat e with b?
BetterBucket(d, a, e, b) ==
    \/ a.sat /\ ~b.sat
    \/ /\ a.sat /\ b.sat
       /\ \/ a.cred > b.cred
          \/ a.cred = b.cred /\ a.own > b.own
          \/ a.cred = b.cred /\ a.own = b.own /\ a.total < b.total
          \/ /\ a.cred = b.cred /\ a.own = b.own /\ a.total = b.total
             /\ a.count > b.count \/ (a.count = b.count /\ d < e)
    \/ /\ ~a.sat /\ ~b.sat
       /\ \/ a.total > b.total
          \/ a.total = b.total /\ a.cred > b.cred
          \/ /\ a.total = b.total /\ a.cred = b.cred
             /\ a.count > b.count \/ (a.count = b.count /\ d < e)

=============================================================================
