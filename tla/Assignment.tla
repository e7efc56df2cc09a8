----------------------------- MODULE Assignment -----------------------------
(***************************************************************************)
(* What the coordinator promises about ownership, as if it were one        *)
(* process: shards are members or not, a topology domain has at most one   *)
(* owner and changes hands only by being released first, a cluster is      *)
(* bound once for as long as its shard is a member, and a disaster restore *)
(* goes back to a state the coordinator was once in, never to a new one.   *)
(***************************************************************************)
CONSTANTS Shards, Clusters, Domains, None,
          Begun    \* the assignments that were in force up to the beginning

VARIABLES cur,   \* the assignment in force
          past   \* every assignment that was in force since the last restore

Drop(f, s) == [ x \in DOMAIN f |-> IF f[x] = s THEN None ELSE f[x] ]

Become(a) == cur' = a /\ past' = past \cup { a }

Join(s) == Become([ cur EXCEPT !.members = @ \cup { s } ])

\* A shard that leaves takes its domains and clusters with it.
Leave(s) == Become([ members |-> cur.members \ { s },
                     home    |-> Drop(cur.home, s),
                     owner   |-> Drop(cur.owner, s) ])

Bind(c, s) ==
  /\ s \in cur.members /\ cur.home[c] = None
  /\ Become([ cur EXCEPT !.home[c] = s ])

Assign(d, s) ==
  /\ s \in cur.members /\ cur.owner[d] = None
  /\ Become([ cur EXCEPT !.owner[d] = s ])

Release(d) == Become([ cur EXCEPT !.owner[d] = None ])

Rollback == cur' \in past /\ past' \subseteq past /\ cur' \in past'

Init == cur \in Begun /\ past = Begun

Next ==
  \/ \E s \in Shards : Join(s) \/ Leave(s)
  \/ \E c \in Clusters, s \in Shards : Bind(c, s)
  \/ \E d \in Domains : Release(d) \/ \E s \in Shards : Assign(d, s)
  \/ Rollback

Spec == Init /\ [][Next]_<< cur, past >>
=============================================================================
