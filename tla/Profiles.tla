------------------------------ MODULE Profiles ------------------------------
(***************************************************************************)
(* Which machines a Need's Profile admits, and which of them the indexes   *)
(* by instance type find: pkg/decision/match.go, its copy in               *)
(* pkg/decision/occ/match.go, and pinnedInstanceTypes.                     *)
(*                                                                         *)
(* A requirement has a key, an operator and a set of values; a machine's   *)
(* attributes are its instance type and zone (Profile.InstanceType and     *)
(* Profile.Zone, "" when the provider leaves them out) and its labels.     *)
(***************************************************************************)
EXTENDS Sequences

TypeKey == "node.kubernetes.io/instance-type"
ZoneKey == "topology.kubernetes.io/zone"

\* The value of a key: one, or none.  The two well-known keys are read from the
\* machine's profile first.
lookupAttribute(key, a) ==
    LET known == CASE key = TypeKey -> a.type [] key = ZoneKey -> a.zone [] OTHER -> ""
    IN IF known # "" THEN {known}
       ELSE {a.labels[k] : k \in DOMAIN a.labels \cap {key}}

\* NotIn holds of a machine without the key; Same constrains one machine as
\* Exists does, or as In when it lists values; an unknown operator admits none.
matchRequirement(r, a) ==
    LET val == lookupAttribute(r.key, a)
    IN CASE r.op = "In"           -> val \cap r.values # {}
         [] r.op = "NotIn"        -> val \cap r.values = {}
         [] r.op = "Exists"       -> val # {}
         [] r.op = "DoesNotExist" -> val = {}
         [] r.op = "Same"         -> val # {} /\ (r.values = {} \/ val \subseteq r.values)
         [] OTHER                 -> FALSE

MatchProfile(reqs, a) == \A i \in DOMAIN reqs : matchRequirement(reqs[i], a)

\* The instance types a Profile is confined to: those of its first requirement
\* on the type, when that is an In.  Empty means that it is not confined.
pinnedInstanceTypes(reqs) ==
    LET on == SelectSeq(reqs, LAMBDA r : r.key = TypeKey)
    IN IF on # <<>> /\ Head(on).op = "In" THEN Head(on).values ELSE {}

=============================================================================
