----------------------------- MODULE PathMap -----------------------------
(***************************************************************************)
(* Paths between Codarr and another service, and the instance that owns a  *)
(* file (pkg/pathmap).  A normalised path is the sequence of its names,    *)
(* the file system's root being the empty one.  A rule rewrites a prefix;  *)
(* a mapping is a pair of them, of which the one to Codarr's view is here. *)
(***************************************************************************)
EXTENDS Integers, Sequences

CONSTANTS
    NoName,     \* the empty name a double slash leaves
    NoInstance  \* no *arr instance

UnderPrefix(p, prefix) ==
    Len(prefix) <= Len(p) /\ SubSeq(p, 1, Len(prefix)) = prefix

\* What New builds from the mappings of one service.
ToLocalRules(mappings) ==
    [i \in DOMAIN mappings |-> [from |-> mappings[i].remote, to |-> mappings[i].local]]

\* The longest prefix, and of two rules for the same one the first given.
BestRule(rules, p) ==
    CHOOSE i \in DOMAIN rules :
       /\ UnderPrefix(p, rules[i].from)
       /\ \A k \in DOMAIN rules : UnderPrefix(p, rules[k].from) =>
             \/ Len(rules[i].from) > Len(rules[k].from)
             \/ Len(rules[i].from) = Len(rules[k].from) /\ i <= k

Mapped(rules, p) == \E i \in DOMAIN rules : UnderPrefix(p, rules[i].from)

\* The rest of the path is appended to the rule's target as it stands: a target
\* that is the root directory leaves a double slash.
Rewrite(rule, p) ==
    LET rest == SubSeq(p, Len(rule.from) + 1, Len(p))
    IN IF rule.to = <<>> /\ rule.from # <<>> /\ rest # <<>>
       THEN <<NoName>> \o rest ELSE rule.to \o rest

\* A path no rule covers is passed on as it is.
Apply(rules, p) ==
    IF Mapped(rules, p) THEN Rewrite(rules[BestRule(rules, p)], p) ELSE p

Normalise(p) == SelectSeq(p, LAMBDA name : name # NoName)

ToLocal(mappings, p) == Apply(ToLocalRules(mappings), p)

-----------------------------------------------------------------------------
(* Attribution.  A root has a path, the instance it was given, if any, and a *)
(* switch.                                                                   *)

Covers(root, p) == root.enabled /\ UnderPrefix(p, Normalise(root.path))

LongestPrefixMatches(roots, p) ==
    {r \in roots : /\ Covers(r, p)
                   /\ \A other \in roots :
                         Covers(other, p) =>
                            Len(Normalise(other.path)) <= Len(Normalise(r.path))}

DistinctInstances(roots) == {r.owner : r \in roots} \ {NoInstance}

\* The sole owner of the deepest enabled root; two owners are not guessed at.
Attribute(roots, p) ==
    LET owners == DistinctInstances(LongestPrefixMatches(roots, p))
    IN IF \E owner \in owners : owners = {owner}
       THEN CHOOSE owner \in owners : TRUE ELSE NoInstance
=============================================================================
