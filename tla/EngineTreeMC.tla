----------------------------- MODULE EngineTreeMC -----------------------------
(* A small estate for TLC: a data center with a cluster and its host, and   *)
(* with a network and its profile; a second data center, so that URLs can   *)
(* go through the wrong parent; an attached storage domain; a domain with a *)
(* user, a role with a permission and a tag.  Other kinds come from POST.    *)
EXTENDS EngineTree, TLC

CONSTANTS d1, d2, c1, h1, n1, p1, s1, o1, u1, r1, m1, t1, x1, x2, old, new

Row(kind, up, name) == [kind |-> kind, up |-> up, name |-> name, note |-> Blank]

MCDefaultTag == new

MCSeed ==
  [objects |->
     [o \in {d1, d2, c1, h1, n1, p1, s1, o1, u1, r1, m1, t1} |->
        CASE o = d1 -> Row("datacenter", None, old)
          [] o = d2 -> Row("datacenter", None, new)
          [] o = c1 -> Row("cluster", d1, old)
          [] o = h1 -> Row("host", c1, old)
          [] o = n1 -> Row("network", d1, old)
          [] o = p1 -> Row("profile", n1, old)
          [] o = s1 -> Row("storage", None, old)
          [] o = o1 -> Row("domain", None, old)
          [] o = u1 -> Row("user", o1, old)
          [] o = m1 -> Row("permission", r1, old)
          [] o = r1 -> Row("role", None, old)
          [] o = t1 -> Row("tag", None, old)],
   links |-> [l \in {<<s1, d1>>} |-> "active"]]

MCSymmetry == Permutations({x1, x2}) \cup Permutations(Req)
===============================================================================
