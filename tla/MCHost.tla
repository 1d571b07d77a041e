------------------------------- MODULE MCHost -------------------------------
(***************************************************************************)
(* Instances of Host for TLC: one mix of requests for each question, so    *)
(* that the parts which share no state do not multiply.                    *)
(***************************************************************************)
EXTENDS Host

CONSTANTS c1, c2, r1, r2

MCFirstKeys ==
  [adminA |-> [tenant |-> "A", permissions |-> {"admin", "read", "upload", "delete"}],
   plainA |-> [tenant |-> "A", permissions |-> {}],
   adminB |-> [tenant |-> "B", permissions |-> {"admin", "read", "upload", "delete"}]]
MCKeyIds == DOMAIN MCFirstKeys \cup {"newA"}
Row(tenant, stored) == [tenant |-> tenant, stored |-> stored]
MCFirstAssets == <<Row("A", TRUE), Row("B", TRUE), Row("A", FALSE), Row("A", TRUE)>>
MCNewAssets == {5, 6}

Presents(key) == [kind |-> "key", key |-> key, genuine |-> TRUE]
Forged(key) == [kind |-> "key", key |-> key, genuine |-> FALSE]
Worker == [kind |-> "worker", key |-> "", genuine |-> TRUE]
Nothing == [kind |-> "none", key |-> "", genuine |-> FALSE]

Request(route, source, credential, target) ==
  [route |-> route, source |-> source, credential |-> credential, target |-> target,
   wellFormed |-> TRUE, limit |-> 2, cursor |-> 0, permissions |-> {}]

\* Three addresses, one of them mutating as well, that get no further than a guard
Flood == {Request("optimizeContext", s, Nothing, 1) : s \in {"s1", "s2", "s3"}}
         \cup {Request("markFailed", "s1", Nothing, 1)}

KeyAdmin ==
  {[Request("createKey", "s1", Presents("adminA"), "") EXCEPT !.permissions = {"read"}],
   [Request("createKey", "s1", Presents("adminA"), "") EXCEPT !.wellFormed = FALSE],
   Request("revokeKey", "s2", Presents("adminA"), "plainA"),
   Request("revokeKey", "s2", Presents("adminA"), "adminA"),
   Request("revokeKey", "s2", Presents("adminA"), "adminB"),
   Request("listKeys", "s1", Presents("adminB"), ""),
   Request("listKeys", "s1", Presents("plainA"), ""),
   Request("get", "s1", Presents("adminA"), 1),
   Request("get", "s1", Presents("newA"), 1),
   Request("get", "s1", Forged("adminA"), 1)}

AssetTraffic ==
  {Request(r, "s1", Presents("adminA"), 1) : r \in {"get", "variants", "update", "replaceSource", "remove"}}
  \cup {Request(r, "s1", Presents("adminA"), 3) : r \in {"completeUpload", "reprocess"}}
  \cup {Request(r, "s2", Presents("adminB"), 1) : r \in {"get", "update", "completeUpload"}}
  \cup {Request("completeOptimize", "s3", Worker, a) : a \in {1, 9}}
  \cup {Request("optimizeContext", "s3", Worker, 1), Request("readyz", "s3", Nothing, 1), Request("get", "s3", Nothing, 1)}

Listing ==
  {[Request("list", "s1", Presents("adminA"), 0) EXCEPT !.limit = n] : n \in {0, 1, 2}}
  \cup {Request("remove", "s2", Presents("adminA"), a) : a \in {1, 3}}
  \cup {Request("createUpload", "s2", Presents("adminA"), 0)}

Mix(requests, n, timed) == [requests |-> requests, arrivals |-> n, timed |-> timed, scheduled |-> FALSE]
MCTraffic ==
  {Mix(Flood, 6, TRUE), Mix(KeyAdmin, 3, FALSE), Mix(AssetTraffic, 3, FALSE), Mix(Listing, 4, FALSE),
   [requests |-> {}, arrivals |-> 0, timed |-> FALSE, scheduled |-> TRUE]}
=============================================================================
