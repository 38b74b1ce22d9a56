------------------------------ MODULE MCGateway ------------------------------
(***************************************************************************)
(* The storm tables and what the gateway makes of them: storm-analytics, a *)
(* public walk over the storms, the public views of the segments, and      *)
(* owner-scoped calls.                                                     *)
(***************************************************************************)
EXTENDS OwnerQueries, StormQueries, PublicViews, MCStormAnalytics

Token(sub, exp, azp) ==
    [alg |-> "RS256", key |-> "k1", iss |-> "clerk", sub |-> sub, iat |-> 0, exp |-> exp, azp |-> azp]
Bearer(t) == [scheme |-> "bearer", token |-> t]

MCHeaders ==
    {<<>>, <<Bearer(Token("alice", 1, "web"))>>, <<Bearer(Token("bob", 5, "web"))>>,
     <<Bearer(Token("bob", 5, "other"))>>,
     <<Bearer(Token("alice", 1, "web")), Bearer(Token("bob", 5, "web"))>>}

MCPageSizes == {-1, 0, 2, 9}

MCHomeOf == [a \in {"a1", "a2"} |-> IF a = "a1" THEN "h1" ELSE None]

MCSegmentOf == [h \in {"v1", "v2", "v3"} |-> IF h = "v3" THEN "s2" ELSE "s1"]
MCMetricRows == {[volume |-> 1, lag |-> 2], [volume |-> 3, lag |-> NoLag]}

\* The parts change no table of each other, so they are explored one at a time.
VARIABLE part

MCInit ==
    /\ OwnerInit /\ QueryInit /\ ViewsInit /\ Init
    /\ part \in {"owner", "storms", "views", "analytics"}
    /\ part # "owner" => owners = {}
    /\ part # "storms" => storms = <<>>
    /\ part # "analytics" => load = CHOOSE l \in Loads : TRUE

MCNext ==
    /\ UNCHANGED part
    /\ \/ part = "owner" /\ OwnerNext /\ UNCHANGED <<queryVars, viewVars, vars>>
       \/ part = "storms" /\ QueryNext /\ UNCHANGED <<ownerVars, viewVars, vars>>
       \/ part = "views" /\ ViewsNext /\ UNCHANGED <<ownerVars, queryVars, vars>>
       \/ part = "analytics" /\ Next /\ UNCHANGED <<ownerVars, queryVars, viewVars>>

MCSpec == MCInit /\ [][MCNext]_<<part, ownerVars, queryVars, viewVars, vars>>
=============================================================================
