---------------------------- MODULE OwnerQueries ----------------------------
(***************************************************************************)
(* The owner-scoped calls of the gateway: authentication, the ownership    *)
(* check, the queries behind the answer and the acknowledgement that is    *)
(* forwarded to the alerts service, while the operator links and unlinks   *)
(* owners.                                                                 *)
(*                                                                         *)
(* A token is a record of the claims the verifier looks at; its signature  *)
(* is good when its key is one the issuer publishes.  Every query of a     *)
(* call reads the database on its own (the pool, no transaction).          *)
(***************************************************************************)
EXTENDS Integers, Sequences, FiniteSets

CONSTANTS
    Clients,
    Headers,          \* the authorization values of a call
    Subjects, Homes,
    Alerts,           \* alert ids
    HomeOf,           \* alerts.home_id; an unlinked device's alert has none
    Issuer, Keys, Parties, Leeway,   \* the verifier's configuration
    MaxNow, MaxLinks  \* bounds

None == "none"

ASSUME OwnerAssumption ==
    /\ HomeOf \in [Alerts -> Homes \cup {None}] /\ None \notin Homes
    /\ Leeway \in Nat /\ MaxNow \in Nat /\ MaxLinks \in Nat

\* The times of a bearer token are numbers: the parser rejects any other.
ASSUME HeadersAssumption ==
    \A vals \in Headers : Len(vals) = 1 /\ vals[1].scheme = "bearer" =>
        vals[1].token.iat \in Int /\ vals[1].token.exp \in Int

VARIABLES
    now,        \* the gateway's clock
    owners,     \* home_owners
    everOwned,  \* every link there ever was (history)
    links,      \* changes of home_owners so far
    calls,      \* per client: the call under way
    acks,       \* per alert: acked_at and who acknowledged
    forwarded,  \* Acknowledge calls on their way to the alerts service
    shown       \* what was answered: the home and the call's token and start (history)

ownerVars == <<now, owners, everOwned, links, calls, acks, forwarded, shown>>

Idle == [pc |-> "idle"]
Unacked == [at |-> -1, by |-> None]

OwnerInit ==
    /\ now = 0 /\ links = 0
    /\ owners \in SUBSET (Subjects \X Homes) /\ everOwned = owners
    /\ calls = [c \in Clients |-> Idle]
    /\ acks = [a \in Alerts |-> Unacked]
    /\ forwarded = {} /\ shown = {}

------------------------------------------------------------------------------
(* Authentication.                                                         *)

\* Faulty: tokens are not held to the authorized parties and the expiry.
VerifyLax(t) == t.alg = "RS256" /\ t.key \in Keys /\ t.iss = Issuer /\ t.sub # ""

\* Verify: RS256 by a known key, our issuer, an expiry that has not passed, a
\* subject, and an authorized party when some are configured.
Verify(t) ==
    /\ t.alg = "RS256" /\ t.key \in Keys /\ t.iss = Issuer
    /\ now < t.exp + Leeway /\ t.iat <= now + Leeway
    /\ t.sub # ""
    /\ Parties = {} \/ t.azp \in Parties

\* Authenticate: no header is an anonymous caller, anything but one valid
\* bearer token is rejected.
Authenticate(vals) ==
    IF vals = <<>> THEN "anonymous"
    ELSE IF Len(vals) = 1 /\ vals[1].scheme = "bearer" /\ Verify(vals[1].token)
    THEN "owner" ELSE "rejected"

\* RequireOwner after the interceptor: anonymous and rejected callers are
\* UNAUTHENTICATED.
RequireOwner(vals) == Authenticate(vals) = "owner"

------------------------------------------------------------------------------
(* Queries.                                                                *)

OwnsHome(sub, h) == <<sub, h>> \in owners
OwnsAlert(sub, a) == HomeOf[a] # None /\ OwnsHome(sub, HomeOf[a])
GetOwnedHome(sub, h) == {x \in Homes : x = h /\ <<sub, x>> \in owners}
ListOwnedHomes(sub) == {h \in Homes : OwnsHome(sub, h)}
ListOwnerActiveAlerts(sub, hs) == {a \in Alerts : OwnsAlert(sub, a) /\ HomeOf[a] \in hs}

Call(pc, vals) == [pc |-> pc, token |-> vals[1].token, since |-> now, homes |-> {}, alert |-> None]
Show(call, hs) ==
    shown' = shown \cup {[home |-> h, token |-> call.token, at |-> call.since] : h \in hs}

\* GetHome, first query: a home of somebody else is NotFound like no home.
GetHome(c, h, vals) ==
    /\ calls[c].pc = "idle" /\ RequireOwner(vals)
    /\ GetOwnedHome(vals[1].token.sub, h) # {}
    /\ calls' = [calls EXCEPT ![c] = [Call("detail", vals) EXCEPT
                                      !.homes = GetOwnedHome(vals[1].token.sub, h)]]
    /\ UNCHANGED <<now, owners, everOwned, links, acks, forwarded, shown>>

\* ListMyHomes, first query.
ListMyHomes(c, vals) ==
    /\ calls[c].pc = "idle" /\ RequireOwner(vals)
    /\ calls' = [calls EXCEPT ![c] = [Call("detail", vals) EXCEPT
                                      !.homes = ListOwnedHomes(vals[1].token.sub)]]
    /\ UNCHANGED <<now, owners, everOwned, links, acks, forwarded, shown>>

\* home: devices, latest reading, open alerts, baseflow and storms by home id.
home(c) == calls[c].homes

HomeDetail(c) ==
    /\ calls[c].pc = "detail"
    /\ Show(calls[c], home(c))
    /\ calls' = [calls EXCEPT ![c] = Idle]
    /\ UNCHANGED <<now, owners, everOwned, links, acks, forwarded>>

\* ListMyAlerts: with a home filter the home must be the caller's; the alerts
\* are selected by the caller's links again.
ListMyAlerts(c, filter, vals) ==
    /\ calls[c].pc = "idle" /\ RequireOwner(vals)
    /\ LET sub == vals[1].token.sub
       IN  /\ filter # None => OwnsHome(sub, filter)
           /\ Show(Call("idle", vals),
                   {HomeOf[a] : a \in ListOwnerActiveAlerts(sub, IF filter = None THEN Homes ELSE {filter})})
    /\ UNCHANGED <<now, owners, everOwned, links, calls, acks, forwarded>>

------------------------------------------------------------------------------
(* AcknowledgeMyAlert.                                                     *)

\* Faulty: any owner may acknowledge any alert.
MayAcknowledgeAny(sub, a) == ListOwnedHomes(sub) # {}

MayAcknowledge(sub, a) == OwnsAlert(sub, a)

\* The ownership check, then the call to the alerts service.
AcknowledgeMyAlert(c, a, vals) ==
    /\ calls[c].pc = "idle" /\ RequireOwner(vals)
    /\ MayAcknowledge(vals[1].token.sub, a)
    /\ calls' = [calls EXCEPT ![c] = [Call("forwarded", vals) EXCEPT !.alert = a]]
    /\ forwarded' = forwarded \cup {[client |-> c, alert |-> a, by |-> vals[1].token.sub]}
    /\ UNCHANGED <<now, owners, everOwned, links, acks, shown>>

\* acked_at = coalesce(acked_at, now).
Acknowledged(k, f) == IF k.at = -1 THEN [at |-> now, by |-> f.by] ELSE k

\* The alerts service serves the call, also one the gateway gave up on.
Acknowledge(f) ==
    /\ forwarded' = forwarded \ {f}
    /\ acks' = [acks EXCEPT ![f.alert] = Acknowledged(@, f)]
    /\ calls' = IF calls[f.client].pc = "forwarded" /\ calls[f.client].alert = f.alert
                THEN [calls EXCEPT ![f.client].pc = "acknowledged"] ELSE calls
    /\ UNCHANGED <<now, owners, everOwned, links, shown>>

\* The answer shows the alert to its caller.
AckReply(c) ==
    /\ calls[c].pc = "acknowledged"
    /\ Show(calls[c], {HomeOf[calls[c].alert]})
    /\ calls' = [calls EXCEPT ![c] = Idle]
    /\ UNCHANGED <<now, owners, everOwned, links, acks, forwarded>>

\* alertsTimeout, a refused call or no alerts service: Unavailable.  The call
\* may still be served, or be lost.
AckUnavailable(c) ==
    /\ calls[c].pc \in {"forwarded", "acknowledged"}
    /\ calls' = [calls EXCEPT ![c] = Idle]
    /\ \/ UNCHANGED forwarded
       \/ forwarded' = {f \in forwarded : f.client # c}
    /\ UNCHANGED <<now, owners, everOwned, links, acks, shown>>

------------------------------------------------------------------------------
\* The operator links an owner or removes the link.
ChangeOwner(sub, h) ==
    /\ links < MaxLinks /\ links' = links + 1
    /\ owners' = IF OwnsHome(sub, h) THEN owners \ {<<sub, h>>} ELSE owners \cup {<<sub, h>>}
    /\ everOwned' = everOwned \cup owners'
    /\ UNCHANGED <<now, calls, acks, forwarded, shown>>

Tick ==
    /\ now < MaxNow /\ now' = now + 1
    /\ UNCHANGED <<owners, everOwned, links, calls, acks, forwarded, shown>>

OwnerNext ==
    \/ \E c \in Clients, vals \in Headers :
        \/ \E h \in Homes : GetHome(c, h, vals)
        \/ ListMyHomes(c, vals)
        \/ \E h \in Homes \cup {None} : ListMyAlerts(c, h, vals)
        \/ \E a \in Alerts : AcknowledgeMyAlert(c, a, vals)
    \/ \E c \in Clients : HomeDetail(c) \/ AckReply(c) \/ AckUnavailable(c)
    \/ \E f \in forwarded : Acknowledge(f)
    \/ \E sub \in Subjects, h \in Homes : ChangeOwner(sub, h)
    \/ Tick

OwnerSpec == OwnerInit /\ [][OwnerNext]_ownerVars

------------------------------------------------------------------------------
(* Properties.                                                             *)

\* A token is good at a time: the reference the answers are held to.
Genuine(t, at) ==
    /\ t.key \in Keys /\ t.alg = "RS256" /\ t.iss = Issuer /\ t.sub \in Subjects
    /\ t.iat - Leeway <= at /\ at < t.exp + Leeway
    /\ Parties # {} => t.azp \in Parties

\* Per-home data leaves the gateway only to somebody with a genuine token who
\* is or was an owner of that very home, also when links change between the
\* queries of a call or an answer of the alerts service comes late.
OwnerDataToOwners ==
    \A s \in shown : Genuine(s.token, s.at) /\ <<s.token.sub, s.home>> \in everOwned

\* An alert is acknowledged by an owner of its home only, and an alert without
\* a home by nobody.
AckedByOwners ==
    \A a \in Alerts :
        acks[a].at # -1 => HomeOf[a] # None /\ <<acks[a].by, HomeOf[a]>> \in everOwned

\* Nobody but an owner reads a home or acknowledges its alerts, whatever
\* RequireOwner and the ownership queries saw one query earlier.
OwnersOnly == OwnerDataToOwners /\ AckedByOwners
=============================================================================
