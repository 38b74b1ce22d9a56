---------------------------- MODULE GatewayProofs ----------------------------
(***************************************************************************)
(* The gateway's answers, for every number of clients, owners, homes,      *)
(* alerts, storms and segments: owner data reaches owners only, a walk     *)
(* over the pages of the storms is complete, and what is published of a    *)
(* segment below the privacy threshold says nothing about its homes.       *)
(***************************************************************************)
EXTENDS OwnerQueries, StormQueries, PublicViews, FiniteSetTheorems, SequenceTheorems, TLAPS

------------------------------------------------------------------------------
(* Owner-scoped calls.  What an ownership query saw stays true of           *)
(* everOwned while the call waits for its next query or for the alerts      *)
(* service, so the invariant is about the calls under way and the           *)
(* acknowledgements on their way, and not about the answers alone.          *)

LinksOK == owners \subseteq everOwned /\ everOwned \subseteq Subjects \X Homes

\* A call that has passed RequireOwner and its ownership query.
Entitled(token, since, h) == Genuine(token, since) /\ <<token.sub, h>> \in everOwned

\* The alert of an acknowledgement under way has a home and the caller owned it.
AlertEntitled(call) ==
    call.alert \in Alerts /\ HomeOf[call.alert] # None
      /\ Entitled(call.token, call.since, HomeOf[call.alert])

CallShape(call) ==
    call = [pc |-> call.pc, token |-> call.token, since |-> call.since, homes |-> call.homes,
            alert |-> call.alert]

CallOK(call) ==
    /\ call.pc \in {"idle", "detail", "forwarded", "acknowledged"}
    /\ call.pc # "idle" => CallShape(call)
    /\ call.pc = "detail" => \A h \in call.homes : Entitled(call.token, call.since, h)
    /\ call.pc \in {"forwarded", "acknowledged"} => AlertEntitled(call)

CallsOK == DOMAIN calls = Clients /\ \A c \in Clients : CallOK(calls[c])

ForwardedOK ==
    \A f \in forwarded :
        /\ f.client \in Clients /\ f.alert \in Alerts
        /\ HomeOf[f.alert] # None /\ <<f.by, HomeOf[f.alert]>> \in everOwned

OwnerInv ==
    /\ now \in Nat /\ DOMAIN acks = Alerts
    /\ LinksOK /\ CallsOK /\ ForwardedOK /\ OwnersOnly

\* Authenticate and RequireOwner: a caller that passes has a token whose claims
\* are good now; only its subject is not yet known to be an owner.
LEMMA VerifiedIsGenuine ==
    ASSUME NEW vals \in Headers, RequireOwner(vals), now \in Nat, LinksOK,
           NEW h, <<vals[1].token.sub, h>> \in everOwned
    PROVE  Entitled(vals[1].token, now, h)
<1> DEFINE t == vals[1].token
<1>1. Len(vals) = 1 /\ vals[1].scheme = "bearer" /\ Verify(t)
  BY DEF RequireOwner, Authenticate
<1>2. t.iat \in Int /\ t.exp \in Int
  BY <1>1, HeadersAssumption
<1>3. t.sub \in Subjects
  BY DEF LinksOK
<1>4. t.iat - Leeway <= now /\ now < t.exp + Leeway
  <2>1. t.iat <= now + Leeway /\ now < t.exp + Leeway
    BY <1>1 DEF Verify
  <2> HIDE DEF t
  <2> QED
    BY <1>2, <2>1, OwnerAssumption
<1> QED
  BY <1>1, <1>3, <1>4 DEF Entitled, Genuine, Verify

\* A call of one client changes only that client's entry.
LEMMA CallsUpdated ==
    ASSUME CallsOK, NEW c \in Clients, NEW call, CallOK(call), calls' = [calls EXCEPT ![c] = call],
           UNCHANGED everOwned
    PROVE  CallsOK'
<1>1. DOMAIN calls' = Clients /\ \A d \in Clients : calls'[d] = IF d = c THEN call ELSE calls[d]
  BY DEF CallsOK
<1> QED
  BY <1>1 DEF CallsOK, CallOK, AlertEntitled, Entitled, Genuine, CallShape

\* Data of homes the caller is entitled to may be shown: Show keeps what was
\* shown before within the owners.
LEMMA ShowEntitled ==
    ASSUME OwnerDataToOwners, UNCHANGED everOwned, NEW call, NEW hs, Show(call, hs),
           \A h \in hs : Entitled(call.token, call.since, h)
    PROVE  OwnerDataToOwners'
<1> SUFFICES ASSUME NEW s \in shown'
             PROVE  Genuine(s.token, s.at) /\ <<s.token.sub, s.home>> \in everOwned
  BY DEF OwnerDataToOwners, Genuine
<1>1. CASE s \in shown
  BY <1>1 DEF OwnerDataToOwners
<1>2. ASSUME NEW h \in hs, s = [home |-> h, token |-> call.token, at |-> call.since]
      PROVE  Genuine(s.token, s.at) /\ <<s.token.sub, s.home>> \in everOwned
  <2>1. s.home = h /\ s.token = call.token /\ s.at = call.since
    BY <1>2
  <2> QED
    BY <2>1 DEF Entitled
<1> QED
  BY <1>1, <1>2 DEF Show

\* Nothing is owned, called or shown yet but the links of the table.
LEMMA OwnerInitInv == OwnerInit => OwnerInv
BY OwnerAssumption
DEF OwnerInit, OwnerInv, LinksOK, CallsOK, CallOK, ForwardedOK, OwnersOnly, OwnerDataToOwners,
    AckedByOwners, Idle, Unacked

\* Each query of a call, each change of the links and each answer of the
\* alerts service keeps the invariant.
LEMMA OwnerStepInv == OwnerInv /\ [OwnerNext]_ownerVars => OwnerInv'
<1> SUFFICES ASSUME OwnerInv, [OwnerNext]_ownerVars PROVE OwnerInv'
  OBVIOUS
<1> USE OwnerAssumption DEF OwnerInv
<1>0. CallOK(Idle)
  BY DEF CallOK, Idle
<1>1. ASSUME NEW c \in Clients, NEW vals \in Headers, NEW h \in Homes, GetHome(c, h, vals)
      PROVE  OwnerInv'
  <2> DEFINE call == [Call("detail", vals) EXCEPT !.homes = GetOwnedHome(vals[1].token.sub, h)]
  <2>1. CallOK(call)
    <3>1. call = [pc |-> "detail", token |-> vals[1].token, since |-> now,
                  homes |-> GetOwnedHome(vals[1].token.sub, h), alert |-> None]
      BY DEF Call
    <3>2. \A x \in GetOwnedHome(vals[1].token.sub, h) : Entitled(vals[1].token, now, x)
      BY <1>1, VerifiedIsGenuine DEF GetHome, GetOwnedHome, LinksOK
    <3> QED
      BY <3>1, <3>2 DEF CallOK, CallShape
  <2>2. CallsOK'
    <3> HIDE DEF call
    <3> QED
      BY <1>1, <2>1, CallsUpdated DEF GetHome, call
  <2> QED
    BY <1>1, <2>2 DEF GetHome, LinksOK, ForwardedOK, OwnersOnly, OwnerDataToOwners, AckedByOwners, Genuine
<1>2. ASSUME NEW c \in Clients, NEW vals \in Headers, ListMyHomes(c, vals) PROVE OwnerInv'
  <2> DEFINE call == [Call("detail", vals) EXCEPT !.homes = ListOwnedHomes(vals[1].token.sub)]
  <2>1. CallOK(call)
    <3>1. call = [pc |-> "detail", token |-> vals[1].token, since |-> now,
                  homes |-> ListOwnedHomes(vals[1].token.sub), alert |-> None]
      BY DEF Call
    <3>2. \A x \in ListOwnedHomes(vals[1].token.sub) : Entitled(vals[1].token, now, x)
      BY <1>2, VerifiedIsGenuine DEF ListMyHomes, ListOwnedHomes, OwnsHome, LinksOK
    <3> QED
      BY <3>1, <3>2 DEF CallOK, CallShape
  <2>2. CallsOK'
    <3> HIDE DEF call
    <3> QED
      BY <1>2, <2>1, CallsUpdated DEF ListMyHomes, call
  <2> QED
    BY <1>2, <2>2 DEF ListMyHomes, LinksOK, ForwardedOK, OwnersOnly, OwnerDataToOwners, AckedByOwners, Genuine
<1>3. ASSUME NEW c \in Clients, NEW vals \in Headers, NEW filter \in Homes \cup {None},
             ListMyAlerts(c, filter, vals)
      PROVE  OwnerInv'
  <2> DEFINE sub == vals[1].token.sub
             hs == {HomeOf[a] : a \in ListOwnerActiveAlerts(sub, IF filter = None THEN Homes ELSE {filter})}
             call == Call("idle", vals)
  <2>1. Show(call, hs) /\ UNCHANGED <<now, owners, everOwned, links, calls, acks, forwarded>>
    BY <1>3 DEF ListMyAlerts
  <2>2. call.token = vals[1].token /\ call.since = now
    BY DEF Call
  <2>3. \A h \in hs : Entitled(call.token, call.since, h)
    <3>1. \A h \in hs : <<sub, h>> \in owners
      BY DEF ListOwnerActiveAlerts, OwnsAlert, OwnsHome
    <3> HIDE DEF hs, call
    <3> QED
      BY <1>3, <2>2, <3>1, VerifiedIsGenuine DEF ListMyAlerts, LinksOK
  <2>4. OwnerDataToOwners'
    <3> HIDE DEF hs, call
    <3> QED
      BY <2>1, <2>3, ShowEntitled DEF OwnersOnly
  <2> QED
    BY <2>1, <2>4 DEF LinksOK, CallsOK, CallOK, AlertEntitled, Entitled, Genuine, CallShape, ForwardedOK,
                      OwnersOnly, AckedByOwners
<1>4. ASSUME NEW c \in Clients, NEW vals \in Headers, NEW a \in Alerts, AcknowledgeMyAlert(c, a, vals)
      PROVE  OwnerInv'
  <2> DEFINE call == [Call("forwarded", vals) EXCEPT !.alert = a]
  <2>0. HomeOf[a] # None /\ <<vals[1].token.sub, HomeOf[a]>> \in everOwned
    BY <1>4 DEF AcknowledgeMyAlert, MayAcknowledge, OwnsAlert, OwnsHome, LinksOK
  <2>1. CallOK(call)
    <3>1. call = [pc |-> "forwarded", token |-> vals[1].token, since |-> now, homes |-> {}, alert |-> a]
      BY DEF Call
    <3>2. Entitled(vals[1].token, now, HomeOf[a])
      BY <1>4, <2>0, VerifiedIsGenuine DEF AcknowledgeMyAlert
    <3> QED
      BY <2>0, <3>1, <3>2 DEF CallOK, CallShape, AlertEntitled
  <2>2. CallsOK'
    <3> HIDE DEF call
    <3> QED
      BY <1>4, <2>1, CallsUpdated DEF AcknowledgeMyAlert, call
  <2>3. ForwardedOK'
    BY <1>4, <2>0 DEF AcknowledgeMyAlert, ForwardedOK
  <2> QED
    BY <1>4, <2>2, <2>3
    DEF AcknowledgeMyAlert, LinksOK, OwnersOnly, OwnerDataToOwners, AckedByOwners, Genuine
<1>5. ASSUME NEW c \in Clients, HomeDetail(c) PROVE OwnerInv'
  <2>1. CallsOK'
    BY <1>0, <1>5, CallsUpdated DEF HomeDetail
  <2>2. OwnerDataToOwners'
    <3>1. \A h \in calls[c].homes : Entitled(calls[c].token, calls[c].since, h)
      BY <1>5 DEF HomeDetail, CallsOK, CallOK
    <3> QED
      BY <1>5, <3>1, ShowEntitled DEF HomeDetail, home, OwnersOnly
  <2> QED
    BY <1>5, <2>1, <2>2 DEF HomeDetail, LinksOK, ForwardedOK, OwnersOnly, AckedByOwners
<1>6. ASSUME NEW c \in Clients, AckReply(c) PROVE OwnerInv'
  <2>1. CallsOK'
    BY <1>0, <1>6, CallsUpdated DEF AckReply
  <2>2. OwnerDataToOwners'
    <3>1. \A h \in {HomeOf[calls[c].alert]} : Entitled(calls[c].token, calls[c].since, h)
      BY <1>6 DEF AckReply, CallsOK, CallOK, AlertEntitled
    <3> QED
      BY <1>6, <3>1, ShowEntitled DEF AckReply, OwnersOnly
  <2> QED
    BY <1>6, <2>1, <2>2 DEF AckReply, LinksOK, ForwardedOK, OwnersOnly, AckedByOwners
<1>7. ASSUME NEW c \in Clients, AckUnavailable(c) PROVE OwnerInv'
  <2>1. CallsOK'
    BY <1>0, <1>7, CallsUpdated DEF AckUnavailable
  <2>2. ForwardedOK'
    BY <1>7 DEF AckUnavailable, ForwardedOK
  <2> QED
    BY <1>7, <2>1, <2>2
    DEF AckUnavailable, LinksOK, OwnersOnly, OwnerDataToOwners, AckedByOwners, Genuine
<1>8. ASSUME NEW f \in forwarded, Acknowledge(f) PROVE OwnerInv'
  <2>0. /\ f.client \in Clients /\ f.alert \in Alerts
        /\ HomeOf[f.alert] # None /\ <<f.by, HomeOf[f.alert]>> \in everOwned
    BY DEF ForwardedOK
  <2>1. CallsOK'
    <3>1. CASE UNCHANGED calls
      BY <1>8, <3>1 DEF Acknowledge, CallsOK, CallOK, AlertEntitled, Entitled, Genuine, CallShape
    <3>2. CASE calls[f.client].pc = "forwarded" /\ calls' = [calls EXCEPT ![f.client].pc = "acknowledged"]
      <4> DEFINE old == calls[f.client]
                 call == [old EXCEPT !.pc = "acknowledged"]
      <4>1. CallShape(old) /\ AlertEntitled(old)
        BY <2>0, <3>2 DEF CallsOK, CallOK
      <4>2. call = [pc |-> "acknowledged", token |-> old.token, since |-> old.since,
                    homes |-> old.homes, alert |-> old.alert]
        <5> HIDE DEF old
        <5> QED
          BY <4>1 DEF CallShape
      <4>3. CallOK(call)
        <5> HIDE DEF old, call
        <5> QED
          BY <4>1, <4>2 DEF CallOK, CallShape, AlertEntitled
      <4>4. calls' = [calls EXCEPT ![f.client] = call]
        BY <3>2
      <4> HIDE DEF call
      <4> QED
        BY <1>8, <2>0, <4>3, <4>4, CallsUpdated DEF Acknowledge
    <3> QED
      BY <1>8, <3>1, <3>2 DEF Acknowledge
  <2>2. ForwardedOK'
    BY <1>8 DEF Acknowledge, ForwardedOK
  <2>3. AckedByOwners'
    BY <1>8, <2>0 DEF Acknowledge, Acknowledged, OwnersOnly, AckedByOwners
  <2> QED
    BY <1>8, <2>1, <2>2, <2>3 DEF Acknowledge, LinksOK, OwnersOnly, OwnerDataToOwners, Genuine
<1>9. ASSUME NEW sub \in Subjects, NEW h \in Homes, ChangeOwner(sub, h) PROVE OwnerInv'
  <2>0. everOwned \subseteq everOwned' /\ LinksOK'
    BY <1>9 DEF ChangeOwner, LinksOK
  <2>1. CallsOK'
    BY <1>9, <2>0 DEF ChangeOwner, CallsOK, CallOK, AlertEntitled, Entitled, Genuine, CallShape
  <2> QED
    BY <1>9, <2>0, <2>1 DEF ChangeOwner, ForwardedOK, OwnersOnly, OwnerDataToOwners, AckedByOwners, Genuine
<1>10. CASE Tick
  BY <1>10 DEF Tick, LinksOK, CallsOK, CallOK, AlertEntitled, Entitled, Genuine, CallShape, ForwardedOK,
               OwnersOnly, OwnerDataToOwners, AckedByOwners
<1>11. CASE UNCHANGED ownerVars
  BY <1>11 DEF ownerVars, LinksOK, CallsOK, CallOK, AlertEntitled, Entitled, Genuine, CallShape,
               ForwardedOK, OwnersOnly, OwnerDataToOwners, AckedByOwners
<1> QED
  BY <1>1, <1>2, <1>3, <1>4, <1>5, <1>6, <1>7, <1>8, <1>9, <1>10, <1>11 DEF OwnerNext

\* RequireOwner, the ownership queries and AcknowledgeMyAlert: nobody but a
\* present or former owner with a genuine token reads a home or acknowledges its
\* alerts, however the links change between two queries of a call.
THEOREM OwnersOnlyAlways == OwnerSpec => []OwnersOnly
<1>1. OwnerInv => OwnersOnly
  BY DEF OwnerInv
<1> QED
  BY <1>1, OwnerInitInv, OwnerStepInv, PTL DEF OwnerSpec

------------------------------------------------------------------------------
(* The walk over the storms.  The page token is a position in the order of  *)
(* the rows and not a row of the table, so what changes between two calls   *)
(* cannot move a storm that stays across it.                                *)

\* A row of the list: started_at and id.
Pairs == Nat \X Nat

TableOK == /\ DOMAIN storms \subseteq Ids /\ storms = [i \in DOMAIN storms |-> storms[i]]
           /\ \A i \in DOMAIN storms : storms[i] \in Starts

WalkShape ==
    walk \in [pc : {"idle", "reading", "done"}, size : 0 .. MaxPageSize, cursor : {NoCursor} \cup Pairs,
              rows : Seq(Pairs), stable : SUBSET Pairs]

\* The storms that stayed are in the table as they were when the walk began.
StableIsThere ==
    walk.pc = "reading" =>
        \A r \in walk.stable : r[2] \in DOMAIN storms /\ storms[r[2]] = r[1]

\* The page token is the last row shown; the first page has none.
CursorIsLast ==
    walk.pc = "reading" =>
        /\ walk.size >= 1
        /\ IF walk.cursor = NoCursor THEN walk.rows = <<>>
           ELSE Len(walk.rows) > 0 /\ walk.cursor = walk.rows[Len(walk.rows)]

Shown == {walk.rows[k] : k \in DOMAIN walk.rows}

\* A storm that stayed was shown, or lies behind the token.
ToCome ==
    walk.pc = "reading" =>
        \A r \in walk.stable : r \in Shown \/ walk.cursor = NoCursor \/ Before(r, walk.cursor)

QueryInv ==
    TableOK /\ WalkShape /\ StableIsThere /\ CursorIsLast /\ ToCome /\ PagesDescend /\ WalkMissesNothing

\* encodeCursor: a row of the table is a pair and never the empty token.
LEMMA RowPair ==
    ASSUME TableOK, NEW i \in DOMAIN storms
    PROVE  Row(i) \in Pairs /\ Row(i) # NoCursor /\ Row(i)[1] = storms[i] /\ Row(i)[2] = i
BY QueryAssumption DEF TableOK, Row, Pairs, NoCursor

\* ListStormEventsPage, ORDER BY and LIMIT: rows past the cursor, newest first,
\* and none left out but by the limit and behind the others.
LEMMA PageProps ==
    ASSUME TableOK, NEW cursor, NEW lim \in Nat, NEW rows \in ListStormEventsPage(cursor, lim)
    PROVE  /\ rows \in Seq(DOMAIN storms) /\ Len(rows) <= lim
           /\ \A k \in 1 .. Len(rows) : PastCursor(rows[k], cursor)
           /\ \A j, k \in 1 .. Len(rows) : j < k => Before(Row(rows[k]), Row(rows[j]))
           /\ \A i \in DOMAIN storms : PastCursor(i, cursor) =>
                 \/ \E k \in 1 .. Len(rows) : rows[k] = i
                 \/ Len(rows) = lim /\ \A k \in 1 .. Len(rows) : Before(Row(i), Row(rows[k]))
<1> DEFINE ids == {i \in DOMAIN storms : PastCursor(i, cursor)}
<1>1. Cardinality(ids) \in Nat
  <2>1. IsFiniteSet(ids)
    BY QueryAssumption, FS_Subset DEF TableOK
  <2> QED
    BY <2>1, FS_CardinalityType
<1>2. PICK n \in 0 .. Cardinality(ids) : rows \in [1 .. n -> ids]
  BY DEF ListStormEventsPage
<1>3. /\ Len(rows) <= lim
      /\ \A j, k \in DOMAIN rows : j < k => Before(Row(rows[k]), Row(rows[j]))
      /\ \A i \in ids \ ToSet(rows) :
           Len(rows) = lim /\ \A k \in DOMAIN rows : Before(Row(i), Row(rows[k]))
  BY DEF ListStormEventsPage
<1> HIDE DEF ids
<1>4. rows \in Seq(ids) /\ Len(rows) = n /\ DOMAIN rows = 1 .. Len(rows)
  BY <1>1, <1>2
<1>5. \A i : i \in ids <=> i \in DOMAIN storms /\ PastCursor(i, cursor)
  BY DEF ids
<1>6. rows \in Seq(DOMAIN storms)
  BY <1>4, <1>5
<1>7. \A k \in 1 .. Len(rows) : PastCursor(rows[k], cursor)
  BY <1>4, <1>5
<1>8. \A i \in ids : i \in ToSet(rows) => \E k \in 1 .. Len(rows) : rows[k] = i
  BY <1>4 DEF ToSet
<1> QED
  BY <1>3, <1>4, <1>5, <1>6, <1>7, <1>8

\* The rows of a walk after one more page.
AppendPage(page) == walk.rows \o [k \in DOMAIN page |-> Row(page[k])]

\* ListStormEvents cuts the extra row off, and the client appends the page.
LEMMA PageAppends ==
    ASSUME QueryInv, walk.pc = "reading",
           NEW rows \in ListStormEventsPage(walk.cursor, walk.size + 1),
           NEW page, page = PageOf(rows, walk.size),
           NEW all, all = AppendPage(page)
    PROVE  /\ Len(page) = IF Len(rows) > walk.size THEN walk.size ELSE Len(rows)
           /\ \A k \in 1 .. Len(page) : page[k] = rows[k] /\ rows[k] \in DOMAIN storms
           /\ all \in Seq(Pairs) /\ Len(all) = Len(walk.rows) + Len(page)
           /\ \A k \in 1 .. Len(walk.rows) : all[k] = walk.rows[k]
           /\ \A k \in 1 .. Len(page) : all[Len(walk.rows) + k] = Row(rows[k])
<1> DEFINE L == Len(walk.rows)
           n == Len(page)
           new == [k \in DOMAIN page |-> Row(page[k])]
<1>1. walk.size \in Nat /\ walk.rows \in Seq(Pairs) /\ walk.size + 1 \in Nat
  BY QueryAssumption DEF QueryInv, WalkShape
<1>2. rows \in Seq(DOMAIN storms)
  BY <1>1, PageProps DEF QueryInv
<1>3. /\ page \in Seq(DOMAIN storms) /\ n = IF Len(rows) > walk.size THEN walk.size ELSE Len(rows)
      /\ \A k \in 1 .. n : page[k] = rows[k]
  <2>1. CASE Len(rows) > walk.size
    <3>1. page = SubSeq(rows, 1, walk.size)
      BY <2>1 DEF PageOf
    <3>2. Len(page) = walk.size /\ \A k \in 1 .. walk.size : page[k] = rows[k]
      BY <1>1, <1>2, <2>1, <3>1
    <3>3. page \in Seq(DOMAIN storms)
      BY <1>1, <1>2, <2>1, <3>1
    <3> QED
      BY <2>1, <3>2, <3>3
  <2>2. CASE ~(Len(rows) > walk.size)
    BY <1>1, <1>2, <2>2 DEF PageOf
  <2> QED
    BY <2>1, <2>2
<1>4. DOMAIN page = 1 .. n /\ n \in Nat
  BY <1>3
<1>5. \A k \in 1 .. n : rows[k] \in DOMAIN storms /\ Row(rows[k]) \in Pairs
  BY <1>3, RowPair DEF QueryInv
<1>6. new \in Seq(Pairs) /\ Len(new) = n /\ \A k \in 1 .. n : new[k] = Row(rows[k])
  <2>1. new = [k \in 1 .. n |-> Row(page[k])]
    BY <1>4
  <2>2. \A k \in 1 .. n : Row(page[k]) = Row(rows[k])
    BY <1>3
  <2> HIDE DEF new, n
  <2>3. new \in [1 .. n -> Pairs] /\ \A k \in 1 .. n : new[k] = Row(rows[k])
    BY <1>5, <2>1, <2>2
  <2> QED
    BY <1>4, <2>3
<1> HIDE DEF new, n, L
<1>7. /\ walk.rows \o new \in Seq(Pairs) /\ Len(walk.rows \o new) = L + n
      /\ \A k \in 1 .. L : (walk.rows \o new)[k] = walk.rows[k]
      /\ \A k \in 1 .. n : (walk.rows \o new)[L + k] = new[k]
  <2>1. /\ walk.rows \o new \in Seq(Pairs) /\ Len(walk.rows \o new) = Len(walk.rows) + Len(new)
        /\ \A i \in 1 .. Len(walk.rows) + Len(new) : (walk.rows \o new)[i] =
              IF i <= Len(walk.rows) THEN walk.rows[i] ELSE new[i - Len(walk.rows)]
    BY <1>1, <1>6, ConcatProperties
  <2>2. L \in Nat
    BY <1>1 DEF L
  <2> QED
    BY <1>4, <1>6, <2>1, <2>2 DEF L
<1> QED
  BY <1>3, <1>5, <1>6, <1>7 DEF AppendPage, new, n, L

\* One call of ListStormEvents keeps the walk in order and loses no storm.
LEMMA ListStep == ASSUME QueryInv, ListStormEvents PROVE QueryInv'
<1>1. PICK rows \in ListStormEventsPage(walk.cursor, walk.size + 1) :
        walk' = [walk EXCEPT !.rows = walk.rows \o [k \in DOMAIN PageOf(rows, walk.size) |->
                                                        Row(PageOf(rows, walk.size)[k])],
                             !.cursor = NextPageToken(rows, walk.size),
                             !.pc = IF NextPageToken(rows, walk.size) = NoCursor
                                    THEN "done" ELSE "reading"]
  BY DEF ListStormEvents
<1>2. walk.pc = "reading" /\ UNCHANGED <<storms, changes>>
  BY DEF ListStormEvents
<1> DEFINE L == Len(walk.rows)
           page == PageOf(rows, walk.size)
           n == Len(page)
           all == walk.rows \o [k \in DOMAIN page |-> Row(page[k])]
           token == NextPageToken(rows, walk.size)
<1>3. /\ walk.size \in Nat /\ walk.size >= 1 /\ walk.size <= MaxPageSize
      /\ walk.rows \in Seq(Pairs) /\ L \in Nat
      /\ walk.stable \in SUBSET Pairs /\ TableOK
  BY <1>2, QueryAssumption DEF QueryInv, WalkShape, CursorIsLast
<1>4. /\ n = IF Len(rows) > walk.size THEN walk.size ELSE Len(rows)
      /\ \A k \in 1 .. n : page[k] = rows[k] /\ rows[k] \in DOMAIN storms
      /\ all \in Seq(Pairs) /\ Len(all) = L + n
      /\ \A k \in 1 .. L : all[k] = walk.rows[k]
      /\ \A k \in 1 .. n : all[L + k] = Row(rows[k])
  <2>1. page = PageOf(rows, walk.size) /\ all = AppendPage(page)
    BY DEF AppendPage
  <2> HIDE DEF page, all
  <2> QED
    <3>1. walk.pc = "reading"
      BY <1>2
    <3> HIDE DEF L, n, token
    <3>2. Len(page) = IF Len(rows) > walk.size THEN walk.size ELSE Len(rows)
      BY <3>1, <2>1, PageAppends
    <3>3. /\ \A k \in 1 .. Len(page) : page[k] = rows[k] /\ rows[k] \in DOMAIN storms
      BY <3>1, <2>1, PageAppends
    <3>4. all \in Seq(Pairs) /\ Len(all) = Len(walk.rows) + Len(page)
      BY <3>1, <2>1, PageAppends
    <3>5. /\ \A k \in 1 .. Len(walk.rows) : all[k] = walk.rows[k]
      BY <3>1, <2>1, PageAppends
    <3>6. /\ \A k \in 1 .. Len(page) : all[Len(walk.rows) + k] = Row(rows[k])
      BY <3>1, <2>1, PageAppends
    <3> QED
      BY <3>2, <3>3, <3>4, <3>5, <3>6 DEF L, n
<1>5. /\ rows \in Seq(DOMAIN storms) /\ Len(rows) <= walk.size + 1
      /\ \A k \in 1 .. Len(rows) : PastCursor(rows[k], walk.cursor)
      /\ \A j, k \in 1 .. Len(rows) : j < k => Before(Row(rows[k]), Row(rows[j]))
      /\ \A i \in DOMAIN storms : PastCursor(i, walk.cursor) =>
            \/ \E k \in 1 .. Len(rows) : rows[k] = i
            \/ Len(rows) = walk.size + 1 /\ \A k \in 1 .. Len(rows) : Before(Row(i), Row(rows[k]))
  <2>1. walk.size + 1 \in Nat
    BY <1>3
  <2> QED
    BY <1>3, <2>1, PageProps
<1>6. /\ token = IF Len(rows) > walk.size THEN Row(rows[walk.size]) ELSE NoCursor
      /\ Len(rows) > walk.size => token \in Pairs /\ token # NoCursor
  <2>1. Len(rows) > walk.size => rows[walk.size] \in DOMAIN storms
    BY <1>3, <1>5
  <2> QED
    BY <1>3, <2>1, RowPair DEF NextPageToken
<1>7. walk' = [pc |-> IF token = NoCursor THEN "done" ELSE "reading", size |-> walk.size,
               cursor |-> token, rows |-> all, stable |-> walk.stable]
  <2> HIDE DEF all, token
  <2>1. walk' = [walk EXCEPT !.rows = all, !.cursor = token,
                             !.pc = IF token = NoCursor THEN "done" ELSE "reading"]
    BY <1>1 DEF all, token
  <2> QED
    BY <2>1 DEF QueryInv, WalkShape
<1> HIDE DEF all, token, n, L, page
<1>8. /\ walk'.pc = IF token = NoCursor THEN "done" ELSE "reading"
      /\ walk'.size = walk.size /\ walk'.cursor = token /\ walk'.rows = all
      /\ walk'.stable = walk.stable
  BY <1>7
<1>9. WalkShape' /\ TableOK' /\ StableIsThere'
  <2>1. token \in {NoCursor} \cup Pairs
    BY <1>6, <1>3
  <2>2. walk.size \in 0 .. MaxPageSize
    BY <1>3
  <2> QED
    BY <1>2, <1>3, <1>4, <1>7, <1>8, <2>1, <2>2 DEF QueryInv, WalkShape, TableOK, StableIsThere
<1>10. CursorIsLast'
  <2> SUFFICES ASSUME token # NoCursor
               PROVE  walk.size >= 1 /\ Len(all) > 0 /\ token = all[Len(all)]
    BY <1>8 DEF CursorIsLast
  <2>1. Len(rows) > walk.size /\ n = walk.size
    BY <1>4, <1>6
  <2>2. walk.size \in 1 .. n /\ Len(all) = L + walk.size
    BY <1>3, <1>4, <2>1
  <2>3. all[L + walk.size] = Row(rows[walk.size])
    BY <1>4, <2>2
  <2> QED
    BY <1>3, <1>6, <2>1, <2>2, <2>3
<1>11. \A r \in Shown : r \in Shown'
  <2> SUFFICES ASSUME NEW k \in 1 .. L PROVE \E j \in DOMAIN all : all[j] = walk.rows[k]
    BY <1>3, <1>8 DEF Shown, L
  <2>1. n \in Nat
    BY <1>3, <1>4, <1>5
  <2>2. k \in DOMAIN all /\ all[k] = walk.rows[k]
    BY <1>3, <1>4, <2>1
  <2> QED
    BY <2>2
<1>12. \A k \in 1 .. n : Row(rows[k]) \in Shown'
  <2> SUFFICES ASSUME NEW k \in 1 .. n PROVE \E j \in DOMAIN all : all[j] = Row(rows[k])
    BY <1>8 DEF Shown
  <2>1. n \in Nat
    BY <1>3, <1>4, <1>5
  <2>2. DOMAIN all = 1 .. L + n /\ L \in Nat
    BY <1>3, <1>4
  <2>3. L + k \in DOMAIN all /\ all[L + k] = Row(rows[k])
    <3>1. L + k \in 1 .. L + n
      BY <2>1, <2>2
    <3> QED
      BY <1>4, <2>2, <3>1
  <2> QED
    BY <2>3
<1>13. ASSUME NEW r \in walk.stable, r \notin Shown'
       PROVE  token # NoCursor /\ Before(r, token)
  <2> DEFINE i == r[2]
  <2>1. i \in DOMAIN storms /\ r = Row(i)
    BY <1>2, <1>3 DEF QueryInv, StableIsThere, Row, Pairs
  <2>2. PastCursor(i, walk.cursor)
    BY <1>2, <1>11, <1>13, <2>1 DEF QueryInv, ToCome, PastCursor
  <2> HIDE DEF i
  <2>3. CASE \E k \in 1 .. Len(rows) : rows[k] = i
    <3>1. PICK k \in 1 .. Len(rows) : rows[k] = i
      BY <2>3
    <3>2. k \notin 1 .. n
      BY <1>12, <1>13, <2>1, <3>1
    <3>3. Len(rows) = walk.size + 1 /\ k = walk.size + 1
      BY <1>3, <1>4, <1>5, <3>2
    <3>4. Before(Row(rows[k]), Row(rows[walk.size]))
      <4>1. walk.size \in 1 .. Len(rows) /\ k \in 1 .. Len(rows) /\ walk.size < k
        BY <1>3, <3>3
      <4> QED
        BY <1>5, <4>1
    <3> QED
      BY <1>3, <1>6, <2>1, <3>1, <3>3, <3>4
  <2>4. CASE Len(rows) = walk.size + 1 /\ \A k \in 1 .. Len(rows) : Before(Row(i), Row(rows[k]))
    BY <1>3, <1>6, <2>1, <2>4
  <2> QED
    BY <1>5, <2>1, <2>2, <2>3, <2>4
<1>14. ToCome' /\ WalkMissesNothing'
  <2>1. Shown' = ToSet(walk'.rows)
    BY DEF Shown, ToSet
  <2> QED
    BY <1>8, <1>13, <2>1 DEF ToCome, WalkMissesNothing, Before
<1>15. PagesDescend'
  <2> SUFFICES ASSUME NEW k \in 1 .. Len(all) - 1 PROVE Before(all[k + 1], all[k])
    BY <1>8 DEF PagesDescend, Before
  <2>0. n \in Nat /\ n <= Len(rows)
    BY <1>3, <1>4, <1>5
  <2>1. CASE k + 1 <= L
    <3>1. k \in 1 .. L /\ k + 1 \in 1 .. L /\ k \in 1 .. L - 1
      BY <1>3, <1>4, <2>0, <2>1
    <3>2. all[k] = walk.rows[k] /\ all[k + 1] = walk.rows[k + 1]
      BY <1>4, <3>1
    <3> QED
      BY <3>1, <3>2 DEF QueryInv, PagesDescend, L
  <2>2. CASE k = L
    <3>1. 1 \in 1 .. n /\ all[k + 1] = Row(rows[1]) /\ all[k] = walk.rows[L] /\ L > 0
      BY <1>3, <1>4, <2>0, <2>2
    <3>2. walk.cursor = walk.rows[L] /\ walk.cursor # NoCursor
      BY <1>2, <1>3, <3>1 DEF QueryInv, CursorIsLast, L
    <3>3. PastCursor(rows[1], walk.cursor)
      BY <1>3, <1>5, <2>0, <3>1
    <3> QED
      BY <3>1, <3>2, <3>3 DEF PastCursor
  <2>3. CASE k > L
    <3>1. PICK j \in 1 .. n : k = L + j /\ j + 1 \in 1 .. n
      BY <1>3, <1>4, <2>0, <2>3
    <3>2. all[k] = Row(rows[j]) /\ all[k + 1] = Row(rows[j + 1])
      BY <1>3, <1>4, <3>1
    <3>3. j \in 1 .. Len(rows) /\ j + 1 \in 1 .. Len(rows) /\ j < j + 1
      BY <2>0, <3>1, <1>5
    <3> QED
      BY <1>5, <3>2, <3>3
  <2> QED
    BY <1>3, <1>4, <2>0, <2>1, <2>2, <2>3
<1> QED
  BY <1>9, <1>10, <1>14, <1>15 DEF QueryInv

\* No walk, any table.
LEMMA QueryInitInv == QueryInit => QueryInv
<1> SUFFICES ASSUME QueryInit PROVE QueryInv
  OBVIOUS
<1>1. TableOK
  BY DEF QueryInit, TableOK
<1>2. walk = [pc |-> "idle", size |-> 0, cursor |-> NoCursor, rows |-> <<>>, stable |-> {}]
  BY DEF QueryInit, Walk
<1>3. WalkShape
  BY <1>2, QueryAssumption DEF WalkShape
<1> QED
  BY <1>1, <1>2, <1>3 DEF QueryInv, StableIsThere, CursorIsLast, ToCome, PagesDescend, WalkMissesNothing

\* StartWalk, ListStormEvents, EndWalk and every change of storm_events keep
\* the invariant.
LEMMA QueryStepInv == QueryInv /\ [QueryNext]_queryVars => QueryInv'
<1> SUFFICES ASSUME QueryInv, [QueryNext]_queryVars PROVE QueryInv'
  OBVIOUS
<1>1. ASSUME NEW size \in PageSizes, StartWalk(size) PROVE QueryInv'
  <2>1. PageSize(size) \in 1 .. MaxPageSize
    BY <1>1, QueryAssumption DEF StartWalk, PageSize
  <2> DEFINE stable == {Row(i) : i \in DOMAIN storms}
  <2>2. stable \subseteq Pairs
    BY RowPair DEF QueryInv
  <2>3. \A r \in stable : r[2] \in DOMAIN storms /\ storms[r[2]] = r[1]
    BY RowPair DEF QueryInv
  <2>4. walk' = [pc |-> "reading", size |-> PageSize(size), cursor |-> NoCursor, rows |-> <<>>,
                 stable |-> stable]
    BY <1>1 DEF StartWalk, Walk
  <2> HIDE DEF stable
  <2>5. /\ walk'.pc = "reading" /\ walk'.size = PageSize(size) /\ walk'.cursor = NoCursor
        /\ walk'.rows = <<>> /\ walk'.stable = stable
    BY <2>4
  <2>6. TableOK' /\ StableIsThere'
    BY <1>1, <2>3, <2>5 DEF StartWalk, QueryInv, TableOK, StableIsThere
  <2>7. WalkShape'
    BY <2>1, <2>2, <2>4, QueryAssumption DEF WalkShape
  <2> QED
    BY <2>1, <2>5, <2>6, <2>7
    DEF QueryInv, CursorIsLast, ToCome, PagesDescend, WalkMissesNothing
<1>2. ASSUME ChangeStorms PROVE QueryInv'
  <2> DEFINE kept == {r \in walk.stable : r[2] \in DOMAIN storms' /\ storms'[r[2]] = r[1]}
  <2>1. walk.pc = "reading" /\ walk' = [walk EXCEPT !.stable = kept]
    BY <1>2 DEF ChangeStorms
  <2>2. \A r \in kept : r \in walk.stable /\ r[2] \in DOMAIN storms' /\ storms'[r[2]] = r[1]
    OBVIOUS
  <2> HIDE DEF kept
  <2>3. TableOK'
    <3>1. ASSUME NEW i \in Ids, NEW t \in Starts,
                 storms' = [k \in DOMAIN storms \cup {i} |-> IF k = i THEN t ELSE storms[k]]
          PROVE  TableOK'
      BY <3>1 DEF QueryInv, TableOK
    <3>2. ASSUME NEW i \in DOMAIN storms, storms' = Restrict(storms, DOMAIN storms \ {i})
          PROVE  TableOK'
      BY <3>2 DEF QueryInv, TableOK, Restrict
    <3> QED
      BY <1>2, <3>1, <3>2 DEF ChangeStorms
  <2>4. walk' = [pc |-> walk.pc, size |-> walk.size, cursor |-> walk.cursor, rows |-> walk.rows,
                 stable |-> kept]
    BY <2>1 DEF QueryInv, WalkShape
  <2>5. WalkShape'
    <3>1. kept \in SUBSET Pairs
      BY <2>2 DEF QueryInv, WalkShape
    <3> QED
      BY <2>4, <3>1 DEF QueryInv, WalkShape
  <2>6. /\ walk'.pc = "reading" /\ walk'.size = walk.size /\ walk'.cursor = walk.cursor
        /\ walk'.rows = walk.rows /\ walk'.stable = kept
    BY <2>1, <2>4
  <2> QED
    BY <2>1, <2>2, <2>3, <2>5, <2>6
    DEF QueryInv, StableIsThere, CursorIsLast, ToCome, Shown, PagesDescend, WalkMissesNothing, Before
<1>3. ASSUME EndWalk PROVE QueryInv'
  <2>1. /\ walk' = [pc |-> "idle", size |-> 0, cursor |-> NoCursor, rows |-> <<>>, stable |-> {}]
        /\ UNCHANGED storms
    BY <1>3 DEF EndWalk, Walk
  <2>2. WalkShape'
    BY <2>1, QueryAssumption DEF WalkShape
  <2>3. TableOK'
    BY <2>1 DEF QueryInv, TableOK
  <2> QED
    BY <2>1, <2>2, <2>3
    DEF QueryInv, StableIsThere, CursorIsLast, ToCome, PagesDescend, WalkMissesNothing
<1>4. CASE UNCHANGED queryVars
  BY <1>4
  DEF queryVars, QueryInv, TableOK, WalkShape, StableIsThere, CursorIsLast, ToCome, Shown, PagesDescend,
      WalkMissesNothing, Before
<1> QED
  BY <1>1, <1>2, <1>3, <1>4, ListStep DEF QueryNext

\* ListStormEvents: pages of at most the limit, one strictly descending order
\* over all of them, and no storm left out that stayed in the table, whatever
\* storm analytics inserts, moves or deletes between two pages.
THEOREM WalksComplete == QuerySpec => []WalkComplete
<1>1. QueryInv => WalkComplete
  BY QueryAssumption DEF QueryInv, WalkShape, WalkComplete
<1> QED
  BY <1>1, QueryInitInv, QueryStepInv, PTL DEF QuerySpec

------------------------------------------------------------------------------
(* The public views.  Suppression is decided by sets of homes that depend    *)
(* on links and on the presence of rows only, never on the values in them.   *)

\* The rows of the tables, as far as the views look at them.
ViewReadings == [dev : ViewDevices, ts : Times, cycles : Counts]

RowsOK(d) ==
    /\ d = [homeOf |-> d.homeOf, lastSeen |-> d.lastSeen, readings |-> d.readings,
            metrics |-> d.metrics, open |-> d.open]
    /\ d.homeOf \in [ViewDevices -> ViewHomes \cup {Unlinked}]
    /\ d.readings \subseteq ViewReadings
    /\ DOMAIN d.metrics \subseteq ViewHomes

\* The homes of a segment that a device is linked to.
LinkedHomes(d, s) == {d.homeOf[v] : v \in LinkedDevices(d, s)}

\* internal/privacy counts homes: every set of homes a view counts is one of
\* linked homes of the segment.
LEMMA LinkedHomesFinite ==
    ASSUME NEW d, RowsOK(d), NEW s, NEW hs, hs \subseteq LinkedHomes(d, s)
    PROVE  Cardinality(hs) \in Nat /\ homeCount(d, s) \in Nat /\ Cardinality(hs) <= homeCount(d, s)
<1>1. LinkedHomes(d, s) \subseteq ViewHomes
  BY DEF LinkedHomes, LinkedDevices, RowsOK
<1>2. IsFiniteSet(LinkedHomes(d, s))
  BY <1>1, ViewsAssumption, FS_Subset
<1>3. IsFiniteSet(hs) /\ Cardinality(hs) <= Cardinality(LinkedHomes(d, s))
  BY <1>2, FS_Subset
<1>4. Cardinality(hs) \in Nat /\ Cardinality(LinkedHomes(d, s)) \in Nat
  BY <1>2, <1>3, FS_CardinalityType
<1> QED
  BY <1>3, <1>4 DEF homeCount, LinkedHomes

\* The heartbeats of a segment in the window of the live status.
WindowReadings(d, s) ==
    {r \in d.readings : r.dev \in LinkedDevices(d, s) /\ r.ts > NeighbourhoodClock(d) - Window
                          /\ r.ts <= NeighbourhoodClock(d)}

ReportingHomes(d, s) == {d.homeOf[r.dev] : r \in WindowReadings(d, s)}

\* buildStatuses: the threshold is on the homes that reported, and a segment
\* below it shows nothing but their number.
LEMMA StatusHomes ==
    ASSUME NEW d, NEW s \in Segments
    PROVE  /\ buildStatuses(d)[s].homes = Cardinality(ReportingHomes(d, s))
           /\ buildStatuses(d)[s].suppressed <=> ~Visible(Cardinality(ReportingHomes(d, s)))
           /\ ~Visible(Cardinality(ReportingHomes(d, s))) =>
                buildStatuses(d)[s] = [homes |-> Cardinality(ReportingHomes(d, s)), suppressed |-> TRUE,
                                       cycles |-> 0, alerts |-> 0]
<1> DEFINE a == SegmentActivity(d, s)
<1>1. a.homes = Cardinality(ReportingHomes(d, s))
  BY DEF SegmentActivity, ReportingHomes, WindowReadings
<1>2. buildStatuses(d)[s] = AggregateStatus(a, SegmentOpenAlertCounts(d, s))
  BY DEF buildStatuses
<1> HIDE DEF a
<1> QED
  BY <1>1, <1>2 DEF AggregateStatus

\* aggregateStorm: likewise on the homes with metrics.
LEMMA StormHomes ==
    ASSUME NEW d, NEW s \in Segments
    PROVE  /\ aggregateStorm(d)[s].homes = Cardinality(ListStormHomeMetrics(d, s))
           /\ aggregateStorm(d)[s].suppressed <=> ~Visible(Cardinality(ListStormHomeMetrics(d, s)))
           /\ ~Visible(Cardinality(ListStormHomeMetrics(d, s))) =>
                aggregateStorm(d)[s] = [homes |-> Cardinality(ListStormHomeMetrics(d, s)),
                                        suppressed |-> TRUE, total |-> 0, lag |-> 0]
<1>1. aggregateStorm(d)[s] = AggregateStorm(d, ListStormHomeMetrics(d, s))
  BY DEF aggregateStorm
<1> QED
  BY <1>1 DEF AggregateStorm

\* SegmentActivity and ListStormHomeMetrics look at linked devices only.
LEMMA ViewsCountLinked ==
    ASSUME NEW d, RowsOK(d), NEW s
    PROVE  /\ ReportingHomes(d, s) \subseteq LinkedHomes(d, s)
           /\ ListStormHomeMetrics(d, s) \subseteq LinkedHomes(d, s)
<1>1. ReportingHomes(d, s) \subseteq LinkedHomes(d, s)
  BY DEF ReportingHomes, WindowReadings, LinkedHomes
<1>2. ASSUME NEW h \in ListStormHomeMetrics(d, s) PROVE h \in LinkedHomes(d, s)
  <2>1. PICK v \in ViewDevices : d.homeOf[v] = h
    BY <1>2 DEF ListStormHomeMetrics
  <2>2. h \in ViewHomes /\ SegmentOf[h] = s
    BY <1>2 DEF ListStormHomeMetrics, RowsOK
  <2>3. v \in LinkedDevices(d, s)
    BY <2>1, <2>2, ViewsAssumption DEF LinkedDevices
  <2> QED
    BY <2>1, <2>3 DEF LinkedHomes
<1> QED
  BY <1>1, <1>2

\* What one home's rows say changes no set of homes that a view counts: the
\* threshold decides alike.
SameHomes(d, e) ==
    \A s \in Segments :
        /\ ReportingHomes(e, s) = ReportingHomes(d, s)
        /\ ListStormHomeMetrics(e, s) = ListStormHomeMetrics(d, s)

\* The views count the same homes on two databases with the same links and the
\* same heartbeats but for their cycles.
LEMMA SameLinksSameHomes ==
    ASSUME NEW d, NEW e, RowsOK(d), e.homeOf = d.homeOf, e.lastSeen = d.lastSeen,
           DOMAIN e.metrics = DOMAIN d.metrics,
           \A r \in d.readings : \E q \in e.readings : q.dev = r.dev /\ q.ts = r.ts,
           \A q \in e.readings : \E r \in d.readings : r.dev = q.dev /\ r.ts = q.ts
    PROVE  SameHomes(d, e)
<1> SUFFICES ASSUME NEW s \in Segments
             PROVE  /\ ReportingHomes(e, s) = ReportingHomes(d, s)
                    /\ ListStormHomeMetrics(e, s) = ListStormHomeMetrics(d, s)
  BY DEF SameHomes
<1>1. ListStormHomeMetrics(e, s) = ListStormHomeMetrics(d, s)
  BY DEF ListStormHomeMetrics
<1>2. NeighbourhoodClock(e) = NeighbourhoodClock(d) /\ LinkedDevices(e, s) = LinkedDevices(d, s)
  BY DEF NeighbourhoodClock, LinkedDevices
<1>3. ASSUME NEW x \in ReportingHomes(e, s) PROVE x \in ReportingHomes(d, s)
  <2>1. PICK q \in WindowReadings(e, s) : x = e.homeOf[q.dev]
    BY <1>3 DEF ReportingHomes
  <2>2. PICK r \in d.readings : r.dev = q.dev /\ r.ts = q.ts
    BY DEF WindowReadings
  <2>3. r \in WindowReadings(d, s)
    BY <1>2, <2>1, <2>2 DEF WindowReadings
  <2> QED
    BY <2>1, <2>2, <2>3 DEF ReportingHomes
<1>4. ASSUME NEW x \in ReportingHomes(d, s) PROVE x \in ReportingHomes(e, s)
  <2>1. PICK r \in WindowReadings(d, s) : x = d.homeOf[r.dev]
    BY <1>4 DEF ReportingHomes
  <2>2. PICK q \in e.readings : q.dev = r.dev /\ q.ts = r.ts
    BY DEF WindowReadings
  <2>3. q \in WindowReadings(e, s)
    BY <1>2, <2>1, <2>2 DEF WindowReadings
  <2> QED
    BY <2>1, <2>2, <2>3 DEF ReportingHomes
<1> QED
  BY <1>1, <1>3, <1>4

\* Other volumes, lags, cycles or alerts of one home leave the counted homes as
\* they are.
LEMMA OtherValuesSameHomes ==
    ASSUME RowsOK(db), NEW h \in ViewHomes, NEW other \in WithOther(h)
    PROVE  SameHomes(db, other)
<1>1. ASSUME NEW row \in MetricRows,
             other = [db EXCEPT !.metrics = [k \in DOMAIN db.metrics |-> IF k = h THEN row ELSE db.metrics[k]]]
      PROVE  SameHomes(db, other)
  <2> DEFINE m == [k \in DOMAIN db.metrics |-> IF k = h THEN row ELSE db.metrics[k]]
  <2>1. DOMAIN m = DOMAIN db.metrics
    OBVIOUS
  <2> HIDE DEF m
  <2>2. other = [homeOf |-> db.homeOf, lastSeen |-> db.lastSeen, readings |-> db.readings,
                 metrics |-> m, open |-> db.open]
    BY <1>1 DEF RowsOK, m
  <2> QED
    BY <2>1, <2>2, SameLinksSameHomes
<1>2. ASSUME NEW n \in Counts,
             other = [db EXCEPT !.readings = {IF db.homeOf[r.dev] = h THEN [r EXCEPT !.cycles = n] ELSE r
                                                 : r \in db.readings}]
      PROVE  SameHomes(db, other)
  <2> DEFINE changed(r) == IF db.homeOf[r.dev] = h THEN [r EXCEPT !.cycles = n] ELSE r
             rs == {changed(r) : r \in db.readings}
  <2>1. \A r \in db.readings : changed(r).dev = r.dev /\ changed(r).ts = r.ts
    BY DEF RowsOK, ViewReadings
  <2>2. other.readings = rs /\ other.homeOf = db.homeOf /\ other.lastSeen = db.lastSeen
          /\ other.metrics = db.metrics
    BY <1>2 DEF RowsOK
  <2> HIDE DEF changed
  <2>3. /\ \A r \in db.readings : \E q \in rs : q.dev = r.dev /\ q.ts = r.ts
        /\ \A q \in rs : \E r \in db.readings : r.dev = q.dev /\ r.ts = q.ts
    BY <2>1
  <2> QED
    BY <2>2, <2>3, SameLinksSameHomes
<1>3. ASSUME other = [db EXCEPT !.open = SymDiff(db.open, {h})] PROVE SameHomes(db, other)
  <2>1. other.readings = db.readings /\ other.homeOf = db.homeOf /\ other.lastSeen = db.lastSeen
          /\ other.metrics = db.metrics
    BY <1>3 DEF RowsOK
  <2> QED
    BY <2>1, SameLinksSameHomes
<1> QED
  BY <1>1, <1>2, <1>3 DEF WithOther

\* On every database: a suppressed segment is silent and homes are counted once.
LEMMA RowsOKPrivate == RowsOK(db) => AggregatesPrivate
<1> SUFFICES ASSUME RowsOK(db) PROVE AggregatesPrivate
  OBVIOUS
<1>1. SuppressedRevealsNothing
  <2> SUFFICES ASSUME NEW h \in ViewHomes, NEW s \in Segments, NEW other \in WithOther(h)
               PROVE  /\ aggregateStorm(db)[s].suppressed => aggregateStorm(other)[s] = aggregateStorm(db)[s]
                      /\ buildStatuses(db)[s].suppressed => buildStatuses(other)[s] = buildStatuses(db)[s]
    BY DEF SuppressedRevealsNothing
  <2>1. /\ ReportingHomes(other, s) = ReportingHomes(db, s)
        /\ ListStormHomeMetrics(other, s) = ListStormHomeMetrics(db, s)
    BY OtherValuesSameHomes DEF SameHomes
  <2>2. ASSUME aggregateStorm(db)[s].suppressed PROVE aggregateStorm(other)[s] = aggregateStorm(db)[s]
    BY <2>1, <2>2, StormHomes
  <2>3. ASSUME buildStatuses(db)[s].suppressed PROVE buildStatuses(other)[s] = buildStatuses(db)[s]
    BY <2>1, <2>3, StatusHomes
  <2> QED
    BY <2>2, <2>3
<1>2. HomesCountedOnce
  <2> SUFFICES ASSUME NEW s \in Segments
               PROVE  /\ aggregateStorm(db)[s].homes <= homeCount(db, s)
                      /\ buildStatuses(db)[s].homes <= homeCount(db, s)
    BY DEF HomesCountedOnce
  <2>1. /\ Cardinality(ReportingHomes(db, s)) <= homeCount(db, s)
        /\ Cardinality(ListStormHomeMetrics(db, s)) <= homeCount(db, s)
    BY ViewsCountLinked, LinkedHomesFinite
  <2> QED
    BY <2>1, StormHomes, StatusHomes
<1> QED
  BY <1>1, <1>2 DEF AggregatesPrivate

\* Heartbeats, analyses, alerts and links keep the rows what they are.
LEMMA ViewsStepOK == RowsOK(db) /\ [ViewsNext]_viewVars => RowsOK(db)'
<1> SUFFICES ASSUME RowsOK(db), [ViewsNext]_viewVars PROVE RowsOK(db)'
  OBVIOUS
<1>1. ASSUME NEW v \in ViewDevices, NEW ts \in Times, NEW n \in Counts, Heartbeat(v, ts, n)
      PROVE  RowsOK(db)'
  <2> DEFINE rs == IF \E r \in db.readings : r.dev = v /\ r.ts = ts THEN db.readings
                   ELSE db.readings \cup {[dev |-> v, ts |-> ts, cycles |-> n]}
             seen == [db.lastSeen EXCEPT ![v] = Max({db.lastSeen[v], ts})]
  <2>1. db' = [db EXCEPT !.readings = rs, !.lastSeen = seen]
    BY <1>1 DEF Heartbeat, Write
  <2>2. rs \subseteq ViewReadings
    BY DEF RowsOK, ViewReadings
  <2> HIDE DEF rs, seen
  <2>3. db' = [homeOf |-> db.homeOf, lastSeen |-> seen, readings |-> rs, metrics |-> db.metrics,
               open |-> db.open]
    BY <2>1 DEF RowsOK
  <2> QED
    BY <2>2, <2>3 DEF RowsOK
<1>2. ASSUME NEW h \in ViewHomes, NEW row \in MetricRows, Analysed(h, row) PROVE RowsOK(db)'
  <2> DEFINE m == [k \in DOMAIN db.metrics \cup {h} |-> IF k = h THEN row ELSE db.metrics[k]]
  <2>1. db' = [db EXCEPT !.metrics = m]
    BY <1>2 DEF Analysed, Write
  <2>2. DOMAIN m \subseteq ViewHomes
    BY DEF RowsOK
  <2> HIDE DEF m
  <2>3. db' = [homeOf |-> db.homeOf, lastSeen |-> db.lastSeen, readings |-> db.readings, metrics |-> m,
               open |-> db.open]
    BY <2>1 DEF RowsOK
  <2> QED
    BY <2>2, <2>3 DEF RowsOK
<1>3. ASSUME NEW h \in ViewHomes, OpenOrResolve(h) PROVE RowsOK(db)'
  <2>1. db' = [db EXCEPT !.open = SymDiff(db.open, {h})]
    BY <1>3 DEF OpenOrResolve, Write
  <2>2. db' = [homeOf |-> db.homeOf, lastSeen |-> db.lastSeen, readings |-> db.readings,
               metrics |-> db.metrics, open |-> SymDiff(db.open, {h})]
    BY <2>1 DEF RowsOK
  <2> QED
    BY <2>2 DEF RowsOK
<1>4. ASSUME NEW v \in ViewDevices, NEW h \in ViewHomes, LinkDevice(v, h) PROVE RowsOK(db)'
  <2> DEFINE hs == [db.homeOf EXCEPT ![v] = h]
  <2>1. db' = [db EXCEPT !.homeOf = hs]
    BY <1>4 DEF LinkDevice, Write
  <2>2. hs \in [ViewDevices -> ViewHomes \cup {Unlinked}]
    BY DEF RowsOK
  <2> HIDE DEF hs
  <2>3. db' = [homeOf |-> hs, lastSeen |-> db.lastSeen, readings |-> db.readings, metrics |-> db.metrics,
               open |-> db.open]
    BY <2>1 DEF RowsOK
  <2> QED
    BY <2>2, <2>3 DEF RowsOK
<1>5. CASE UNCHANGED viewVars
  BY <1>5 DEF viewVars
<1> QED
  BY <1>1, <1>2, <1>3, <1>4, <1>5 DEF ViewsNext

\* ADR 0005, internal/privacy: a segment below the threshold publishes the same
\* whatever its homes report, and no view counts a home twice, for every number
\* of homes, devices and segments and every threshold.
THEOREM AggregatesStayPrivate == ViewsSpec => []AggregatesPrivate
<1>1. ViewsInit => RowsOK(db)
  <2> SUFFICES ASSUME ViewsInit PROVE RowsOK(db)
    OBVIOUS
  <2>1. /\ db.homeOf = [d \in ViewDevices |-> Unlinked] /\ db.readings = {} /\ db.metrics = <<>>
        /\ db = [homeOf |-> db.homeOf, lastSeen |-> db.lastSeen, readings |-> db.readings,
                 metrics |-> db.metrics, open |-> db.open]
    BY DEF ViewsInit
  <2>2. DOMAIN <<>> = {}
    OBVIOUS
  <2> QED
    BY <2>1, <2>2 DEF RowsOK
<1> QED
  BY <1>1, RowsOKPrivate, ViewsStepOK, PTL DEF ViewsSpec
=============================================================================
