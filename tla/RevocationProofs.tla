-------------------------- MODULE RevocationProofs --------------------------
(* The trail and the watermark, for any number of certificates, confirm    *)
(* requests and CRLs and under either policy.  A confirmation is decided   *)
(* on evidence gathered earlier, perhaps before the request was made; the  *)
(* invariant says that the evidence a retrieval has returned and a request *)
(* carries is still true when it is used, because a CRL that was published *)
(* never changes.                                                          *)
EXTENDS Revocation, FiniteSetTheorems, TLAPS

\* revoked_at is written once, when the certificate becomes pending.
StampedOnce == \A c \in Certs : cert[c].status \in {"none", "valid"} => cert[c].at = 0

RequestsBound == \A q \in Requests : request[q].pc # "idle" => request[q].cert \in Certs

TypeInv == TypeOK /\ StampedOnce /\ RequestsBound

\* What a retrieval found: nothing, or a published CRL that says so.
FlightHolds ==
    \A c \in Certs :
        /\ flight[c].kind = "failed" => flight[c].doc = 0
        /\ flight[c].kind # "failed" => flight[c].doc \in 1..last
        /\ flight[c].kind = "listed" => crl[flight[c].doc][c] = "listed"

\* The evidence of a request: nothing, or a published CRL that says so.
EvidenceHolds ==
    \A q \in Requests :
        /\ request[q].kind = "failed" => request[q].doc = 0
        /\ request[q].kind # "failed" => request[q].doc \in 1..last
        /\ request[q].kind = "listed" =>
             request[q].cert \in Certs /\ crl[request[q].doc][request[q].cert] = "listed"

-----------------------------------------------------------------------------
(* Types.                                                                  *)

CertOK == cert \in [Certs -> CertRecord] /\ StampedOnce
RequestOK == request \in [Requests -> Request] /\ RequestsBound
RestOK ==
    /\ watermark \in 0..MaxCrl
    /\ trail \in [Certs -> Confirmation]
    /\ flight \in [Certs -> Flight]
    /\ agent \in [todo : SUBSET Certs, cur : Certs \cup {None}]
    /\ ca \in [Certs -> CaStatus]
    /\ crl \in [Crls -> Crl]
    /\ last \in 0..MaxCrl

LEMMA TypeInvParts == TypeInv <=> CertOK /\ RequestOK /\ RestOK
BY DEF TypeInv, TypeOK, CertOK, RequestOK, RestOK

LEMMA Bounds == MaxCrl \in Nat /\ IsFiniteSet(Certs) /\ Cardinality(Certs) \in Nat
<1>1. MaxCrl \in Nat /\ IsFiniteSet(Certs)
  BY RevocationAssumption DEF RevocationAssumption
<1>2. QED
  BY <1>1, FS_CardinalityType

\* A stamp is available as long as some certificate has none.
LEMMA NowInRange ==
    ASSUME CertOK, NEW c \in Certs, cert[c].at = 0
    PROVE  Now \in 0..Cardinality(Certs)
<1> DEFINE S == {d \in Certs : cert[d].at # 0}
<1>1. S \in SUBSET Certs /\ S # Certs
  OBVIOUS
<1>2. Now = Cardinality(S) + 1
  BY DEF Now
<1> HIDE DEF S
<1>3. /\ IsFiniteSet(S)
      /\ Cardinality(S) <= Cardinality(Certs)
      /\ Cardinality(Certs) # Cardinality(S)
  BY <1>1, Bounds, FS_Subset
<1>4. Cardinality(S) \in Nat
  BY <1>3, FS_CardinalityType
<1>5. QED
  BY <1>2, <1>3, <1>4, Bounds

\* A row of the certificates table is written.
LEMMA CertWrites ==
    ASSUME CertOK, NEW c \in Certs, NEW v \in CertRecord,
           v.status \in {"none", "valid"} => v.at = 0,
           cert' = [cert EXCEPT ![c] = v]
    PROVE  CertOK'
BY DEF CertOK, StampedOnce

\* A confirm request goes on, or ends.
LEMMA RequestMoves ==
    ASSUME RequestOK, NEW q \in Requests, NEW v \in Request,
           v.pc # "idle" => v.cert \in Certs,
           request' = [request EXCEPT ![q] = v]
    PROVE  RequestOK'
BY DEF RequestOK, RequestsBound

LEMMA EmptySlots ==
    /\ NoRequest \in Request /\ NoRequest.pc = "idle"
    /\ NoFlight \in Flight /\ NoFlight.kind = "failed" /\ NoFlight.doc = 0
BY Bounds DEF NoRequest, Request, EvidenceKind, NoFlight, Flight

LEMMA TypeInvInit == Init => TypeInv
<1> SUFFICES ASSUME Init PROVE TypeInv
  OBVIOUS
<1>1. CertOK
  BY Bounds DEF Init, CertOK, StampedOnce, CertRecord, CertStatus
<1>2. RequestOK
  BY EmptySlots DEF Init, RequestOK, RequestsBound
<1>3. RestOK
  BY Bounds, EmptySlots DEF Init, RestOK, Confirmation, CaStatus, Crls, Crl
<1>4. QED
  BY <1>1, <1>2, <1>3, TypeInvParts

\* A thread leaves typed evidence behind.
LEMMA ReturnedType ==
    ASSUME NEW kind \in EvidenceKind, NEW doc \in 0..MaxCrl
    PROVE  /\ Returned(kind, doc) \in Flight
           /\ Returned(kind, doc).kind = kind /\ Returned(kind, doc).doc = doc
<1>1. \A f \in Flight : LET v == [f EXCEPT !.pc = "returned", !.kind = kind, !.doc = doc]
                        IN v \in Flight /\ v.kind = kind /\ v.doc = doc
  BY DEF Flight
<1>2. QED
  BY <1>1, EmptySlots DEF Returned

\* A retrieval that ends hands typed evidence to those who await it.
LEMMA DeliverType ==
    ASSUME RequestOK, RestOK, NEW c \in Certs, Deliver(c)
    PROVE  RequestOK' /\ flight' \in [Certs -> Flight]
<1>0. flight[c].kind \in EvidenceKind /\ flight[c].doc \in 0..MaxCrl
  BY DEF RestOK, Flight
<1>1. \A q \in Requests :
        LET v == [request[q] EXCEPT !.pc = "decide", !.kind = flight[c].kind,
                                    !.doc = flight[c].doc]
        IN v \in Request /\ v.cert = request[q].cert
  BY <1>0 DEF RequestOK, Request
<1>2. request' \in [Requests -> Request]
  BY <1>1 DEF Deliver, RequestOK
<1>3. RequestsBound'
  BY <1>1 DEF Deliver, RequestOK, RequestsBound
<1>4. flight' \in [Certs -> Flight]
  BY EmptySlots DEF Deliver, RestOK
<1>5. QED
  BY <1>2, <1>3, <1>4 DEF RequestOK

\* Every step of the RA, the agent and the CA keeps the types.
LEMMA TypeInvNext == TypeInv /\ [Next]_vars => TypeInv'
<1> SUFFICES ASSUME CertOK, RequestOK, RestOK, [Next]_vars
             PROVE  CertOK' /\ RequestOK' /\ RestOK'
  BY DEF TypeInv, TypeOK, CertOK, RequestOK, RestOK, StampedOnce, RequestsBound
<1> USE DEF storeVars, caVars
<1>1. ASSUME NEW c \in Certs, RecordIssuance(c) PROVE CertOK' /\ RequestOK' /\ RestOK'
  <2> DEFINE v == [cert[c] EXCEPT !.status = "valid", !.chain = TRUE]
  <2>1. v \in CertRecord /\ v.at = 0
    BY <1>1 DEF RecordIssuance, CertOK, StampedOnce, CertRecord, CertStatus
  <2>2. cert' = [cert EXCEPT ![c] = v]
    BY <1>1 DEF RecordIssuance, CertOK
  <2> HIDE DEF v
  <2>3. CertOK'
    BY <2>1, <2>2, CertWrites
  <2>4. QED
    BY <1>1, <2>3 DEF RecordIssuance, RequestOK, RequestsBound, RestOK, CaStatus
<1>2. ASSUME NEW c \in Certs, QuarantineCertificate(c) PROVE CertOK' /\ RequestOK' /\ RestOK'
  <2>1. Now \in 0..Cardinality(Certs)
    BY <1>2, NowInRange DEF QuarantineCertificate, CertOK, StampedOnce
  <2>2. PICK chain \in BOOLEAN :
          cert' = [cert EXCEPT ![c].status = "quarantined", ![c].chain = chain, ![c].at = Now]
    BY <1>2 DEF QuarantineCertificate
  <2> DEFINE v == [cert[c] EXCEPT !.status = "quarantined", !.chain = chain, !.at = Now]
  <2>3. v \in CertRecord /\ v.status = "quarantined"
    BY <2>1 DEF CertOK, CertRecord, CertStatus
  <2>4. cert' = [cert EXCEPT ![c] = v]
    BY <2>2 DEF CertOK
  <2> HIDE DEF v
  <2>5. CertOK'
    BY <2>3, <2>4, CertWrites
  <2>6. QED
    BY <1>2, <2>5 DEF QuarantineCertificate, RequestOK, RequestsBound, RestOK, CaStatus
<1>3. ASSUME NEW c \in Certs, RecordRevocation(c) PROVE CertOK' /\ RequestOK' /\ RestOK'
  <2>1. Now \in 0..Cardinality(Certs)
    BY <1>3, NowInRange DEF RecordRevocation, CertOK, StampedOnce
  <2> DEFINE v == [cert[c] EXCEPT !.status = "revoked", !.at = Now]
  <2>2. v \in CertRecord /\ v.status = "revoked"
    BY <2>1 DEF CertOK, CertRecord, CertStatus
  <2>3. cert' = [cert EXCEPT ![c] = v]
    BY <1>3 DEF RecordRevocation, CertOK
  <2> HIDE DEF v
  <2>4. CertOK'
    BY <2>2, <2>3, CertWrites
  <2>5. QED
    BY <1>3, <2>4 DEF RecordRevocation, RequestOK, RequestsBound, RestOK
<1>4. ASSUME NEW c \in Certs, AgentRevokes(c) \/ AgentRevokeFails(c)
      PROVE  CertOK' /\ RequestOK' /\ RestOK'
  <2>1. CertutilRevoke(c) \in [Certs -> CaStatus]
    BY DEF CertutilRevoke, RestOK, CaStatus
  <2>2. ca' \in [Certs -> CaStatus]
    BY <1>4, <2>1 DEF AgentRevokes, AgentRevokeFails, RestOK
  <2>3. agent' \in [todo : SUBSET Certs, cur : Certs \cup {None}]
    BY <1>4 DEF AgentRevokes, AgentRevokeFails, RestOK
  <2>4. QED
    BY <1>4, <2>2, <2>3 DEF AgentRevokes, AgentRevokeFails, CertOK, StampedOnce, RequestOK,
       RequestsBound, RestOK
<1>5. ASSUME NEW c \in Certs, FlightReads(c) PROVE CertOK' /\ RequestOK' /\ RestOK'
  <2> DEFINE v == [cert[c] EXCEPT !.chain = @ \/ HasIssuerSource(c)]
             f == [NoFlight EXCEPT !.pc = "fetch", !.mark = watermark, !.issuer = cert'[c].chain]
  <2>1. v \in CertRecord /\ v.status = cert[c].status /\ v.at = cert[c].at
    BY DEF CertOK, CertRecord
  <2>2. cert' = [cert EXCEPT ![c] = v] /\ flight' = [flight EXCEPT ![c] = f]
    BY <1>5 DEF FlightReads, CertOK
  <2>3. cert'[c].chain \in BOOLEAN
    <3> HIDE DEF v
    <3>1. QED
      BY <2>1, <2>2 DEF CertOK, CertRecord
  <2>4. f \in Flight
    <3>1. \A g \in Flight, b \in BOOLEAN, m \in 0..MaxCrl :
            [g EXCEPT !.pc = "fetch", !.mark = m, !.issuer = b] \in Flight
      BY DEF Flight
    <3>2. QED
      BY <2>3, <3>1, EmptySlots DEF RestOK
  <2> HIDE DEF v, f
  <2>5. CertOK'
    BY <2>1, <2>2, CertWrites DEF CertOK, StampedOnce
  <2>6. flight' \in [Certs -> Flight]
    BY <2>2, <2>4 DEF RestOK
  <2>7. QED
    BY <1>5, <2>5, <2>6 DEF FlightReads, RequestOK, RequestsBound, RestOK
<1>6. ASSUME NEW c \in Certs, FlightFails(c) \/ Deliver(c)
      PROVE  CertOK' /\ RequestOK' /\ RestOK'
  <2>1. CASE FlightFails(c)
    <3>1. Returned("failed", 0) \in Flight
      BY Bounds, ReturnedType DEF EvidenceKind
    <3>2. flight' \in [Certs -> Flight]
      BY <2>1, <3>1 DEF FlightFails, RestOK
    <3>3. QED
      BY <2>1, <3>2 DEF FlightFails, CertOK, StampedOnce, RequestOK, RequestsBound, RestOK
  <2>2. CASE Deliver(c)
    <3>1. RequestOK' /\ flight' \in [Certs -> Flight]
      BY <2>2, DeliverType
    <3>2. QED
      BY <2>2, <3>1 DEF Deliver, CertOK, StampedOnce, RestOK
  <2>3. QED
    BY <1>6, <2>1, <2>2
<1>7. ASSUME NEW c \in Certs, OfficerReleases(c) PROVE CertOK' /\ RequestOK' /\ RestOK'
  BY <1>7 DEF OfficerReleases, CertOK, StampedOnce, RequestOK, RequestsBound, RestOK, CaStatus
<1>8. ASSUME NEW c \in Certs, NEW d \in Crls, FlightFetches(c, d)
      PROVE  CertOK' /\ RequestOK' /\ RestOK'
  <2>1. d \in 0..MaxCrl
    BY Bounds DEF Crls
  <2>2. \A k \in EvidenceKind, e \in 0..MaxCrl : Returned(k, e) \in Flight
    BY ReturnedType
  <2>3. [flight[c] EXCEPT !.pc = "refetch"] \in Flight
    BY DEF RestOK, Flight
  <2>4. \E f \in Flight : flight' = [flight EXCEPT ![c] = f]
    <3>1. 0 \in 0..MaxCrl /\ {"failed", "listed", "unlisted"} = EvidenceKind
      BY Bounds DEF EvidenceKind
    <3>2. QED
      BY <1>8, <2>1, <2>2, <2>3, <3>1 DEF FlightFetches
  <2>5. flight' \in [Certs -> Flight]
    BY <2>4 DEF RestOK
  <2>6. QED
    BY <1>8, <2>5 DEF FlightFetches, CertOK, StampedOnce, RequestOK, RequestsBound, RestOK
<1>9. ASSUME NEW q \in Requests, AgentPosts(q) PROVE CertOK' /\ RequestOK' /\ RestOK'
  <2> DEFINE c == agent.cur
             v == [NoRequest EXCEPT !.pc = "waiting", !.cert = c]
             n == [NoFlight EXCEPT !.pc = "queued"]
             f == IF flight[c].pc = "none" THEN n ELSE flight[c]
  <2>1. c \in Certs
    BY <1>9 DEF AgentPosts, RestOK
  <2>2. v \in Request /\ v.cert = c
    <3>1. \A r \in Request : LET w == [r EXCEPT !.pc = "waiting", !.cert = c]
                             IN w \in Request /\ w.cert = c
      BY <2>1 DEF Request
    <3>2. QED
      BY <3>1, EmptySlots
  <2>3. f \in Flight
    <3>1. \A r \in Flight : [r EXCEPT !.pc = "queued"] \in Flight
      BY DEF Flight
    <3>2. n \in Flight
      BY <3>1, EmptySlots
    <3> HIDE DEF n
    <3>3. QED
      BY <2>1, <3>2 DEF RestOK
  <2>4. request' = [request EXCEPT ![q] = v] /\ flight' = [flight EXCEPT ![c] = f]
    BY <1>9 DEF AgentPosts
  <2> HIDE DEF v, f
  <2>5. RequestOK' /\ flight' \in [Certs -> Flight]
    BY <2>1, <2>2, <2>3, <2>4, RequestMoves DEF RestOK
  <2>6. QED
    BY <1>9, <2>5 DEF AgentPosts, CertOK, StampedOnce, RestOK
<1>10. ASSUME NEW q \in Requests, ConfirmDenies(q) PROVE CertOK' /\ RequestOK' /\ RestOK'
  <2>1. RequestOK'
    BY <1>10, EmptySlots, RequestMoves DEF ConfirmDenies
  <2>2. QED
    BY <1>10, <2>1 DEF ConfirmDenies, CertOK, StampedOnce, RestOK
<1>11. ASSUME NEW q \in Requests, ConfirmCommits(q) PROVE CertOK' /\ RequestOK' /\ RestOK'
  <2> DEFINE c == request[q].cert
             doc == request[q].doc
             v == [cert[c] EXCEPT !.confirmed = TRUE]
  <2>1. c \in Certs /\ doc \in 0..MaxCrl
    BY <1>11 DEF ConfirmCommits, RequestOK, RequestsBound, Request
  <2>2. RequestOK'
    BY <1>11, EmptySlots, RequestMoves DEF ConfirmCommits
  <2>3. CertOK'
    <3>1. v \in CertRecord /\ v.status = cert[c].status /\ v.at = cert[c].at
      BY <2>1 DEF CertOK, CertRecord
    <3>2. cert' = cert \/ cert' = [cert EXCEPT ![c] = v]
      BY <1>11 DEF ConfirmCommits, CertOK
    <3> HIDE DEF v
    <3>3. QED
      BY <2>1, <3>1, <3>2, CertWrites DEF CertOK, StampedOnce
  <2>4. watermark' \in 0..MaxCrl
    BY <1>11, <2>1 DEF ConfirmCommits, AdvanceWatermark, RestOK
  <2>5. trail' \in [Certs -> Confirmation]
    BY <1>11, <2>1 DEF ConfirmCommits, RestOK, Confirmation
  <2>6. QED
    BY <1>11, <2>2, <2>3, <2>4, <2>5 DEF ConfirmCommits, RestOK
<1>12. CASE AgentPulls
  <2>1. ListRevoked \in SUBSET Certs
    BY DEF ListRevoked
  <2>2. agent' \in [todo : SUBSET Certs, cur : Certs \cup {None}]
    BY <1>12, <2>1 DEF AgentPulls, RestOK
  <2>3. QED
    BY <1>12, <2>2 DEF AgentPulls, CertOK, StampedOnce, RequestOK, RequestsBound, RestOK
<1>13. CASE AgentPostFails
  BY <1>13 DEF AgentPostFails, CertOK, StampedOnce, RequestOK, RequestsBound, RestOK
<1>14. CASE PublishCrl
  <2>1. PICK s \in Crl : crl' = [crl EXCEPT ![last + 1] = s]
    BY <1>14 DEF PublishCrl, CrlContents
  <2>2. last' = last + 1 /\ last' \in 0..MaxCrl
    BY <1>14, Bounds DEF PublishCrl, RestOK
  <2>3. crl' \in [Crls -> Crl]
    BY <2>1 DEF RestOK
  <2>4. QED
    BY <1>14, <2>2, <2>3 DEF PublishCrl, CertOK, StampedOnce, RequestOK, RequestsBound, RestOK
<1>15. CASE Restart
  BY <1>15, EmptySlots DEF Restart, CertOK, StampedOnce, RequestOK, RequestsBound, RestOK
<1>16. CASE UNCHANGED vars
  BY <1>16 DEF vars, CertOK, StampedOnce, RequestOK, RequestsBound, RestOK
<1>17. QED
  BY <1>1, <1>2, <1>3, <1>4, <1>5, <1>6, <1>7, <1>8, <1>9, <1>10, <1>11, <1>12,
     <1>13, <1>14, <1>15, <1>16 DEF Next

\* Every reachable state of the revocation path is well typed, for any number
\* of certificates, confirm requests and CRLs.
THEOREM RevocationTypeCorrect == Spec => []TypeOK
<1>1. TypeInv => TypeOK
  BY DEF TypeInv
<1>2. QED
  BY TypeInvInit, TypeInvNext, <1>1, PTL DEF Spec

-----------------------------------------------------------------------------
(* What the trail and the watermark say.                                   *)

\* A certificate with no confirmation on record has acted on no CRL.
Unrecorded == \A c \in Certs : trail[c].kind = "none" => trail[c].doc = 0

Inv ==
    /\ TypeInv /\ FlightHolds /\ EvidenceHolds
    /\ Unrecorded /\ TrailMatchesEvidence /\ WatermarkIsNewestActedOn

\* What a published CRL says, it says for good.
LEMMA CrlsStay ==
    ASSUME TypeInv, [Next]_vars
    PROVE  /\ last \in Nat /\ last' \in Nat /\ last <= last'
           /\ \A d \in 1..last : crl'[d] = crl[d]
<1>1. last \in Nat /\ crl \in [Crls -> Crl]
  BY Bounds DEF TypeInv, TypeOK
<1>2. CASE PublishCrl
  BY <1>1, <1>2 DEF PublishCrl
<1>3. CASE UNCHANGED <<crl, last>>
  BY <1>1, <1>3
<1>4. PublishCrl \/ UNCHANGED <<crl, last>>
  BY DEF Next, vars, caVars, RecordIssuance, QuarantineCertificate, RecordRevocation,
     AgentRevokes, AgentRevokeFails, FlightReads, FlightFails, OfficerReleases, FlightFetches,
     Deliver, AgentPosts, ConfirmDenies, ConfirmCommits, AgentPulls, AgentPostFails, Restart
<1>5. QED
  BY <1>2, <1>3, <1>4

\* A retrieval keeps what it found, has nothing, or has read a CRL.
FlightStep(c) ==
    \/ flight'[c].kind = flight[c].kind /\ flight'[c].doc = flight[c].doc
    \/ flight'[c].kind = "failed" /\ flight'[c].doc = 0
    \/ /\ flight'[c].kind \in {"listed", "unlisted"}
       /\ flight'[c].doc \in 1..last
       /\ flight'[c].kind = "listed" => crl[flight'[c].doc][c] = "listed"

LEMMA FlightMoves ==
    ASSUME TypeInv, [Next]_vars, NEW c \in Certs
    PROVE  FlightStep(c)
<1> USE DEF FlightStep
<1>0. /\ flight \in [Certs -> Flight] /\ NoFlight.kind = "failed" /\ NoFlight.doc = 0
      /\ Returned("failed", 0).kind = "failed" /\ Returned("failed", 0).doc = 0
  BY Bounds, EmptySlots, ReturnedType DEF TypeInv, TypeOK, EvidenceKind
<1>1. ASSUME NEW d \in Certs, FlightFails(d) \/ Deliver(d) PROVE FlightStep(c)
  BY <1>0, <1>1 DEF FlightFails, Deliver
<1>2. ASSUME NEW d \in Certs, FlightReads(d) PROVE FlightStep(c)
  <2> DEFINE f == [NoFlight EXCEPT !.pc = "fetch", !.mark = watermark, !.issuer = cert'[d].chain]
  <2>1. f.kind = "failed" /\ f.doc = 0
    BY DEF NoFlight
  <2>2. flight' = [flight EXCEPT ![d] = f]
    BY <1>2 DEF FlightReads
  <2> HIDE DEF f
  <2>3. QED
    BY <1>0, <2>1, <2>2
<1>3. ASSUME NEW b \in Certs, NEW d \in Crls, FlightFetches(b, d) PROVE FlightStep(c)
  <2> DEFINE k == IF ListedOnCrl(b, d) THEN "listed" ELSE "unlisted"
  <2>1. d \in 1..last /\ Returned(k, d).kind = k /\ Returned(k, d).doc = d
    BY <1>3, Bounds, ReturnedType DEF FlightFetches, EvidenceKind, Crls
  <2>2. \/ flight' = [flight EXCEPT ![b] = [flight[b] EXCEPT !.pc = "refetch"]]
        \/ flight' = [flight EXCEPT ![b] = Returned(k, d)]
        \/ flight' = [flight EXCEPT ![b] = Returned("failed", 0)]
    BY <1>3 DEF FlightFetches
  <2>3. CASE flight' = [flight EXCEPT ![b] = [flight[b] EXCEPT !.pc = "refetch"]]
    BY <1>0, <2>3 DEF Flight
  <2>4. CASE flight' = [flight EXCEPT ![b] = Returned(k, d)]
    BY <1>0, <2>1, <2>4 DEF ListedOnCrl
  <2>5. CASE flight' = [flight EXCEPT ![b] = Returned("failed", 0)]
    BY <1>0, <2>5
  <2>6. QED
    BY <2>2, <2>3, <2>4, <2>5
<1>4. ASSUME NEW p \in Requests, AgentPosts(p) PROVE FlightStep(c)
  <2> DEFINE n == [NoFlight EXCEPT !.pc = "queued"]
  <2>1. n.kind = "failed" /\ n.doc = 0
    BY DEF NoFlight
  <2>2. flight' = flight \/ flight' = [flight EXCEPT ![agent.cur] = n]
    BY <1>0, <1>4 DEF AgentPosts
  <2> HIDE DEF n
  <2>3. QED
    BY <1>0, <2>1, <2>2
<1>5. CASE Restart
  BY <1>0, <1>5 DEF Restart
<1>6. CASE UNCHANGED flight
  BY <1>6
<1>7. QED
  BY <1>1, <1>2, <1>3, <1>4, <1>5, <1>6 DEF Next, vars, RecordIssuance,
     QuarantineCertificate, RecordRevocation, AgentRevokes, AgentRevokeFails,
     OfficerReleases, AgentPulls, AgentPostFails, PublishCrl, ConfirmDenies, ConfirmCommits

LEMMA FlightHoldsNext == TypeInv /\ FlightHolds /\ [Next]_vars => FlightHolds'
<1> SUFFICES ASSUME TypeInv, FlightHolds, [Next]_vars, NEW c \in Certs
             PROVE  /\ flight'[c].kind = "failed" => flight'[c].doc = 0
                    /\ flight'[c].kind # "failed" => flight'[c].doc \in 1..last'
                    /\ flight'[c].kind = "listed" => crl'[flight'[c].doc][c] = "listed"
  BY DEF FlightHolds
<1>1. FlightStep(c)
  BY FlightMoves
<1>2. /\ \A d \in 1..last : d \in 1..last' /\ crl'[d] = crl[d]
      /\ last \in Nat
  BY CrlsStay
<1>3. QED
  BY <1>1, <1>2 DEF FlightStep, FlightHolds

\* A request keeps its evidence, has none, or gets it from a CRL it was checked
\* against.
EvidenceStep(q) ==
    \/ /\ request'[q].kind = request[q].kind
       /\ request'[q].doc = request[q].doc
       /\ request'[q].cert = request[q].cert
    \/ request'[q].kind = "failed" /\ request'[q].doc = 0
    \/ /\ request'[q].kind \in {"listed", "unlisted"}
       /\ request'[q].doc \in 1..last
       /\ request'[q].cert \in Certs
       /\ request'[q].kind = "listed" => crl[request'[q].doc][request'[q].cert] = "listed"

LEMMA EvidenceMoves ==
    ASSUME TypeInv, FlightHolds, [Next]_vars, NEW q \in Requests
    PROVE  EvidenceStep(q)
<1> USE DEF EvidenceStep
<1>0. request \in [Requests -> Request] /\ NoRequest.kind = "failed" /\ NoRequest.doc = 0
  BY DEF TypeInv, TypeOK, NoRequest
<1>1. ASSUME NEW c \in Certs, Deliver(c) PROVE EvidenceStep(q)
  <2>1. flight[c].kind \in EvidenceKind
    BY DEF TypeInv, TypeOK, Flight
  <2>2. CASE UNCHANGED request[q]
    BY <2>2
  <2>3. CASE /\ request[q].cert = c
             /\ request'[q] = [request[q] EXCEPT !.pc = "decide", !.kind = flight[c].kind,
                                                 !.doc = flight[c].doc]
    <3>1. /\ request'[q].kind = flight[c].kind /\ request'[q].doc = flight[c].doc
          /\ request'[q].cert = c
      BY <1>0, <2>3 DEF Request
    <3>2. QED
      BY <2>1, <3>1 DEF FlightHolds, EvidenceKind
  <2>4. QED
    BY <1>1, <2>2, <2>3 DEF Deliver
<1>3. ASSUME NEW p \in Requests, AgentPosts(p) PROVE EvidenceStep(q)
  <2>1. [NoRequest EXCEPT !.pc = "waiting", !.cert = agent.cur].kind = "failed"
    BY DEF NoRequest
  <2>2. [NoRequest EXCEPT !.pc = "waiting", !.cert = agent.cur].doc = 0
    BY DEF NoRequest
  <2>3. QED
    BY <1>0, <1>3, <2>1, <2>2 DEF AgentPosts
<1>4. ASSUME NEW p \in Requests, ConfirmDenies(p) \/ ConfirmCommits(p) PROVE EvidenceStep(q)
  BY <1>0, <1>4 DEF ConfirmDenies, ConfirmCommits
<1>5. CASE Restart
  BY <1>0, <1>5 DEF Restart
<1>6. CASE UNCHANGED request
  BY <1>6
<1>7. QED
  BY <1>1, <1>3, <1>4, <1>5, <1>6 DEF Next, vars, RecordIssuance,
     QuarantineCertificate, RecordRevocation, AgentRevokes, AgentRevokeFails, FlightReads,
     FlightFails, FlightFetches, OfficerReleases, AgentPulls, AgentPostFails, PublishCrl

LEMMA EvidenceHoldsNext ==
    TypeInv /\ FlightHolds /\ EvidenceHolds /\ [Next]_vars => EvidenceHolds'
<1> SUFFICES ASSUME TypeInv, FlightHolds, EvidenceHolds, [Next]_vars, NEW q \in Requests
             PROVE  /\ request'[q].kind = "failed" => request'[q].doc = 0
                    /\ request'[q].kind # "failed" => request'[q].doc \in 1..last'
                    /\ request'[q].kind = "listed" =>
                         /\ request'[q].cert \in Certs
                         /\ crl'[request'[q].doc][request'[q].cert] = "listed"
  BY DEF EvidenceHolds
<1>1. EvidenceStep(q)
  BY EvidenceMoves
<1>2. /\ \A d \in 1..last : d \in 1..last' /\ crl'[d] = crl[d]
      /\ last \in Nat
  BY CrlsStay
<1>3. QED
  BY <1>1, <1>2 DEF EvidenceStep, EvidenceHolds

\* The store's record of a confirmation changes in one transaction only.
LEMMA RecordsMove ==
    ASSUME TypeInv, [Next]_vars
    PROVE  \/ \E q \in Requests : ConfirmCommits(q) /\ Unconfirmed(request[q].cert)
           \/ /\ UNCHANGED <<trail, watermark>>
              /\ \A c \in Certs : cert'[c].confirmed = cert[c].confirmed
<1>0. cert \in [Certs -> CertRecord]
  BY DEF TypeInv, TypeOK
<1>1. ASSUME NEW c \in Certs, NEW d \in Certs,
             RecordIssuance(c) \/ QuarantineCertificate(c) \/ RecordRevocation(c) \/ FlightReads(c)
      PROVE  UNCHANGED <<trail, watermark>> /\ cert'[d].confirmed = cert[d].confirmed
  <2>1. CASE RecordIssuance(c)
    BY <1>0, <2>1 DEF RecordIssuance, CertRecord
  <2>2. CASE QuarantineCertificate(c)
    BY <1>0, <2>2 DEF QuarantineCertificate, CertRecord
  <2>3. CASE RecordRevocation(c)
    BY <1>0, <2>3 DEF RecordRevocation, CertRecord
  <2>4. CASE FlightReads(c)
    BY <1>0, <2>4 DEF FlightReads, CertRecord
  <2>5. QED
    BY <1>1, <2>1, <2>2, <2>3, <2>4
<1>2. ASSUME NEW q \in Requests, ConfirmCommits(q), ~Unconfirmed(request[q].cert)
      PROVE  UNCHANGED storeVars
  BY <1>2 DEF ConfirmCommits
<1>3. QED
  BY <1>1, <1>2 DEF Next, vars, storeVars, AgentRevokes, AgentRevokeFails, FlightFails,
     OfficerReleases, FlightFetches, Deliver, AgentPosts, ConfirmDenies, AgentPulls,
     AgentPostFails, PublishCrl, Restart

\* The transaction itself: what it writes, for which certificate.
LEMMA CommitWrites ==
    ASSUME TypeInv, EvidenceHolds, NEW q \in Requests, ConfirmCommits(q),
           Unconfirmed(request[q].cert)
    PROVE  \E c \in Certs, d \in 0..last, k \in {"crl-verified", "agent-asserted"} :
             /\ ~cert[c].confirmed
             /\ cert'[c].confirmed
             /\ trail'[c].kind = k /\ trail'[c].doc = d
             /\ \A e \in Certs \ {c} :
                  cert'[e].confirmed = cert[e].confirmed /\ trail'[e] = trail[e]
             /\ watermark' = IF d > watermark THEN d ELSE watermark
             /\ k = "crl-verified" => d \in 1..last /\ crl[d][c] = "listed"
             /\ RequireEvidence => k = "crl-verified"
             /\ UNCHANGED <<crl, last>>
<1> DEFINE c == request[q].cert
           d == request[q].doc
           k == IF request[q].kind = "listed" THEN "crl-verified" ELSE "agent-asserted"
<1>1. c \in Certs /\ last \in Nat
  BY Bounds DEF TypeInv, TypeOK, RequestsBound, ConfirmCommits
<1>2. /\ cert \in [Certs -> CertRecord] /\ trail \in [Certs -> Confirmation]
      /\ request[q].kind \in EvidenceKind
  BY DEF TypeInv, TypeOK, Request
<1>3. d \in 0..last /\ (k = "crl-verified" => d \in 1..last /\ crl[d][c] = "listed")
  BY <1>1, <1>2 DEF EvidenceHolds, EvidenceKind
<1>4. k \in {"crl-verified", "agent-asserted"} /\ (RequireEvidence => k = "crl-verified")
  BY DEF ConfirmCommits, SufficientEvidence
<1>5. /\ cert' = [cert EXCEPT ![c].confirmed = TRUE]
      /\ trail' = [trail EXCEPT ![c] = [kind |-> k, doc |-> d]]
      /\ watermark' = IF d > watermark THEN d ELSE watermark
      /\ ~cert[c].confirmed
      /\ UNCHANGED <<crl, last>>
  BY DEF ConfirmCommits, AdvanceWatermark, Unconfirmed, caVars
<1> HIDE DEF c, d, k
<1>6. /\ cert'[c].confirmed
      /\ trail'[c].kind = k /\ trail'[c].doc = d
      /\ \A e \in Certs \ {c} :
           cert'[e].confirmed = cert[e].confirmed /\ trail'[e] = trail[e]
  BY <1>1, <1>2, <1>5 DEF CertRecord
<1>7. QED
  BY <1>1, <1>3, <1>4, <1>5, <1>6

LEMMA InvInit == Init => Inv
<1> SUFFICES ASSUME Init PROVE Inv
  OBVIOUS
<1>1. TypeInv
  BY TypeInvInit
<1>2. FlightHolds /\ EvidenceHolds
  BY DEF Init, FlightHolds, EvidenceHolds, NoFlight, NoRequest
<1>3. Unrecorded /\ TrailMatchesEvidence /\ WatermarkIsNewestActedOn
  BY DEF Init, Unrecorded, TrailMatchesEvidence, WatermarkIsNewestActedOn
<1>4. QED
  BY <1>1, <1>2, <1>3 DEF Inv

LEMMA InvNext == Inv /\ [Next]_vars => Inv'
<1> SUFFICES ASSUME Inv, [Next]_vars PROVE Inv'
  OBVIOUS
<1>1. /\ TypeInv /\ FlightHolds /\ EvidenceHolds
      /\ Unrecorded /\ TrailMatchesEvidence /\ WatermarkIsNewestActedOn
  BY DEF Inv
<1>2. TypeInv' /\ FlightHolds' /\ EvidenceHolds'
  BY <1>1, TypeInvNext, FlightHoldsNext, EvidenceHoldsNext
<1>3. /\ last \in Nat /\ last' \in Nat /\ last <= last'
      /\ \A d \in 1..last : crl'[d] = crl[d]
  BY <1>1, CrlsStay
<1>4. watermark \in Nat /\ \A c \in Certs : trail[c].doc \in Nat
  BY <1>1, Bounds DEF TypeInv, TypeOK, Confirmation
<1>5. Unrecorded' /\ TrailMatchesEvidence' /\ WatermarkIsNewestActedOn'
  <2>1. CASE UNCHANGED <<trail, watermark>> /\ \A c \in Certs : cert'[c].confirmed = cert[c].confirmed
    <3>1. Unrecorded' /\ WatermarkIsNewestActedOn'
      BY <1>1, <2>1 DEF Unrecorded, WatermarkIsNewestActedOn
    <3>2. TrailMatchesEvidence'
      BY <1>1, <1>3, <2>1 DEF TrailMatchesEvidence
    <3>3. QED
      BY <3>1, <3>2
  <2>2. CASE \E q \in Requests : ConfirmCommits(q) /\ Unconfirmed(request[q].cert)
    <3>1. PICK c \in Certs, d \in 0..last, k \in {"crl-verified", "agent-asserted"} :
             /\ ~cert[c].confirmed
             /\ cert'[c].confirmed
             /\ trail'[c].kind = k /\ trail'[c].doc = d
             /\ \A e \in Certs \ {c} :
                  cert'[e].confirmed = cert[e].confirmed /\ trail'[e] = trail[e]
             /\ watermark' = IF d > watermark THEN d ELSE watermark
             /\ k = "crl-verified" => d \in 1..last /\ crl[d][c] = "listed"
             /\ RequireEvidence => k = "crl-verified"
             /\ UNCHANGED <<crl, last>>
      BY <1>1, <2>2, CommitWrites
    <3>2. Unrecorded'
      BY <1>1, <3>1 DEF Unrecorded
    <3>3. TrailMatchesEvidence'
      BY <1>1, <3>1 DEF TrailMatchesEvidence
    <3>4. trail[c].doc = 0
      BY <1>1, <3>1 DEF TrailMatchesEvidence, Unrecorded
    <3>5. \A e \in Certs : trail'[e].doc <= watermark'
      BY <1>1, <1>3, <1>4, <3>1 DEF WatermarkIsNewestActedOn
    <3>6. watermark' = 0 \/ \E e \in Certs : trail'[e].doc = watermark'
      BY <1>1, <1>3, <1>4, <3>1, <3>4 DEF WatermarkIsNewestActedOn
    <3>7. QED
      BY <3>2, <3>3, <3>5, <3>6 DEF WatermarkIsNewestActedOn
  <2>3. QED
    BY <1>1, <2>1, <2>2, RecordsMove
<1>6. QED
  BY <1>2, <1>5 DEF Inv

\* The audit trail claims what was seen, for any number of certificates, CRLs
\* and concurrent confirm requests and under either policy: "crl-verified" names
\* a published CRL that lists the serial, and a strict RA accepts nothing less.
THEOREM TrailIsTrue == Spec => []TrailMatchesEvidence
<1>1. Inv => TrailMatchesEvidence
  BY DEF Inv
<1>2. QED
  BY InvInit, InvNext, <1>1, PTL DEF Spec

\* The watermark is the newest CRL a recorded confirmation acted on, however
\* many confirmations overlap.
THEOREM WatermarkIsTrue == Spec => []WatermarkIsNewestActedOn
<1>1. Inv => WatermarkIsNewestActedOn
  BY DEF Inv
<1>2. QED
  BY InvInit, InvNext, <1>1, PTL DEF Spec

\* No step rewrites the record of a confirmation: the confirm transaction writes
\* only for a certificate whose ca_crl_updated flag is clear, and nothing clears it.
THEOREM ConfirmationIsFinal == Spec => FirstConfirmationStands
<1> DEFINE Stands ==
      \A c \in Certs : cert[c].confirmed => trail'[c] = trail[c] /\ cert'[c].confirmed
<1>1. ASSUME Inv, Next PROVE Stands
  <2>1. TypeInv /\ EvidenceHolds
    BY <1>1 DEF Inv
  <2>2. CASE UNCHANGED <<trail, watermark>> /\ \A c \in Certs : cert'[c].confirmed = cert[c].confirmed
    BY <2>2
  <2>3. CASE \E q \in Requests : ConfirmCommits(q) /\ Unconfirmed(request[q].cert)
    <3>1. \E c \in Certs : /\ ~cert[c].confirmed
                            /\ \A e \in Certs \ {c} : /\ cert'[e].confirmed = cert[e].confirmed
                                                        /\ trail'[e] = trail[e]
      BY <2>1, <2>3, CommitWrites
    <3>2. QED
      BY <3>1
  <2>4. QED
    BY <1>1, <2>1, <2>2, <2>3, RecordsMove
<1>2. Inv /\ [Next]_vars => [Stands]_vars
  BY <1>1
<1>3. QED
  BY InvInit, InvNext, <1>2, PTL DEF Spec, FirstConfirmationStands

-----------------------------------------------------------------------------
(* What the agent's word is worth: a serial it carries, a request that     *)
(* carries it on and a certificate off the list were all revoked at the CA *)
(* at some time, and no step makes that untrue.                            *)

WasRevoked(c) == ca[c] \in {"revoked", "held", "released"}

\* The RA's store knows every certificate on the agent's list, and every one
\* the CA has revoked.
KnownToStore ==
    /\ \A c \in agent.todo : cert[c].status # "none"
    /\ \A c \in Certs : WasRevoked(c) => cert[c].status # "none"

CarriedWasRevoked ==
    /\ agent.cur # None => WasRevoked(agent.cur)
    /\ \A q \in Requests : request[q].pc # "idle" => WasRevoked(request[q].cert)

RevokedInv == KnownToStore /\ CarriedWasRevoked /\ ConfirmedWasRevoked

\* A certificate that has a row keeps one, and what the CA has revoked stays
\* revoked, held or released: only a first recording makes it "issued".
LEMMA RevocationStays ==
    ASSUME TypeInv, KnownToStore, [Next]_vars, NEW c \in Certs
    PROVE  /\ cert[c].status # "none" => cert'[c].status # "none"
           /\ WasRevoked(c) => WasRevoked(c)'
<1> USE DEF storeVars, caVars
<1>0. cert \in [Certs -> CertRecord] /\ ca \in [Certs -> CaStatus]
  BY DEF TypeInv, TypeOK
<1>1. ASSUME NEW d \in Certs, RecordIssuance(d) \/ QuarantineCertificate(d)
      PROVE  /\ cert[c].status # "none" => cert'[c].status # "none"
             /\ WasRevoked(c) => WasRevoked(c)'
  <2>1. cert[d].status = "none" /\ ca' = [ca EXCEPT ![d] = "issued"]
    BY <1>1 DEF RecordIssuance, QuarantineCertificate
  <2>2. cert'[c].status = cert[c].status \/ cert'[c].status \in {"valid", "quarantined"}
    <3>1. CASE RecordIssuance(d)
      BY <1>0, <3>1 DEF RecordIssuance, CertRecord
    <3>2. CASE QuarantineCertificate(d)
      BY <1>0, <3>2 DEF QuarantineCertificate, CertRecord
    <3>3. QED
      BY <1>1, <3>1, <3>2
  <2>3. QED
    BY <1>0, <2>1, <2>2 DEF KnownToStore, WasRevoked
<1>2. ASSUME NEW d \in Certs, RecordRevocation(d) \/ FlightReads(d)
      PROVE  ca' = ca /\ (cert[c].status # "none" => cert'[c].status # "none")
  <2>1. CASE RecordRevocation(d)
    BY <1>0, <2>1 DEF RecordRevocation, CertRecord
  <2>2. CASE FlightReads(d)
    BY <1>0, <2>2 DEF FlightReads, CertRecord
  <2>3. QED
    BY <1>2, <2>1, <2>2
<1>3. ASSUME NEW d \in Certs, AgentRevokes(d) \/ AgentRevokeFails(d)
      PROVE  cert' = cert /\ (WasRevoked(c) => WasRevoked(c)')
  BY <1>0, <1>3 DEF AgentRevokes, AgentRevokeFails, CertutilRevoke, RevokedAtCa, WasRevoked
<1>4. ASSUME NEW d \in Certs, OfficerReleases(d)
      PROVE  cert' = cert /\ (WasRevoked(c) => WasRevoked(c)')
  BY <1>0, <1>4 DEF OfficerReleases, WasRevoked
<1>5. ASSUME NEW q \in Requests, ConfirmCommits(q)
      PROVE  ca' = ca /\ cert'[c].status = cert[c].status
  BY <1>0, <1>5 DEF ConfirmCommits, CertRecord
<1>6. CASE UNCHANGED <<cert, ca>>
  BY <1>6 DEF WasRevoked
<1>7. QED
  BY <1>1, <1>2, <1>3, <1>4, <1>5, <1>6 DEF Next, vars, WasRevoked, FlightFails,
     FlightFetches, Deliver, AgentPosts, ConfirmDenies, AgentPulls, AgentPostFails, PublishCrl, Restart

\* The CA revokes only what the agent's list holds.
LEMMA KnownToStoreNext == TypeInv /\ KnownToStore /\ [Next]_vars => KnownToStore'
<1> SUFFICES ASSUME TypeInv, KnownToStore, [Next]_vars PROVE KnownToStore'
  OBVIOUS
<1> USE DEF storeVars, caVars
<1>0. /\ agent \in [todo : SUBSET Certs, cur : Certs \cup {None}]
      /\ ca \in [Certs -> CaStatus] /\ cert \in [Certs -> CertRecord]
  BY DEF TypeInv, TypeOK
<1>1. \A c \in Certs : cert[c].status # "none" => cert'[c].status # "none"
  BY RevocationStays
<1>2. ASSUME AgentPulls PROVE KnownToStore'
  <2>1. \A c \in agent'.todo : c \in Certs /\ cert[c].status # "none"
    BY <1>0, <1>2 DEF AgentPulls, ListRevoked, Pending
  <2>2. QED
    BY <1>2, <2>1 DEF AgentPulls, KnownToStore, WasRevoked
<1>3. ASSUME NEW d \in Certs, AgentRevokes(d) \/ AgentRevokeFails(d) PROVE KnownToStore'
  <2>1. /\ d \in agent.todo /\ agent'.todo \subseteq agent.todo /\ cert' = cert
        /\ \A c \in Certs : c # d => ca'[c] = ca[c]
    BY <1>0, <1>3 DEF AgentRevokes, AgentRevokeFails, AtHand, CertutilRevoke
  <2>2. QED
    BY <2>1 DEF KnownToStore, WasRevoked
<1>4. ASSUME agent'.todo \subseteq agent.todo, \A c \in Certs : WasRevoked(c)' => WasRevoked(c)
      PROVE  KnownToStore'
  BY <1>0, <1>1, <1>4 DEF KnownToStore
<1>5. ASSUME NEW d \in Certs,
             \/ RecordIssuance(d) \/ QuarantineCertificate(d) \/ RecordRevocation(d)
             \/ FlightReads(d) \/ FlightFails(d) \/ Deliver(d) \/ OfficerReleases(d)
      PROVE  agent' = agent /\ \A c \in Certs : WasRevoked(c)' => WasRevoked(c)
  BY <1>0, <1>5 DEF RecordIssuance, QuarantineCertificate, RecordRevocation, FlightReads,
     FlightFails, Deliver, OfficerReleases, WasRevoked
<1>6. ASSUME NEW q \in Requests, AgentPosts(q) PROVE agent'.todo = agent.todo /\ ca' = ca
  BY <1>0, <1>6 DEF AgentPosts
<1>7. ASSUME AgentPostFails PROVE agent'.todo = agent.todo /\ ca' = ca
  BY <1>0, <1>7 DEF AgentPostFails
<1>8. CASE UNCHANGED <<agent, ca>>
  BY <1>4, <1>8 DEF WasRevoked
<1>9. QED
  BY <1>2, <1>3, <1>4, <1>5, <1>6, <1>7, <1>8 DEF Next, vars, WasRevoked, FlightFetches,
     ConfirmDenies, ConfirmCommits, PublishCrl, Restart

\* The agent carries a serial only after certutil revoked it or found it so,
\* and a request only what the agent carried.
LEMMA CarriedNext ==
    TypeInv /\ KnownToStore /\ CarriedWasRevoked /\ [Next]_vars => CarriedWasRevoked'
<1> SUFFICES ASSUME TypeInv, KnownToStore, CarriedWasRevoked, [Next]_vars
             PROVE  CarriedWasRevoked'
  OBVIOUS
<1> USE DEF storeVars, caVars
<1>0. /\ agent \in [todo : SUBSET Certs, cur : Certs \cup {None}]
      /\ ca \in [Certs -> CaStatus] /\ request \in [Requests -> Request]
      /\ \A q \in Requests : request[q].pc # "idle" => request[q].cert \in Certs
  BY DEF TypeInv, TypeOK, RequestsBound
<1>1. \A c \in Certs : WasRevoked(c) => WasRevoked(c)'
  BY RevocationStays
<1>2. ASSUME agent'.cur = agent.cur \/ agent'.cur = None,
             \A q \in Requests : request'[q].pc # "idle" =>
                 \/ request[q].pc # "idle" /\ request'[q].cert = request[q].cert
                 \/ agent.cur # None /\ request'[q].cert = agent.cur
      PROVE  CarriedWasRevoked'
  <2>1. agent'.cur # None => WasRevoked(agent.cur)'
    BY <1>0, <1>1, <1>2 DEF CarriedWasRevoked, WasRevoked
  <2>2. ASSUME NEW q \in Requests, request'[q].pc # "idle" PROVE WasRevoked(request[q].cert)'
    BY <1>0, <1>1, <1>2, <2>2 DEF CarriedWasRevoked, WasRevoked
  <2>3. QED
    BY <2>1, <2>2 DEF CarriedWasRevoked
<1>3. ASSUME NEW d \in Certs, AgentRevokes(d) PROVE CarriedWasRevoked'
  <2>1. agent'.cur = d /\ WasRevoked(d)'
    BY <1>0, <1>3 DEF AgentRevokes, CertutilRevoke, RevokedAtCa, WasRevoked
  <2>2. request' = request
    BY <1>3 DEF AgentRevokes
  <2>3. QED
    BY <1>0, <1>1, <2>1, <2>2 DEF CarriedWasRevoked, WasRevoked
<1>4. ASSUME NEW d \in Certs, AgentRevokeFails(d) PROVE agent'.cur = agent.cur /\ request' = request
  BY <1>0, <1>4 DEF AgentRevokeFails
<1>5. ASSUME NEW c \in Certs, Deliver(c), NEW q \in Requests, request'[q].pc # "idle"
      PROVE  request[q].pc # "idle" /\ request'[q].cert = request[q].cert
  BY <1>0, <1>5 DEF Deliver, Request
<1>6. ASSUME NEW c \in Certs, Deliver(c) PROVE CarriedWasRevoked'
  BY <1>2, <1>5, <1>6 DEF Deliver
<1>7. ASSUME NEW c \in Certs, FlightFails(c) \/ \E d \in Crls : FlightFetches(c, d)
      PROVE  agent' = agent /\ request' = request
  BY <1>7 DEF FlightFails, FlightFetches
<1>8. ASSUME NEW q \in Requests, AgentPosts(q) PROVE CarriedWasRevoked'
  <2> DEFINE v == [NoRequest EXCEPT !.pc = "waiting", !.cert = agent.cur]
  <2>1. v.cert = agent.cur
    BY DEF NoRequest
  <2>2. agent.cur # None /\ request' = [request EXCEPT ![q] = v] /\ agent'.cur = None
    BY <1>0, <1>8 DEF AgentPosts
  <2> HIDE DEF v
  <2>3. QED
    BY <1>0, <1>2, <2>1, <2>2
<1>9. ASSUME NEW q \in Requests, ConfirmDenies(q) \/ ConfirmCommits(q) PROVE CarriedWasRevoked'
  <2>1. agent' = agent /\ request' = [request EXCEPT ![q] = NoRequest]
    BY <1>9 DEF ConfirmDenies, ConfirmCommits
  <2>2. QED
    BY <1>0, <1>2, <2>1, EmptySlots
<1>10. ASSUME AgentPulls \/ AgentPostFails
       PROVE  request' = request /\ (agent'.cur = agent.cur \/ agent'.cur = None)
  BY <1>0, <1>10 DEF AgentPulls, AgentPostFails
<1>11. ASSUME Restart PROVE CarriedWasRevoked'
  BY <1>2, <1>11, EmptySlots DEF Restart
<1>12. CASE agent'.cur \in {agent.cur, None} /\ request' = request
  BY <1>2, <1>12
<1>13. QED
  BY <1>3, <1>4, <1>6, <1>7, <1>8, <1>9, <1>10, <1>11, <1>12 DEF Next, vars, RecordIssuance,
     QuarantineCertificate, RecordRevocation, FlightReads, OfficerReleases, PublishCrl

\* Nothing comes off the pending list that the CA never revoked, for any number
\* of certificates, agents' runs and overlapping confirm requests, under either
\* evidence policy: what is lost, repeated or posted late is at worst a
\* confirmation of a revocation that did happen.
THEOREM ConfirmedRevocationsHappened == Spec => []ConfirmedWasRevoked
<1>1. Init => RevokedInv
  BY DEF Init, RevokedInv, KnownToStore, CarriedWasRevoked, ConfirmedWasRevoked, WasRevoked,
     NoRequest
<1>2. Inv /\ RevokedInv /\ [Next]_vars => RevokedInv'
  <2> SUFFICES ASSUME Inv, RevokedInv, [Next]_vars PROVE RevokedInv'
    OBVIOUS
  <2>1. TypeInv /\ EvidenceHolds /\ KnownToStore /\ CarriedWasRevoked /\ ConfirmedWasRevoked
    BY DEF Inv, RevokedInv
  <2>2. KnownToStore' /\ CarriedWasRevoked'
    BY <2>1, KnownToStoreNext, CarriedNext
  <2>3. ASSUME NEW c \in Certs, cert'[c].confirmed PROVE WasRevoked(c)'
    <3>1. WasRevoked(c) => WasRevoked(c)'
      BY <2>1, RevocationStays
    <3>2. CASE cert[c].confirmed
      BY <2>1, <3>1, <3>2 DEF ConfirmedWasRevoked, WasRevoked
    <3>3. CASE ~cert[c].confirmed
      <4>1. PICK q \in Requests : ConfirmCommits(q)
        BY <2>1, <2>3, <3>3, RecordsMove
      <4>2. request[q].cert = c /\ request[q].pc # "idle"
        BY <2>1, <2>3, <3>3, <4>1 DEF ConfirmCommits, storeVars, TypeInv, TypeOK, CertRecord
      <4>3. QED
        BY <2>1, <3>1, <4>2 DEF CarriedWasRevoked
    <3>4. QED
      BY <3>2, <3>3
  <2>4. QED
    BY <2>2, <2>3 DEF RevokedInv, ConfirmedWasRevoked, WasRevoked
<1>3. RevokedInv => ConfirmedWasRevoked
  BY DEF RevokedInv
<1>4. QED
  BY <1>1, <1>2, <1>3, InvInit, InvNext, PTL DEF Spec

=============================================================================
