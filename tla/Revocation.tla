----------------------------- MODULE Revocation -----------------------------
(***************************************************************************)
(* How a revocation reaches the CA and comes back: the RA marks a          *)
(* certificate, a scheduled agent pulls the list, revokes at the CA and    *)
(* posts a confirmation, and the RA looks for the serial on a published    *)
(* CRL before it lets the certificate off the list.  Agent and RA fail     *)
(* independently, every message can be lost, and the CRL distribution      *)
(* point may serve any CRL ever published.                                 *)
(*                                                                         *)
(* One CA signs the CRLs at the configured URL.  A CRL is named by its     *)
(* position in the CA's sequence, which its number and thisUpdate follow;  *)
(* position 0 stands for none.                                             *)
(***************************************************************************)
EXTENDS Naturals, FiniteSets

CONSTANTS
    Certs,              \* certificates of the RA store
    Foreign,            \* those signed by another CA key than the CRLs
    Holds,              \* those whose owner revokes with reason certificateHold
    Requests,           \* slots for concurrent confirm requests
    None,
    MaxCrl,             \* bound on the CRLs published
    PageLimit,          \* rows of one pull (500)
    RequireEvidence,    \* revocation_confirm_require_crl_evidence
    EnforceMonotonic    \* revocation_confirm_crl_require_monotonic

ASSUME RevocationAssumption ==
    /\ IsFiniteSet(Certs) /\ None \notin Certs
    /\ Foreign \subseteq Certs /\ Holds \subseteq Certs
    /\ MaxCrl \in Nat
    /\ PageLimit \in Nat \ {0}
    /\ RequireEvidence \in BOOLEAN /\ EnforceMonotonic \in BOOLEAN

VARIABLES
    \* the store
    cert,       \* status, stored chain, revoked_at and ca_crl_updated
    watermark,  \* the newest CRL acted on
    trail,      \* the revocation-ca-confirmed audit row of each certificate
    \* the RA process
    request,    \* confirm requests past their checks
    flight,     \* the CRL retrieval of each certificate
    \* the agent, the CA and its CRLs (the CA is external)
    agent, ca, crl, last

storeVars == <<cert, watermark, trail>>
caVars == <<ca, crl, last>>
vars == <<cert, watermark, trail, request, flight, agent, ca, crl, last>>

Crls == 1..MaxCrl
CertStatus == {"none", "valid", "revoked", "quarantined"}
CaStatus == {"absent", "issued", "revoked", "held", "released"}
\* "failed": checked is false, or no CRL is configured.
EvidenceKind == {"failed", "listed", "unlisted"}

CertRecord == [status : CertStatus, chain : BOOLEAN,
               at : 0..Cardinality(Certs), confirmed : BOOLEAN]
Confirmation == [kind : {"none", "crl-verified", "agent-asserted"}, doc : 0..MaxCrl]
Request == [pc : {"idle", "waiting", "decide"}, cert : Certs \cup {None},
            kind : EvidenceKind, doc : 0..MaxCrl]
\* "returned": the thread is done, and the event loop has yet to be told.
Flight == [pc : {"none", "queued", "fetch", "refetch", "returned"},
           mark : 0..MaxCrl, issuer : BOOLEAN, kind : EvidenceKind, doc : 0..MaxCrl]
Crl == [Certs -> {"absent", "listed", "removed"}]

NoFlight == [pc |-> "none", mark |-> 0, issuer |-> FALSE, kind |-> "failed", doc |-> 0]
NoRequest == [pc |-> "idle", cert |-> None, kind |-> "failed", doc |-> 0]

TypeOK ==
    /\ cert \in [Certs -> CertRecord]
    /\ watermark \in 0..MaxCrl
    /\ trail \in [Certs -> Confirmation]
    /\ request \in [Requests -> Request]
    /\ flight \in [Certs -> Flight]
    /\ agent \in [todo : SUBSET Certs, cur : Certs \cup {None}]
    /\ ca \in [Certs -> CaStatus]
    /\ crl \in [Crls -> Crl]
    /\ last \in 0..MaxCrl

Init ==
    /\ cert = [c \in Certs |-> [status |-> "none", chain |-> FALSE, at |-> 0, confirmed |-> FALSE]]
    /\ watermark = 0
    /\ trail = [c \in Certs |-> [kind |-> "none", doc |-> 0]]
    /\ request = [q \in Requests |-> NoRequest]
    /\ flight = [c \in Certs |-> NoFlight]
    /\ agent = [todo |-> {}, cur |-> None]
    /\ ca = [c \in Certs |-> "absent"]
    /\ crl = [d \in Crls |-> [c \in Certs |-> "absent"]]
    /\ last = 0

-----------------------------------------------------------------------------
(* The store before the agent.                                             *)

\* A revoked_at later than every other.
Now == Cardinality({c \in Certs : cert[c].at # 0}) + 1

\* record_issuance: the CA issued and the RA stored leaf and chain.
RecordIssuance(c) ==
    /\ cert[c].status = "none"
    /\ cert' = [cert EXCEPT ![c].status = "valid", ![c].chain = TRUE]
    /\ ca' = [ca EXCEPT ![c] = "issued"]
    /\ UNCHANGED <<watermark, trail, request, flight, agent, crl, last>>

\* quarantine_certificate: live at the CA and pending from the start; an
\* orphan whose chain was never fetched is stored without one.
QuarantineCertificate(c) ==
    /\ cert[c].status = "none"
    /\ \E chain \in BOOLEAN :
         cert' = [cert EXCEPT ![c].status = "quarantined", ![c].chain = chain, ![c].at = Now]
    /\ ca' = [ca EXCEPT ![c] = "issued"]
    /\ UNCHANGED <<watermark, trail, request, flight, agent, crl, last>>

\* revokeCert, up to the record_revocation transaction; a repeat is a no-op.
RecordRevocation(c) ==
    /\ cert[c].status = "valid"
    /\ cert' = [cert EXCEPT ![c].status = "revoked", ![c].at = Now]
    /\ UNCHANGED <<watermark, trail, request, flight, agent, caVars>>

Pending(c) == cert[c].status \in {"revoked", "quarantined"} /\ ~cert[c].confirmed

\* list_revoked_certificates: the newest PageLimit pending rows.
ListRevoked ==
    {c \in Certs : /\ Pending(c)
                   /\ Cardinality({d \in Certs : Pending(d) /\ cert[d].at > cert[c].at}) < PageLimit}

-----------------------------------------------------------------------------
(* Sync-Revocations.ps1.  A run that is killed, or that aborts on a        *)
(* requester mismatch, is one whose remaining steps all fail.              *)

AgentPulls ==
    /\ agent = [todo |-> {}, cur |-> None]
    /\ ListRevoked # {}
    /\ agent' = [agent EXCEPT !.todo = ListRevoked]
    /\ UNCHANGED <<storeVars, request, flight, caVars>>

\* The serial the loop is at: the list comes newest first.
AtHand(c) ==
    /\ agent.cur = None
    /\ c \in agent.todo
    /\ \A d \in agent.todo : cert[d].at <= cert[c].at

\* Test-SerialRevokedAtCa: disposition 21, unless released with reason 8.
RevokedAtCa(c) == ca[c] \in {"revoked", "held"}

CertutilRevoke(c) ==
    [ca EXCEPT ![c] = IF RevokedAtCa(c) THEN @ ELSE IF c \in Holds THEN "held" ELSE "revoked"]

\* Fault: a certificate that is already revoked is a failed revocation.
AgentRevokesOnce(c) ==
    /\ AtHand(c) /\ ~RevokedAtCa(c)
    /\ ca' = CertutilRevoke(c)
    /\ agent' = [todo |-> agent.todo \ {c}, cur |-> c]
    /\ UNCHANGED <<storeVars, request, flight, crl, last>>

\* Exit 0 or 6: revoked now, or found revoked; both are confirmed.
AgentRevokes(c) ==
    /\ AtHand(c)
    /\ ca' = CertutilRevoke(c)
    /\ agent' = [todo |-> agent.todo \ {c}, cur |-> c]
    /\ UNCHANGED <<storeVars, request, flight, crl, last>>

\* Fault: whatever the exit code, the serial is confirmed.
AgentConfirmsFailure(c) ==
    /\ AtHand(c)
    /\ agent' = [todo |-> agent.todo \ {c}, cur |-> c]
    /\ UNCHANGED <<storeVars, request, flight, caVars>>

\* Any other exit code, possibly after the revocation itself went through:
\* the serial is skipped.
AgentRevokeFails(c) ==
    /\ AtHand(c)
    /\ ca' \in {ca, CertutilRevoke(c)}
    /\ agent' = [agent EXCEPT !.todo = @ \ {c}]
    /\ UNCHANGED <<storeVars, request, flight, crl, last>>

\* The POST arrives: the confirm route passes its checks and joins the
\* retrieval of this certificate, whose thread may have returned already, or
\* starts it.  The agent goes on, with the answer or without.
AgentPosts(q) ==
    LET c == agent.cur
    IN /\ c # None
       /\ request[q].pc = "idle"
       /\ Pending(c)
       /\ request' = [request EXCEPT ![q] = [NoRequest EXCEPT !.pc = "waiting", !.cert = c]]
       /\ flight' = [flight EXCEPT ![c] =
                       IF @.pc = "none" THEN [NoFlight EXCEPT !.pc = "queued"] ELSE @]
       /\ agent' = [agent EXCEPT !.cur = None]
       /\ UNCHANGED <<storeVars, caVars>>

\* The POST is lost, shed by the evidence gate, or repeats a confirmation.
AgentPostFails ==
    /\ agent.cur # None
    /\ agent' = [agent EXCEPT !.cur = None]
    /\ UNCHANGED <<storeVars, request, flight, caVars>>

-----------------------------------------------------------------------------
(* _crl_evidence_for, on a thread of the evidence gate.                    *)

\* recover_issuer_chain: some stored chain holds the CA key that signed c.  The
\* bounds of its scan (1000 rows, 64 distinct candidates) are left out: the
\* store is one the scan reads to its end.
HasIssuerSource(c) ==
    \E d \in Certs : cert[d].chain /\ (d \in Foreign <=> c \in Foreign)

\* A missing chain is repaired from the store, then the watermark is read.
FlightReads(c) ==
    /\ flight[c].pc = "queued"
    /\ cert' = [cert EXCEPT ![c].chain = @ \/ HasIssuerSource(c)]
    /\ flight' = [flight EXCEPT ![c] = [NoFlight EXCEPT !.pc = "fetch", !.mark = watermark,
                                                         !.issuer = cert'[c].chain]]
    /\ UNCHANGED <<watermark, trail, request, agent, caVars>>

\* What the thread leaves behind.
Returned(kind, doc) == [NoFlight EXCEPT !.pc = "returned", !.kind = kind, !.doc = doc]

\* The store, the network, the freshness limits or the size limit fail it.
FlightFails(c) ==
    /\ flight[c].pc \in {"queued", "fetch", "refetch"}
    /\ flight' = [flight EXCEPT ![c] = Returned("failed", 0)]
    /\ UNCHANGED <<storeVars, request, agent, caVars>>

\* compare_to_watermark = older, and refused.
Regressed(c, d) == EnforceMonotonic /\ d < flight[c].mark

\* Fault: presence on the CRL is taken for revocation.
PresentOnCrl(c, d) == crl[d][c] # "absent"

\* A removeFromCRL entry means the opposite.
ListedOnCrl(c, d) == crl[d][c] = "listed"

\* The distribution point serves CRL d.  A regression is believed only the
\* second time.
FlightFetches(c, d) ==
    LET verifies == flight[c].issuer /\ c \notin Foreign
        usable == verifies /\ ~Regressed(c, d)
    IN /\ flight[c].pc \in {"fetch", "refetch"}
       /\ d \in 1..last
       /\ flight' = [flight EXCEPT ![c] =
            IF verifies /\ Regressed(c, d) /\ @.pc = "fetch" THEN [@ EXCEPT !.pc = "refetch"]
            ELSE IF usable THEN Returned(IF ListedOnCrl(c, d) THEN "listed" ELSE "unlisted", d)
            ELSE Returned("failed", 0)]
       /\ UNCHANGED <<storeVars, request, agent, caVars>>

\* The outcome reaches every request that awaits the retrieval by now.
Deliver(c) ==
    /\ flight[c].pc = "returned"
    /\ request' = [q \in Requests |->
                     IF request[q].pc = "waiting" /\ request[q].cert = c
                       THEN [request[q] EXCEPT !.pc = "decide", !.kind = flight[c].kind,
                                               !.doc = flight[c].doc]
                       ELSE request[q]]
    /\ flight' = [flight EXCEPT ![c] = NoFlight]
    /\ UNCHANGED <<storeVars, agent, caVars>>

-----------------------------------------------------------------------------
(* The confirm route, once it has its evidence.                            *)

\* Evidence is required and absent, or the transaction fails.
ConfirmDenies(q) ==
    /\ request[q].pc = "decide"
    /\ request' = [request EXCEPT ![q] = NoRequest]
    /\ UNCHANGED <<storeVars, flight, agent, caVars>>

\* Fault: a retrieval that failed is let pass.
FailureSuffices(kind) == RequireEvidence => kind # "unlisted"

\* revocation_confirm_require_crl_evidence asks for the serial on a CRL.
SufficientEvidence(kind) == RequireEvidence => kind = "listed"

\* Fault: a plain UPDATE.
OverwriteWatermark(d) == IF d = 0 THEN watermark ELSE d

\* Fault: the number that is stored is that of the next CRL.
AdvancePast(d) == IF d >= watermark /\ d # 0 THEN d + 1 ELSE watermark

\* _advance_crl_watermark_in_conn: never backwards.
AdvanceWatermark(d) == IF d > watermark THEN d ELSE watermark

\* Fault: the flag is not part of the compare-and-set.
UnconfirmedAlways(c) == TRUE

\* The WHERE clause of the confirmation: ca_crl_updated = 0.
Unconfirmed(c) == ~cert[c].confirmed

\* confirm_ca_revocation_with_audit: flag, watermark and audit row in one
\* transaction; the loser of a race writes nothing.
ConfirmCommits(q) ==
    LET c == request[q].cert
        kind == request[q].kind
        doc == request[q].doc
    IN /\ request[q].pc = "decide"
       /\ SufficientEvidence(kind)
       /\ IF Unconfirmed(c)
            THEN /\ cert' = [cert EXCEPT ![c].confirmed = TRUE]
                 /\ watermark' = AdvanceWatermark(doc)
                 /\ trail' = [trail EXCEPT ![c] =
                      [kind |-> IF kind = "listed" THEN "crl-verified" ELSE "agent-asserted",
                       doc |-> doc]]
            ELSE UNCHANGED storeVars
       /\ request' = [request EXCEPT ![q] = NoRequest]
       /\ UNCHANGED <<flight, agent, caVars>>

\* The process dies; the store stays.
Restart ==
    /\ \E q \in Requests : request[q].pc # "idle"
    /\ request' = [q \in Requests |-> NoRequest]
    /\ flight' = [c \in Certs |-> NoFlight]
    /\ UNCHANGED <<storeVars, agent, caVars>>

-----------------------------------------------------------------------------
(* The CA (external).                                                      *)

\* An officer takes a certificate off hold.
OfficerReleases(c) ==
    /\ ca[c] = "held"
    /\ ca' = [ca EXCEPT ![c] = "released"]
    /\ UNCHANGED <<storeVars, request, flight, agent, crl, last>>

\* What the CA may sign: a released certificate is absent or removeFromCRL.
CrlContents ==
    {s \in Crl :
        \A c \in Certs : /\ s[c] = "listed" <=> RevokedAtCa(c)
                         /\ s[c] = "removed" => ca[c] = "released"}

\* The scheduled publication; one without news is the same evidence again.
PublishCrl ==
    /\ last < MaxCrl
    /\ \E s \in CrlContents :
         /\ last > 0 => s # crl[last]
         /\ crl' = [crl EXCEPT ![last + 1] = s]
    /\ last' = last + 1
    /\ UNCHANGED <<storeVars, request, flight, agent, ca>>

-----------------------------------------------------------------------------
Next ==
    \/ \E c \in Certs :
         \/ RecordIssuance(c) \/ QuarantineCertificate(c) \/ RecordRevocation(c)
         \/ AgentRevokes(c) \/ AgentRevokeFails(c)
         \/ FlightReads(c) \/ FlightFails(c) \/ Deliver(c) \/ OfficerReleases(c)
    \/ \E c \in Certs, d \in Crls : FlightFetches(c, d)
    \/ \E q \in Requests : AgentPosts(q) \/ ConfirmDenies(q) \/ ConfirmCommits(q)
    \/ AgentPulls \/ AgentPostFails \/ PublishCrl \/ Restart

Spec == Init /\ [][Next]_vars

\* The scheduler runs the agent again and again, the CA publishes what has
\* changed, runs, retrievals and requests end, and a step that is attempted
\* again and again succeeds at times: certutil, the POST, the retrieval of the
\* newest CRL, the delivery of what it found, the transaction.
FairSpec ==
    /\ Spec
    /\ WF_vars(AgentPulls) /\ WF_vars(PublishCrl)
    /\ WF_vars(AgentPostFails \/ \E c \in Certs : AgentRevokeFails(c))
    /\ SF_vars(\E q \in Requests : AgentPosts(q))
    /\ \A c \in Certs :
         /\ SF_vars(AgentRevokes(c))
         /\ WF_vars(FlightFails(c) \/ Deliver(c))
         /\ SF_vars(FlightReads(c)) /\ SF_vars(FlightFetches(c, last))
         /\ SF_vars(Deliver(c) /\ flight[c].kind = "listed")
         /\ SF_vars(\E q \in Requests : ConfirmCommits(q) /\ request[q].cert = c)
    /\ \A q \in Requests : WF_vars(ConfirmDenies(q))

-----------------------------------------------------------------------------
\* Nothing comes off the pending list that the CA never revoked, however many
\* revocations, posts and confirmations fail, repeat or overlap, and even when
\* the RA has nothing but the agent's word for it.
ConfirmedWasRevoked ==
    \A c \in Certs : cert[c].confirmed => ca[c] \in {"revoked", "held", "released"}

\* The audit trail claims what was seen: a certificate is off the list exactly
\* when its confirmation is on record, "crl-verified" names a published CRL that
\* lists the serial as revoked, and a strict RA accepts nothing less.
TrailMatchesEvidence ==
    \A c \in Certs :
        /\ cert[c].confirmed <=> trail[c].kind # "none"
        /\ trail[c].kind = "crl-verified" =>
             trail[c].doc \in 1..last /\ crl[trail[c].doc][c] = "listed"
        /\ RequireEvidence => trail[c].kind # "agent-asserted"

\* The watermark is the newest CRL that any recorded confirmation acted on:
\* confirmations that overlap, lose their race or die never set it back, and
\* none is missing from it.
WatermarkIsNewestActedOn ==
    /\ \A c \in Certs : trail[c].doc <= watermark
    /\ watermark = 0 \/ \E c \in Certs : trail[c].doc = watermark

\* The first confirmation stands: neither a repeat nor a concurrent request
\* rewrites the record of what the RA acted on.
FirstConfirmationStands ==
    [][\A c \in Certs : cert[c].confirmed => trail'[c] = trail[c] /\ cert'[c].confirmed]_vars

\* The certificates a strict RA can find evidence for.
Confirmable(c) == c \notin Foreign /\ HasIssuerSource(c)

\* Every revocation is reconciled: whatever revocation, callback or retrieval
\* failed on the way, later runs of the agent complete it, so that again and
\* again no certificate is left pending that could be confirmed.  One that was
\* pending has then been confirmed: nothing else takes it off the list.
RevocationsDrain ==
    []<>(\A c \in Certs : Pending(c) => ~Confirmable(c))

=============================================================================
