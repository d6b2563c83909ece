----------------------------- MODULE CertsrvLeg -----------------------------
(***************************************************************************)
(* One call of CertsrvEnrollmentLeg.submit_csr: four HTTP exchanges with   *)
(* /certsrv/ (1 certfnsh.asp, 2 certnew.cer, 3 certcarc.asp, 4             *)
(* certnew.p7b) under a total deadline that both the clock and a watchdog  *)
(* thread can declare over.  The CA decides the request when it receives   *)
(* exchange 1; its page is abstracted to the signals the parser looks for. *)
(***************************************************************************)
EXTENDS Naturals, LegContract

VARIABLES
    locale,     \* configured language of the CA's pages
    caDid,      \* what the CA decided (external)
    page,       \* the certfnsh.asp page, while it is being read
    pc,
    call,       \* the exchange under way
    parsed,     \* disposition the page was parsed to
    issued,     \* issued_req_id is set
    leaf,       \* issued_cert_pem is set
    late,       \* time.monotonic() has passed the deadline
    timedOut,   \* the watchdog's event
    outcome     \* how submit_csr ended

vars == <<locale, caDid, page, pc, call, parsed, issued, leaf, late, timedOut, outcome>>

Calls == 1..4

\* certnew.cer?ReqID=<n>&, the English denial markers, ReqID=<n>, the English
\* pending texts, and a quoted message after a word.
Signals == [link : BOOLEAN, denial : BOOLEAN, reqid : BOOLEAN,
            chrome : BOOLEAN, quoted : BOOLEAN]
BlankPage == [link |-> FALSE, denial |-> FALSE, reqid |-> FALSE,
              chrome |-> FALSE, quoted |-> FALSE]

Outcome == [kind : {"none", "result", "denied", "pending", "transport"},
            req : BOOLEAN, cert : BOOLEAN]
Ended(kind, req, cert) == [kind |-> kind, req |-> req, cert |-> cert]

TypeOK ==
    /\ locale \in {"en", "other"}
    /\ caDid \in Disposition
    /\ page \in Signals
    /\ pc \in {"request", "reading", "parsed", "done"}
    /\ call \in Calls
    /\ parsed \in Disposition \cup {"unknown"}
    /\ {issued, leaf, late, timedOut} \subseteq BOOLEAN
    /\ outcome \in Outcome

Init ==
    /\ locale \in {"en", "other"}
    /\ caDid = "none" /\ page = BlankPage
    /\ pc = "request" /\ call = 1 /\ parsed = "none"
    /\ issued = FALSE /\ leaf = FALSE
    /\ late = FALSE /\ timedOut = FALSE
    /\ outcome = Ended("none", FALSE, FALSE)

\* The pages ADCS answers with (external).  A pending page in a language other
\* than English shows its ReqID; a page that decides nothing shows no signal.
Pages(did) ==
    {p \in Signals :
        /\ p.link <=> did = "issued"
        /\ p.link => p.reqid
        /\ p.denial <=> did = "denied" /\ locale = "en"
        /\ p.chrome => did = "pending" /\ locale = "en"
        /\ did = "pending" => p.reqid \/ p.chrome
        /\ did = "denied" => p.quoted
        /\ did = "none" => ~p.reqid /\ ~p.quoted}

\* Fault: the loose quoted-message heuristic runs before the pending signals.
ParseQuotedFirst(p, loc) ==
    IF p.link THEN "issued"
    ELSE IF p.quoted \/ p.denial THEN "denied"
    ELSE IF p.reqid \/ p.chrome THEN "pending"
    ELSE "unknown"

\* _parse_certfnsh_disposition: the signals in order of priority.
ParseDisposition(p, loc) ==
    IF p.link THEN "issued"
    ELSE IF loc = "en" /\ p.denial THEN "denied"
    ELSE IF p.reqid \/ (loc = "en" /\ p.chrome) THEN "pending"
    ELSE IF loc # "en" /\ p.quoted THEN "denied"
    ELSE "unknown"

-----------------------------------------------------------------------------
End(result) ==
    /\ outcome' = result
    /\ pc' = "done"

\* An exception leaves the try block as an EnrollmentTransportError that
\* carries whatever the CA is known to have issued.
Raise ==
    /\ End(Ended("transport", issued, leaf))
    /\ UNCHANGED <<locale, caDid, page, call, parsed, issued, leaf, late, timedOut>>

Expired == late \/ timedOut

\* The deadline is over before the exchange, the connection fails before the
\* request is out, or (exchange 3) the leaf just fetched does not bind to
\* the CSR.
RequestRaises ==
    /\ pc = "request"
    /\ Raise

\* The CA has the request and the response is lost.
ResponseLost ==
    /\ pc = "request" /\ call = 1 /\ ~Expired
    /\ caDid' \in Disposition \ {"none"}
    /\ End(Ended("transport", issued, leaf))
    /\ UNCHANGED <<locale, page, call, parsed, issued, leaf, late, timedOut>>

RequestReturns ==
    /\ pc = "request" /\ ~Expired
    /\ IF call = 1
         THEN /\ caDid' \in Disposition
              /\ page' \in Pages(caDid')
         ELSE UNCHANGED <<caDid, page>>
    /\ pc' = "reading"
    /\ UNCHANGED <<locale, call, parsed, issued, leaf, late, timedOut, outcome>>

\* A redirect, an error status, an oversized body, or one that does not parse;
\* for exchange 4, a chain that does not issue the leaf.
ReadRaises ==
    /\ pc = "reading"
    /\ Raise

\* Fault: the chunk loop looks at the watchdog's event and, having read it,
\* goes on.
ReadIgnoresDeadline ==
    /\ pc = "reading" /\ Expired
    /\ UNCHANGED vars

\* The chunk loop looks at the event and at the clock before every read.
ReadExpires ==
    /\ pc = "reading" /\ Expired
    /\ Raise

\* The whole body arrived in time and parses.
ReadBody ==
    /\ pc = "reading" /\ ~Expired
    /\ parsed' = IF call = 1 THEN ParseDisposition(page, locale) ELSE parsed
    /\ page' = BlankPage
    /\ pc' = "parsed"
    /\ UNCHANGED <<locale, caDid, call, issued, leaf, late, timedOut, outcome>>

\* The deadline is looked at once more after the body has been parsed.
ParsedExpires ==
    /\ pc = "parsed" /\ Expired
    /\ Raise

\* Fault: the ReqID is kept only once the certificate has been fetched.
KeepsReqIdLate == issued \/ call = 2

\* issued_req_id is set before the first call that can fail.
KeepsReqId == issued \/ parsed = "issued"

\* Fault: the flow fetches one exchange too many.
FetchesBeyondChain == (call = 1 /\ parsed = "issued") \/ call \in 2..4

\* The leaf, the renewal index and the chain follow an issued disposition.
MoreToFetch == (call = 1 /\ parsed = "issued") \/ call \in {2, 3}

\* The exchange is complete and in time: go on to the next one, raise what
\* the disposition says, or return the result.
ExchangeDone ==
    /\ pc = "parsed" /\ ~Expired
    /\ \/ /\ MoreToFetch
          /\ call' = call + 1
          /\ pc' = "request"
          /\ UNCHANGED outcome
       \/ /\ call = 1 /\ parsed # "issued"
          /\ End(CASE parsed = "pending" -> Ended("pending", TRUE, FALSE)
                   [] parsed = "denied"  -> Ended("denied", FALSE, FALSE)
                   [] OTHER              -> Ended("transport", FALSE, FALSE))
          /\ UNCHANGED call
       \/ /\ call = 4
          /\ End(Ended("result", TRUE, TRUE))
          /\ UNCHANGED call
    /\ issued' = KeepsReqId
    /\ leaf' = (leaf \/ call = 2)
    /\ UNCHANGED <<locale, caDid, page, parsed, late, timedOut>>

\* The clock and the watchdog timer, which need not agree to the instant.
DeadlinePasses ==
    /\ pc # "done" /\ ~late
    /\ late' = TRUE
    /\ UNCHANGED <<locale, caDid, page, pc, call, parsed, issued, leaf, timedOut, outcome>>

WatchdogFires ==
    /\ pc # "done" /\ ~timedOut
    /\ timedOut' = TRUE
    /\ UNCHANGED <<locale, caDid, page, pc, call, parsed, issued, leaf, late, outcome>>

Next ==
    \/ RequestRaises \/ ResponseLost \/ RequestReturns
    \/ ReadRaises \/ ReadExpires \/ ReadBody
    \/ ParsedExpires \/ ExchangeDone
    \/ DeadlinePasses \/ WatchdogFires

Spec == Init /\ [][Next]_vars

\* A body may trickle in for ever: no fairness is assumed of ReadBody and
\* ReadRaises.  A request returns or raises (socket timeouts), the watchdog
\* timer fires, and the thread takes the steps that need nobody else.
FairSpec ==
    /\ Spec
    /\ WF_vars(RequestRaises \/ RequestReturns)
    /\ WF_vars(ReadExpires)
    /\ WF_vars(ParsedExpires \/ ExchangeDone)
    /\ WF_vars(WatchdogFires)

-----------------------------------------------------------------------------
\* What the finalize path makes of the outcome ("lost": no ReqID).
AnswerOf(out) ==
    CASE out.kind = "result"    -> "issued"
      [] out.kind = "transport" -> IF ~out.req THEN "lost"
                                   ELSE IF out.cert THEN "orphan" ELSE "leafless"
      [] OTHER                  -> out.kind

\* submit_csr keeps the contract the enrollment model relies on, whatever the
\* CA's pages say in either language and wherever the deadline falls: in
\* particular no pending or issued request is ever reported denied, which
\* would reopen its order.
KeepsContract ==
    pc = "done" => AnswerOf(outcome) \in LegAnswer(caDid) \cup {"lost"}

\* Evidence follows progress: a call that fails after exchange 1 carries the
\* ReqID out, and after exchange 2 the certificate too.
EvidenceFollowsProgress ==
    outcome.kind = "transport" =>
        /\ call >= 2 => outcome.req
        /\ call >= 3 => outcome.cert

\* The call ends even if a body never does: the executor thread, the account
\* lock and the registry mark are all held until it returns.
LegEnds == <>(pc = "done")

=============================================================================
