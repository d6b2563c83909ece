-------------------------- MODULE CertsrvLegProofs --------------------------
(* submit_csr keeps its contract.  What is known of the CA travels with    *)
(* the call: a page that is being read was produced by what the CA did,    *)
(* what it was parsed to is an answer the contract allows, and every       *)
(* exchange after the first stands on an issued request, every one after   *)
(* the second on the leaf.  The deadline can cut the call anywhere,        *)
(* because the invariant says what is known at every point.                *)
EXTENDS CertsrvLeg, TLAPS

\* A page being read shows what the CA did.
PageIsTheCAs ==
    (pc = "reading" /\ call = 1) => page \in Pages(caDid)

\* What the page was parsed to; "unknown" tells nothing.
ParsedIsAllowed ==
    (pc = "parsed" \/ call # 1) =>
        parsed = "unknown" \/ (parsed \in LegAnswer(caDid) /\ (parsed = "issued" <=> caDid = "issued"))

\* How far the call is, and the evidence it holds.
Progress ==
    /\ pc # "done" => (issued <=> call # 1) /\ (leaf <=> call \in {3, 4})
    /\ issued => caDid = "issued"
    /\ leaf => issued
    /\ call # 1 => issued /\ parsed = "issued"
    /\ call \in {3, 4} => leaf

\* Only a call that has ended has an outcome, and then it is within the
\* contract and carries the evidence.
OutcomeIsKept ==
    /\ pc # "done" => outcome.kind = "none"
    /\ KeepsContract
    /\ EvidenceFollowsProgress

LegInv == TypeOK /\ PageIsTheCAs /\ ParsedIsAllowed /\ Progress /\ OutcomeIsKept

\* A page of the CA parses to an answer the contract allows: a pending page
\* never to a denial, an issued one to nothing else.
LEMMA ParsedPage ==
    ASSUME NEW did \in Disposition, locale \in {"en", "other"}, NEW p \in Pages(did)
    PROVE  LET d == ParseDisposition(p, locale)
           IN \/ d = "unknown"
              \/ d \in LegAnswer(did) /\ (d = "issued" <=> did = "issued")
<1>1. /\ p.link \in BOOLEAN /\ p.denial \in BOOLEAN /\ p.reqid \in BOOLEAN
      /\ p.chrome \in BOOLEAN /\ p.quoted \in BOOLEAN
  BY DEF Pages, Signals
<1>2. CASE did = "issued"
  <2>1. p.link
    BY <1>2 DEF Pages
  <2>2. QED
    BY <1>2, <2>1 DEF ParseDisposition, LegAnswer
<1>3. CASE did = "pending"
  <2>1. ~p.link /\ ~p.denial /\ (p.reqid \/ p.chrome) /\ (p.chrome => locale = "en")
    BY <1>1, <1>3 DEF Pages
  <2>2. ParseDisposition(p, locale) = "pending"
    BY <2>1 DEF ParseDisposition
  <2>3. QED
    BY <1>3, <2>2 DEF LegAnswer
<1>4. CASE did = "denied"
  <2>1. ~p.link
    BY <1>1, <1>4 DEF Pages
  <2>2. ParseDisposition(p, locale) \in {"denied", "pending", "unknown"}
    BY <2>1 DEF ParseDisposition
  <2>3. QED
    BY <1>4, <2>2 DEF LegAnswer
<1>5. CASE did = "none"
  <2>1. ~p.link /\ ~p.denial /\ ~p.reqid /\ ~p.quoted /\ ~p.chrome
    BY <1>1, <1>5 DEF Pages
  <2>2. ParseDisposition(p, locale) = "unknown"
    BY <2>1 DEF ParseDisposition
  <2>3. QED
    BY <2>2
<1>6. QED
  BY <1>2, <1>3, <1>4, <1>5 DEF Disposition

\* An exception carries out exactly the evidence the call holds, wherever it
\* is raised.
LEMMA RaiseKeeps ==
    ASSUME LegInv, pc # "done", NEW did \in Disposition,
           caDid' = did, did = caDid \/ (call = 1 /\ pc = "request"),
           End(Ended("transport", issued, leaf)),
           UNCHANGED <<locale, page, call, parsed, issued, leaf, late, timedOut>>
    PROVE  LegInv'
<1>1. /\ outcome' = [kind |-> "transport", req |-> issued, cert |-> leaf] /\ pc' = "done"
      /\ issued \in BOOLEAN /\ leaf \in BOOLEAN
  BY DEF LegInv, TypeOK, End, Ended
<1>2. TypeOK'
  BY <1>1 DEF LegInv, TypeOK, Outcome
<1>3. PageIsTheCAs'
  BY <1>1 DEF PageIsTheCAs
<1>4. (issued <=> call # 1) /\ (leaf <=> call \in {3, 4})
  BY DEF LegInv, Progress
<1>5. Progress'
  BY <1>1, <1>4 DEF LegInv, Progress
<1>6. ParsedIsAllowed'
  BY <1>1 DEF LegInv, ParsedIsAllowed
<1>7. AnswerOf(outcome)' = IF ~issued THEN "lost" ELSE IF leaf THEN "orphan" ELSE "leafless"
  BY <1>1 DEF AnswerOf
<1>8. KeepsContract'
  BY <1>5, <1>7, <1>1 DEF KeepsContract, LegAnswer, Progress
<1>9. EvidenceFollowsProgress'
  BY <1>1, <1>4 DEF EvidenceFollowsProgress, LegInv, TypeOK, Calls
<1>10. QED
  BY <1>1, <1>2, <1>3, <1>5, <1>6, <1>8, <1>9 DEF LegInv, OutcomeIsKept

\* A completed exchange: on to the next one, or the end its disposition says.
LEMMA ExchangeKeeps ==
    ASSUME LegInv, ExchangeDone
    PROVE  LegInv'
<1>1. /\ pc = "parsed" /\ issued' = KeepsReqId /\ leaf' = (leaf \/ call = 2)
      /\ UNCHANGED <<locale, caDid, page, parsed, late, timedOut>>
      /\ call \in 1..4 /\ issued \in BOOLEAN /\ leaf \in BOOLEAN
  BY DEF LegInv, TypeOK, ExchangeDone, Calls
<1>2. /\ (issued <=> call # 1) /\ (leaf <=> call \in {3, 4})
      /\ call # 1 => parsed = "issued"
      /\ parsed = "issued" => caDid = "issued"
  BY <1>1 DEF LegInv, Progress, ParsedIsAllowed
<1>3. issued' \in BOOLEAN /\ leaf' \in BOOLEAN /\ (issued' <=> parsed = "issued")
  BY <1>1, <1>2 DEF KeepsReqId
<1>4. CASE MoreToFetch /\ call' = call + 1 /\ pc' = "request" /\ UNCHANGED outcome
  <2>1. call \in {1, 2, 3} /\ parsed = "issued" /\ call' \in {2, 3, 4} /\ (leaf' <=> call' \in {3, 4})
    BY <1>1, <1>2, <1>4 DEF MoreToFetch
  <2>2. TypeOK'
    BY <1>1, <1>3, <1>4, <2>1 DEF LegInv, TypeOK, Calls
  <2>3. Progress' /\ PageIsTheCAs' /\ ParsedIsAllowed'
    BY <1>1, <1>2, <1>3, <1>4, <2>1 DEF LegInv, Progress, PageIsTheCAs, ParsedIsAllowed
  <2>4. OutcomeIsKept'
    BY <1>1, <1>4 DEF LegInv, OutcomeIsKept, KeepsContract, EvidenceFollowsProgress
  <2>5. QED
    BY <2>2, <2>3, <2>4 DEF LegInv
<1>5. CASE /\ call = 1 /\ parsed # "issued"
           /\ End(CASE parsed = "pending" -> Ended("pending", TRUE, FALSE)
                    [] parsed = "denied"  -> Ended("denied", FALSE, FALSE)
                    [] OTHER              -> Ended("transport", FALSE, FALSE))
           /\ UNCHANGED call
  <2>1. PICK k \in {"pending", "denied", "transport"}, r \in BOOLEAN :
            /\ outcome' = [kind |-> k, req |-> r, cert |-> FALSE]
            /\ k = "transport" => ~r
            /\ k # "transport" => parsed = k
    BY <1>5 DEF End, Ended
  <2>2. pc' = "done" /\ ~issued' /\ ~leaf' /\ call' = 1
    BY <1>2, <1>3, <1>5, <1>1 DEF End
  <2>3. TypeOK'
    BY <1>1, <1>3, <2>1, <2>2 DEF LegInv, TypeOK, Outcome, Calls
  <2>4. Progress' /\ PageIsTheCAs' /\ ParsedIsAllowed'
    BY <2>2 DEF Progress, PageIsTheCAs, ParsedIsAllowed
  <2>5. AnswerOf(outcome)' = IF k = "transport" THEN "lost" ELSE k
    BY <2>1 DEF AnswerOf
  <2>6. KeepsContract'
    BY <1>1, <2>1, <2>5 DEF KeepsContract, LegInv, ParsedIsAllowed
  <2>7. EvidenceFollowsProgress'
    BY <2>2 DEF EvidenceFollowsProgress
  <2>8. QED
    BY <2>2, <2>3, <2>4, <2>6, <2>7 DEF LegInv, OutcomeIsKept
<1>6. CASE call = 4 /\ End(Ended("result", TRUE, TRUE)) /\ UNCHANGED call
  <2>1. /\ outcome' = [kind |-> "result", req |-> TRUE, cert |-> TRUE] /\ pc' = "done"
        /\ issued' /\ leaf' /\ call' = 4 /\ parsed = "issued" /\ caDid = "issued"
    <3>1. outcome' = [kind |-> "result", req |-> TRUE, cert |-> TRUE] /\ pc' = "done" /\ call' = 4
      BY <1>6 DEF End, Ended
    <3>2. call # 1 /\ call \in {3, 4}
      BY <1>6
    <3>3. parsed = "issued" /\ caDid = "issued" /\ leaf
      BY <1>2, <3>2
    <3>4. issued' /\ leaf'
      BY <1>1, <1>3, <3>3
    <3>5. QED
      BY <3>1, <3>3, <3>4
  <2>2. TypeOK'
    BY <1>1, <1>3, <2>1 DEF LegInv, TypeOK, Outcome, Calls
  <2>3. Progress' /\ PageIsTheCAs' /\ ParsedIsAllowed'
    BY <1>1, <2>1 DEF Progress, PageIsTheCAs, ParsedIsAllowed, LegAnswer
  <2>4. AnswerOf(outcome)' = "issued"
    BY <2>1 DEF AnswerOf
  <2>5. KeepsContract' /\ EvidenceFollowsProgress'
    BY <1>1, <2>1, <2>4 DEF KeepsContract, EvidenceFollowsProgress, LegAnswer
  <2>6. QED
    BY <2>1, <2>2, <2>3, <2>5 DEF LegInv, OutcomeIsKept
<1>7. QED
  BY <1>4, <1>5, <1>6 DEF ExchangeDone

\* Every step of the call, and of the clock and the watchdog beside it.
LEMMA LegInvNext ==
    ASSUME LegInv, [Next]_vars
    PROVE  LegInv'
<1> USE DEF LegInv
<1>1. CASE RequestRaises \/ ReadRaises \/ ReadExpires \/ ParsedExpires
  <2>1. /\ pc # "done" /\ caDid' = caDid /\ caDid \in Disposition
        /\ End(Ended("transport", issued, leaf))
        /\ UNCHANGED <<locale, page, call, parsed, issued, leaf, late, timedOut>>
    BY <1>1 DEF RequestRaises, ReadRaises, ReadExpires, ParsedExpires, Raise, TypeOK
  <2>2. QED
    BY <2>1, RaiseKeeps
<1>2. CASE ResponseLost
  <2>1. /\ pc = "request" /\ call = 1 /\ caDid' \in Disposition
        /\ End(Ended("transport", issued, leaf))
        /\ UNCHANGED <<locale, page, call, parsed, issued, leaf, late, timedOut>>
    BY <1>2 DEF ResponseLost
  <2>2. QED
    BY <2>1, RaiseKeeps
<1>3. CASE RequestReturns
  <2>1. /\ pc = "request" /\ pc' = "reading"
        /\ UNCHANGED <<locale, call, parsed, issued, leaf, late, timedOut, outcome>>
        /\ call = 1 => caDid' \in Disposition /\ page' \in Pages(caDid')
        /\ call # 1 => UNCHANGED <<caDid, page>>
    BY <1>3 DEF RequestReturns
  <2>2. page' \in Signals /\ caDid' \in Disposition
    BY <2>1 DEF Pages, TypeOK
  <2>3. TypeOK'
    BY <2>1, <2>2 DEF TypeOK
  <2>4. PageIsTheCAs'
    BY <2>1 DEF PageIsTheCAs, Pages
  <2>5. ParsedIsAllowed' /\ Progress'
    BY <2>1 DEF ParsedIsAllowed, Progress
  <2>6. OutcomeIsKept'
    BY <2>1 DEF OutcomeIsKept, KeepsContract, EvidenceFollowsProgress
  <2>7. QED
    BY <2>3, <2>4, <2>5, <2>6
<1>4. CASE ReadBody
  <2>1. /\ pc = "reading" /\ pc' = "parsed" /\ page' = BlankPage
        /\ parsed' = IF call = 1 THEN ParseDisposition(page, locale) ELSE parsed
        /\ UNCHANGED <<locale, caDid, call, issued, leaf, late, timedOut, outcome>>
    BY <1>4 DEF ReadBody
  <2>2. parsed' \in Disposition \cup {"unknown"}
    BY <2>1 DEF ParseDisposition, TypeOK, Disposition
  <2>3. TypeOK'
    BY <2>1, <2>2 DEF TypeOK, BlankPage, Signals
  <2>4. ParsedIsAllowed'
    <3>1. CASE call = 1
      <4>1. page \in Pages(caDid) /\ caDid \in Disposition /\ locale \in {"en", "other"}
        BY <2>1, <3>1 DEF PageIsTheCAs, TypeOK
      <4>2. \/ parsed' = "unknown"
            \/ parsed' \in LegAnswer(caDid) /\ (parsed' = "issued" <=> caDid = "issued")
        BY <2>1, <3>1, <4>1, ParsedPage
      <4>3. QED
        BY <2>1, <4>2 DEF ParsedIsAllowed
    <3>2. CASE call # 1
      BY <2>1, <3>2 DEF ParsedIsAllowed
    <3>3. QED
      BY <3>1, <3>2
  <2>5. PageIsTheCAs' /\ Progress'
    BY <2>1 DEF PageIsTheCAs, Progress
  <2>6. OutcomeIsKept'
    BY <2>1 DEF OutcomeIsKept, KeepsContract, EvidenceFollowsProgress
  <2>7. QED
    BY <2>3, <2>4, <2>5, <2>6
<1>5. CASE ExchangeDone
  BY <1>5, ExchangeKeeps
<1>6. CASE DeadlinePasses \/ WatchdogFires \/ UNCHANGED vars
  <2>1. /\ UNCHANGED <<locale, caDid, page, pc, call, parsed, issued, leaf, outcome>>
        /\ {late', timedOut'} \subseteq BOOLEAN
    BY <1>6 DEF DeadlinePasses, WatchdogFires, vars, TypeOK
  <2>2. TypeOK'
    BY <2>1 DEF TypeOK
  <2>3. PageIsTheCAs' /\ ParsedIsAllowed' /\ Progress'
    BY <2>1 DEF PageIsTheCAs, Pages, ParsedIsAllowed, Progress
  <2>4. OutcomeIsKept'
    BY <2>1 DEF OutcomeIsKept, KeepsContract, EvidenceFollowsProgress
  <2>5. QED
    BY <2>2, <2>3, <2>4
<1>7. QED
  BY <1>1, <1>2, <1>3, <1>4, <1>5, <1>6 DEF Next

\* The invariant holds throughout the call.
LEMMA LegInvariant == Spec => []LegInv
<1>1. ASSUME Init PROVE LegInv
  <2>1. TypeOK
    <3>1. page \in Signals /\ outcome \in Outcome
      BY <1>1 DEF Init, BlankPage, Signals, Outcome, Ended
    <3>2. {issued, leaf, late, timedOut} \subseteq BOOLEAN
      BY <1>1 DEF Init
    <3>3. /\ locale \in {"en", "other"} /\ caDid \in Disposition
          /\ pc \in {"request", "reading", "parsed", "done"}
          /\ call \in Calls /\ parsed \in Disposition \cup {"unknown"}
      BY <1>1 DEF Init, Disposition, Calls
    <3>4. QED
      BY <3>1, <3>2, <3>3 DEF TypeOK
  <2>2. PageIsTheCAs /\ ParsedIsAllowed /\ Progress
    BY <1>1 DEF Init, PageIsTheCAs, ParsedIsAllowed, Progress
  <2>3. OutcomeIsKept
    BY <1>1 DEF Init, Ended, OutcomeIsKept, KeepsContract, EvidenceFollowsProgress
  <2>4. QED
    BY <2>1, <2>2, <2>3 DEF LegInv
<1>2. QED
  BY <1>1, LegInvNext, PTL DEF Spec

\* The variables of submit_csr keep their types.
THEOREM LegTypes == Spec => []TypeOK
<1>1. LegInv => TypeOK
  BY DEF LegInv
<1>2. QED
  BY <1>1, LegInvariant, PTL

\* However the CA's pages are worded and wherever the deadline falls, what
\* submit_csr reports is an answer finalize may act on: what the CA issued or
\* holds is never reported denied.
THEOREM LegKeepsItsContract == Spec => []KeepsContract
<1>1. LegInv => KeepsContract
  BY DEF LegInv, OutcomeIsKept
<1>2. QED
  BY <1>1, LegInvariant, PTL

\* A call that fails after exchange 1 reports the ReqID, and after exchange 2
\* the certificate: what the CA issued can be quarantined.
THEOREM FailuresCarryTheEvidence == Spec => []EvidenceFollowsProgress
<1>1. LegInv => EvidenceFollowsProgress
  BY DEF LegInv, OutcomeIsKept
<1>2. QED
  BY <1>1, LegInvariant, PTL

=============================================================================
