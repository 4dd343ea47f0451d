---------------------------- MODULE PolicyRules -----------------------------
(***************************************************************************)
(* The deterministic rules of the gateway, as operators: the release of a  *)
(* certificate (certificates.py), the eligibility, quote and period of a   *)
(* coverage renewal (coverage.py), the price and the authority of a        *)
(* contract renewal (pricing.py).                                          *)
(*                                                                         *)
(* A source is a record of facts or Missing; an optional flag is "true",   *)
(* "false" or "unknown".  Times are numbers of one clock.  Money is in     *)
(* cents and a percentage in hundredths of a percent, the two decimal      *)
(* places the code admits; its 64 digits never overflow.                   *)
(***************************************************************************)
EXTENDS Integers

Missing == [facts |-> "missing"]

\* The stamp of a source, at a time.
Fresh(s, now) == s.observed <= now /\ now < s.until

During(s, now) == s.validFrom <= now /\ now < s.validUntil

\* The customer and the machine a question is about.
About(s, q) == s.customer = q.customer /\ s.equipment = q.equipment

-----------------------------------------------------------------------------
(* evaluate_certificate.                                                   *)

Freshness(s, now) ==
  CASE s = Missing     -> "missing_evidence"
    [] s # Missing /\ ~Fresh(s, now) -> "stale_evidence"
    [] OTHER           -> "passed"

\* The source is about the machine, under the serial number of its owner.
SameMachine(s, q, owner) == owner # Missing /\ About(s, q) /\ s.serial = owner.serial

OwnerReason(q, src, now) ==
  LET s == src.ownership IN
  IF Freshness(s, now) = "passed" /\ ~About(s, q) THEN "ownership_mismatch"
  ELSE Freshness(s, now)

CertificateReason(q, src, now) ==
  LET s == src.certificate IN
  IF Freshness(s, now) # "passed" THEN Freshness(s, now)
  ELSE IF s.accessible # "true" THEN "document_unavailable"
  ELSE IF ~SameMachine(s, q, src.ownership) THEN "document_mismatch"
  ELSE IF ~During(s, now) THEN "certificate_outside_validity"
  ELSE IF s.revoked # "false" THEN "revoked_or_unknown"
  ELSE "passed"

ServiceReason(q, src, now) ==
  LET s == src.service IN
  IF Freshness(s, now) # "passed" THEN Freshness(s, now)
  ELSE IF ~SameMachine(s, q, src.ownership) THEN "service_mismatch"
  ELSE IF s.inService # "true" \/ ~During(s, now) THEN "service_not_current"
  ELSE "passed"

Verdict(reason) ==
  IF reason = "passed" THEN "pass"
  ELSE IF reason \in {"missing_evidence", "stale_evidence"} THEN "unknown"
  ELSE "fail"

ReleaseReady(q, src, now) ==
  /\ Verdict(OwnerReason(q, src, now)) = "pass"
  /\ Verdict(CertificateReason(q, src, now)) = "pass"
  /\ Verdict(ServiceReason(q, src, now)) = "pass"

-----------------------------------------------------------------------------
(* evaluate_renewal_eligibility: nine checks, a verdict each.              *)

RenewalWindowDays == 60

\* What a check says of a source that is there and fresh.
OnFresh(s, now, verdict) == IF s # Missing /\ Fresh(s, now) THEN verdict ELSE "unknown"

PassIf(condition) == IF condition THEN "pass" ELSE "fail"

CheckOwnership(q, src, now) ==
  OnFresh(src.ownership, now, PassIf(About(src.ownership, q)))

CheckDocumentType(src, now) ==
  OnFresh(src.document, now, PassIf(src.document.type = "service_coverage_certificate"))

CheckDocumentIdentity(q, src) ==
  IF src.document = Missing \/ src.ownership = Missing THEN "unknown"
  ELSE PassIf(SameMachine(src.document, q, src.ownership))

CheckRegistryIntegrity(src) ==
  LET d == src.document IN
  IF d = Missing THEN "unknown"
  ELSE IF d.accessible # "true" \/ d.registered = Missing THEN "unknown"
  ELSE PassIf(d.content = d.registered)

CheckRenewalWindow(src, now) ==
  IF src.document = Missing THEN "unknown"
  ELSE PassIf(src.document.coverageUntil <= now + RenewalWindowDays)

CheckEquipment(q, src, now) ==
  OnFresh(src.equipment, now, PassIf(About(src.equipment, q) /\ src.equipment.status = "active"))

Stamps == {"ownership", "document", "equipment", "billing", "policy"}

CheckEvidenceQuality(src, now) ==
  IF \A n \in Stamps : src[n] # Missing /\ Fresh(src[n], now)
     THEN IF /\ src.ownership.serial = src.document.serial
             /\ src.document.serial = src.equipment.serial
          THEN "pass" ELSE "unknown"
  ELSE "unknown"

\* The policy and the pricing rule in force, with their versions.
CheckPolicyCurrency(src, now, inForce) ==
  OnFresh(src.policy, now, PassIf(src.policy.rules = inForce))

CheckBilling(src, now) == OnFresh(src.billing, now, PassIf(src.billing.complete))

Eligible(q, src, now, inForce) ==
  /\ CheckOwnership(q, src, now) = "pass"
  /\ CheckDocumentType(src, now) = "pass"
  /\ CheckDocumentIdentity(q, src) = "pass"
  /\ CheckRegistryIntegrity(src) = "pass"
  /\ CheckRenewalWindow(src, now) = "pass"
  /\ CheckEquipment(q, src, now) = "pass"
  /\ CheckEvidenceQuality(src, now) = "pass"
  /\ CheckPolicyCurrency(src, now, inForce) = "pass"
  /\ CheckBilling(src, now) = "pass"

\* Coverage that is not to be renewed yet: its certificate is returned.
CoverageIsCurrent(document, now) == document.coverageUntil > now + RenewalWindowDays

\* document_request_outcome: what the customer is offered before any evidence is
\* investigated.  Staleness and the machine of the sources are not looked at.
DocumentRequestOutcome(q, src, now) ==
  IF \/ src.document = Missing \/ src.ownership = Missing
     \/ src.ownership.customer # q.customer
     \/ src.document.customer # q.customer
     \/ src.document.type # "service_coverage_certificate"
  THEN "unavailable"
  ELSE IF CoverageIsCurrent(src.document, now) THEN "existing_pdf" ELSE "renewal_required"

-----------------------------------------------------------------------------
(* Money.                                                                  *)

\* n / d rounded half up.
HalfUp(n, d) == (2 * n + d) \div (2 * d)

MaxDiscount == 10000
AccountManagerLimit == 800
VatRate == 2400

\* calculate_pricing.
Net(annual, discount) == HalfUp(annual * (MaxDiscount - discount), MaxDiscount)
DiscountAmount(annual, discount) == annual - Net(annual, discount)

RequiredRole(discount) ==
  IF discount <= AccountManagerLimit THEN "account_manager" ELSE "operations_manager"

\* check_authority; "none" stands for an actor without a mapped role.
Authority(discount, role) ==
  IF role \notin {"account_manager", "operations_manager"} THEN "unauthorized"
  ELSE IF discount > AccountManagerLimit THEN "escalation_required"
  ELSE IF role = "account_manager" THEN "authorized"
  ELSE "unauthorized"

\* calculate_renewal_quote.
Vat(base)   == HalfUp(base * VatRate, 10000)
Total(base) == base + Vat(base)

-----------------------------------------------------------------------------
(* coverage_period.                                                        *)

IsLeap(y) == y % 4 = 0 /\ (y % 100 # 0 \/ y % 400 = 0)

DaysIn(y, m) ==
  IF m = 2 THEN IF IsLeap(y) THEN 29 ELSE 28
  ELSE IF m \in {4, 6, 9, 11} THEN 30
  ELSE 31

IsDate(t) == t.month \in 1..12 /\ t.year \in Nat /\ t.day \in 1..DaysIn(t.year, t.month)

Before(s, t) ==
  \/ s.year < t.year
  \/ s.year = t.year /\ s.month < t.month
  \/ s.year = t.year /\ s.month = t.month /\ s.day < t.day

\* The months are added; a day the month does not have becomes its last one.
CoverageEnd(start, months) ==
  LET index == start.month - 1 + months
      year  == start.year + index \div 12
      month == (index % 12) + 1
      last  == DaysIn(year, month)
  IN [year |-> year, month |-> month, day |-> IF start.day <= last THEN start.day ELSE last]

=============================================================================
