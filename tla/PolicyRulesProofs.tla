-------------------------- MODULE PolicyRulesProofs -------------------------
(***************************************************************************)
(* What the rules of PolicyRules guarantee for all sources, times and      *)
(* amounts.                                                                *)
(***************************************************************************)
EXTENDS PolicyRules, TLAPS

-----------------------------------------------------------------------------
(* Release of a certificate.                                               *)

Timed(s) == /\ s.observed \in Int /\ s.until \in Int
Valid(s) == /\ s.validFrom \in Int /\ s.validUntil \in Int

\* The facts a release rests on, as a reader of the policy would list them.
Releasable(q, src, now) ==
  LET o == src.ownership  c == src.certificate  s == src.service IN
  /\ o # Missing /\ c # Missing /\ s # Missing
  /\ Fresh(o, now) /\ Fresh(c, now) /\ Fresh(s, now)
  /\ About(o, q) /\ About(c, q) /\ About(s, q)
  /\ c.serial = o.serial /\ s.serial = o.serial
  /\ c.accessible = "true" /\ c.revoked = "false" /\ s.inService = "true"
  /\ During(c, now) /\ During(s, now)

LEMMA FreshnessPasses ==
  ASSUME NEW s, NEW now
  PROVE  Freshness(s, now) = "passed" <=> s # Missing /\ Fresh(s, now)
<1>1. CASE s = Missing
  BY <1>1 DEF Freshness
<1>2. CASE s # Missing /\ ~Fresh(s, now)
  BY <1>2 DEF Freshness
<1>3. CASE s # Missing /\ Fresh(s, now)
  BY <1>3 DEF Freshness
<1>. QED BY <1>1, <1>2, <1>3

\* The release decision of evaluate_certificate, with its order of checks and
\* its early reasons, is exactly the conjunction of the facts of the policy: no
\* combination of missing, stale, mismatched or unknown sources passes.
THEOREM ReleaseIffReleasable ==
  ASSUME NEW q, NEW src, NEW now
  PROVE  ReleaseReady(q, src, now) <=> Releasable(q, src, now)
<1>1. OwnerReason(q, src, now) = "passed"
        <=> src.ownership # Missing /\ Fresh(src.ownership, now) /\ About(src.ownership, q)
  BY FreshnessPasses DEF OwnerReason
<1>2. CertificateReason(q, src, now) = "passed"
        <=> /\ src.certificate # Missing /\ Fresh(src.certificate, now)
            /\ src.certificate.accessible = "true"
            /\ SameMachine(src.certificate, q, src.ownership)
            /\ During(src.certificate, now)
            /\ src.certificate.revoked = "false"
  BY FreshnessPasses DEF CertificateReason
<1>3. ServiceReason(q, src, now) = "passed"
        <=> /\ src.service # Missing /\ Fresh(src.service, now)
            /\ SameMachine(src.service, q, src.ownership)
            /\ src.service.inService = "true" /\ During(src.service, now)
  BY FreshnessPasses DEF ServiceReason
<1>4. \A reason : Verdict(reason) = "pass" <=> reason = "passed"
  BY DEF Verdict
<1>5. ReleaseReady(q, src, now)
        <=> /\ OwnerReason(q, src, now) = "passed"
            /\ CertificateReason(q, src, now) = "passed"
            /\ ServiceReason(q, src, now) = "passed"
  BY <1>4 DEF ReleaseReady
<1>. QED BY <1>1, <1>2, <1>3, <1>5 DEF Releasable, SameMachine

\* A release holds over one period: if the same sources pass when download first
\* looks and pass when it looks again, nothing lapsed in between.
THEOREM OneReleasePeriod ==
  ASSUME NEW q, NEW src, NEW first \in Int, NEW now \in Int, NEW second \in Int,
         Timed(src.ownership), Timed(src.certificate), Timed(src.service),
         Valid(src.certificate), Valid(src.service),
         first <= now, now <= second,
         ReleaseReady(q, src, first), ReleaseReady(q, src, second)
  PROVE  ReleaseReady(q, src, now)
<1>1. Releasable(q, src, first) /\ Releasable(q, src, second)
  BY ReleaseIffReleasable
<1>2. /\ Fresh(src.ownership, now) /\ Fresh(src.certificate, now) /\ Fresh(src.service, now)
  BY <1>1 DEF Releasable, Fresh, Timed
<1>3. During(src.certificate, now) /\ During(src.service, now)
  BY <1>1 DEF Releasable, During, Valid
<1>4. Releasable(q, src, now)
  BY <1>1, <1>2, <1>3 DEF Releasable
<1>. QED BY <1>4, ReleaseIffReleasable

-----------------------------------------------------------------------------
(* Eligibility for a coverage renewal.                                     *)

LEMMA OnFreshPasses ==
  ASSUME NEW s, NEW now, NEW condition \in BOOLEAN
  PROVE  OnFresh(s, now, PassIf(condition)) = "pass"
           <=> s # Missing /\ Fresh(s, now) /\ condition
BY DEF OnFresh, PassIf

\* The facts an eligible renewal rests on, whichever of the nine checks says so.
\* The customer of the billing profile is not among them: no check compares it.
Renewable(q, src, now, inForce) ==
  LET o == src.ownership  d == src.document  e == src.equipment IN
  /\ \A n \in Stamps : src[n] # Missing /\ Fresh(src[n], now)
  /\ About(o, q) /\ About(d, q) /\ About(e, q)
  /\ d.serial = o.serial /\ e.serial = o.serial
  /\ d.type = "service_coverage_certificate"
  /\ d.accessible = "true" /\ d.registered # Missing /\ d.content = d.registered
  /\ d.coverageUntil <= now + RenewalWindowDays
  /\ e.status = "active"
  /\ src.policy.rules = inForce
  /\ src.billing.complete

\* The nine ordered checks of evaluate_renewal_eligibility together are the
\* conjunction of the facts of the policy, each source present and fresh even
\* where the check that reads it does not look.
THEOREM EligibleIffRenewable ==
  ASSUME NEW q, NEW src, NEW now, NEW inForce,
         src.billing.complete \in BOOLEAN
  PROVE  Eligible(q, src, now, inForce) <=> Renewable(q, src, now, inForce)
<1>1. CheckEvidenceQuality(src, now) = "pass"
        <=> /\ \A n \in Stamps : src[n] # Missing /\ Fresh(src[n], now)
            /\ src.ownership.serial = src.document.serial
            /\ src.document.serial = src.equipment.serial
  BY DEF CheckEvidenceQuality
<1>2. CheckOwnership(q, src, now) = "pass"
        <=> src.ownership # Missing /\ Fresh(src.ownership, now) /\ About(src.ownership, q)
  BY OnFreshPasses DEF CheckOwnership, About
<1>3. CheckDocumentType(src, now) = "pass"
        <=> /\ src.document # Missing /\ Fresh(src.document, now)
            /\ src.document.type = "service_coverage_certificate"
  BY OnFreshPasses DEF CheckDocumentType
<1>4. CheckDocumentIdentity(q, src) = "pass"
        <=> /\ src.document # Missing /\ src.ownership # Missing
            /\ About(src.document, q) /\ src.document.serial = src.ownership.serial
  BY DEF CheckDocumentIdentity, SameMachine, PassIf
<1>5. CheckRegistryIntegrity(src) = "pass"
        <=> /\ src.document # Missing
            /\ src.document.accessible = "true" /\ src.document.registered # Missing
            /\ src.document.content = src.document.registered
  BY DEF CheckRegistryIntegrity, PassIf
<1>6. CheckRenewalWindow(src, now) = "pass"
        <=> src.document # Missing /\ src.document.coverageUntil <= now + RenewalWindowDays
  BY DEF CheckRenewalWindow, PassIf
<1>7. CheckEquipment(q, src, now) = "pass"
        <=> /\ src.equipment # Missing /\ Fresh(src.equipment, now)
            /\ About(src.equipment, q) /\ src.equipment.status = "active"
  BY OnFreshPasses DEF CheckEquipment, About
<1>8. CheckPolicyCurrency(src, now, inForce) = "pass"
        <=> src.policy # Missing /\ Fresh(src.policy, now) /\ src.policy.rules = inForce
  BY OnFreshPasses DEF CheckPolicyCurrency
<1>9. CheckBilling(src, now) = "pass"
        <=> src.billing # Missing /\ Fresh(src.billing, now) /\ src.billing.complete
  BY OnFreshPasses DEF CheckBilling
<1>10. (\A n \in Stamps : src[n] # Missing /\ Fresh(src[n], now))
         <=> /\ src.ownership # Missing /\ Fresh(src.ownership, now)
             /\ src.document # Missing /\ Fresh(src.document, now)
             /\ src.equipment # Missing /\ Fresh(src.equipment, now)
             /\ src.billing # Missing /\ Fresh(src.billing, now)
             /\ src.policy # Missing /\ Fresh(src.policy, now)
  BY DEF Stamps
<1>. QED
  BY <1>1, <1>2, <1>3, <1>4, <1>5, <1>6, <1>7, <1>8, <1>9, <1>10, Zenon DEF Eligible, Renewable

\* A machine is never both offered its present certificate and renewed: the
\* verdict coverage_is_current and the renewal window exclude each other.
THEOREM CurrentIsNotRenewed ==
  ASSUME NEW q, NEW src, NEW now \in Int, NEW inForce,
         src.billing.complete \in BOOLEAN, src.document.coverageUntil \in Int,
         CoverageIsCurrent(src.document, now)
  PROVE  ~Eligible(q, src, now, inForce)
<1>1. ~(src.document.coverageUntil <= now + RenewalWindowDays)
  BY DEF CoverageIsCurrent, RenewalWindowDays
<1>. QED BY <1>1, EligibleIffRenewable DEF Renewable

\* The offer made in the conversation and the later investigation agree: what is
\* eligible now would be offered now, and what is offered but found ineligible is
\* not so because of its coverage dates.  The two are separate rules of separate
\* modules, evaluated at different moments of one request.
THEOREM OfferAgreesWithEligibility ==
  ASSUME NEW q, NEW src, NEW now \in Int, NEW inForce,
         src.billing.complete \in BOOLEAN, src.document.coverageUntil \in Int
  PROVE  /\ Eligible(q, src, now, inForce)
              => DocumentRequestOutcome(q, src, now) = "renewal_required"
         /\ DocumentRequestOutcome(q, src, now) = "renewal_required"
              => CheckRenewalWindow(src, now) = "pass"
         /\ DocumentRequestOutcome(q, src, now) = "existing_pdf"
              => CheckRenewalWindow(src, now) = "fail"
<1>1. CoverageIsCurrent(src.document, now)
        <=> ~(src.document.coverageUntil <= now + RenewalWindowDays)
  BY DEF CoverageIsCurrent, RenewalWindowDays
<1>2. Eligible(q, src, now, inForce)
        => DocumentRequestOutcome(q, src, now) = "renewal_required"
  <2>1. SUFFICES ASSUME Renewable(q, src, now, inForce)
                 PROVE  DocumentRequestOutcome(q, src, now) = "renewal_required"
    BY EligibleIffRenewable
  <2>2. src.document # Missing /\ src.ownership # Missing
    BY <2>1 DEF Renewable, Stamps
  <2>3. /\ src.ownership.customer = q.customer
        /\ src.document.customer = q.customer
        /\ src.document.type = "service_coverage_certificate"
        /\ ~CoverageIsCurrent(src.document, now)
    BY <1>1, <2>1 DEF Renewable, About
  <2>. QED BY <2>2, <2>3 DEF DocumentRequestOutcome
<1>3. DocumentRequestOutcome(q, src, now) = "renewal_required"
        => CheckRenewalWindow(src, now) = "pass"
  BY <1>1 DEF DocumentRequestOutcome, CheckRenewalWindow, PassIf
<1>4. DocumentRequestOutcome(q, src, now) = "existing_pdf"
        => CheckRenewalWindow(src, now) = "fail"
  BY <1>1 DEF DocumentRequestOutcome, CheckRenewalWindow, PassIf
<1>. QED BY <1>2, <1>3, <1>4

\* Eligibility, too, holds over one period for the same sources: the quote made
\* when they pass and the decision taken when they still pass enclose no gap.
THEOREM OneEligiblePeriod ==
  ASSUME NEW q, NEW src, NEW first \in Int, NEW now \in Int, NEW second \in Int, NEW inForce,
         src.billing.complete \in BOOLEAN, src.document.coverageUntil \in Int,
         \A n \in Stamps : Timed(src[n]),
         first <= now, now <= second,
         Eligible(q, src, first, inForce), Eligible(q, src, second, inForce)
  PROVE  Eligible(q, src, now, inForce)
<1>1. Renewable(q, src, first, inForce) /\ Renewable(q, src, second, inForce)
  BY EligibleIffRenewable
<1>2. \A n \in Stamps : src[n] # Missing /\ Fresh(src[n], now)
  <2>. SUFFICES ASSUME NEW n \in Stamps PROVE src[n] # Missing /\ Fresh(src[n], now)
    OBVIOUS
  <2>1. src[n] # Missing /\ Fresh(src[n], first) /\ Fresh(src[n], second) /\ Timed(src[n])
    BY <1>1 DEF Renewable
  <2>. QED BY <2>1 DEF Fresh, Timed
<1>3. src.document.coverageUntil <= first + RenewalWindowDays
  BY <1>1 DEF Renewable
<1>4. src.document.coverageUntil <= now + RenewalWindowDays
  BY <1>3 DEF RenewalWindowDays
<1>5. Renewable(q, src, now, inForce)
  BY <1>1, <1>2, <1>4 DEF Renewable
<1>. QED BY <1>5, EligibleIffRenewable

-----------------------------------------------------------------------------
(* Money.                                                                  *)

\* Rounding is to the nearest cent, and a half goes up.
LEMMA HalfUpIsNearest ==
  ASSUME NEW n \in Nat
  PROVE  /\ HalfUp(n, 10000) \in Nat
         /\ 2 * n - 10000 < 2 * 10000 * HalfUp(n, 10000)
         /\ 2 * 10000 * HalfUp(n, 10000) <= 2 * n + 10000
<1>1. HalfUp(n, 10000) = (2 * n + 10000) \div 20000
  BY DEF HalfUp
<1>2. /\ (2 * n + 10000) \div 20000 \in Nat
      /\ 20000 * ((2 * n + 10000) \div 20000) <= 2 * n + 10000
      /\ 2 * n + 10000 < 20000 * ((2 * n + 10000) \div 20000) + 20000
  OBVIOUS
<1>. QED BY <1>1, <1>2

\* The VAT of a quote is within half a cent of 24 % of its base, and the total
\* reconciles with both.
THEOREM QuoteReconciles ==
  ASSUME NEW base \in Nat
  PROVE  /\ Vat(base) \in Nat
         /\ base * VatRate - 5000 < 10000 * Vat(base)
         /\ 10000 * Vat(base) <= base * VatRate + 5000
         /\ Total(base) - Vat(base) = base
<1>. DEFINE n == base * VatRate
<1>1. n \in Nat
  BY DEF VatRate
<1>2. Vat(base) = HalfUp(n, 10000) /\ Total(base) = base + Vat(base)
  BY DEF Vat, Total
<1>. HIDE DEF n
<1>3. /\ HalfUp(n, 10000) \in Nat
      /\ 2 * n - 10000 < 2 * 10000 * HalfUp(n, 10000)
      /\ 2 * 10000 * HalfUp(n, 10000) <= 2 * n + 10000
  BY <1>1, HalfUpIsNearest
<1>4. Vat(base) \in Nat /\ n - 5000 < 10000 * Vat(base) /\ 10000 * Vat(base) <= n + 5000
  BY <1>1, <1>2, <1>3
<1>5. Total(base) - Vat(base) = base
  BY <1>2, <1>4
<1>. QED BY <1>4, <1>5 DEF n

\* The net price is never negative and never above the annual value, so neither
\* is the discount, and the two reconcile, for every discount up to 100 %.
THEOREM PriceReconciles ==
  ASSUME NEW annual \in Nat, NEW discount \in 0..MaxDiscount
  PROVE  /\ Net(annual, discount) \in 0..annual
         /\ DiscountAmount(annual, discount) \in 0..annual
         /\ Net(annual, discount) + DiscountAmount(annual, discount) = annual
<1>. DEFINE n == annual * (MaxDiscount - discount)
<1>1. n \in Nat /\ n <= annual * 10000
  BY DEF MaxDiscount
<1>2. Net(annual, discount) = HalfUp(n, 10000)
  BY DEF Net, MaxDiscount
<1>. HIDE DEF n
<1>3. HalfUp(n, 10000) \in Nat /\ 2 * 10000 * HalfUp(n, 10000) <= 2 * n + 10000
  <2>1. n \in Nat
    BY <1>1
  <2>. QED BY <2>1, HalfUpIsNearest
<1>4. HalfUp(n, 10000) <= annual
  BY <1>1, <1>3
<1>. QED BY <1>2, <1>3, <1>4 DEF DiscountAmount

\* A larger discount never makes a renewal dearer.
THEOREM DiscountsAreMonotone ==
  ASSUME NEW annual \in Nat, NEW less \in 0..MaxDiscount, NEW more \in 0..MaxDiscount,
         less <= more
  PROVE  Net(annual, more) <= Net(annual, less)
<1>. DEFINE n == annual * (MaxDiscount - less)  m == annual * (MaxDiscount - more)
<1>1. n \in Nat /\ m \in Nat
  BY DEF MaxDiscount
<1>2. m <= n
  <2>1. n - m = annual * (more - less)
    BY DEF MaxDiscount
  <2>2. annual * (more - less) >= 0
    OBVIOUS
  <2>. QED BY <1>1, <2>1, <2>2
<1>3. Net(annual, less) = HalfUp(n, 10000) /\ Net(annual, more) = HalfUp(m, 10000)
  BY DEF Net, MaxDiscount
<1>. HIDE DEF n, m
<1>4. HalfUp(m, 10000) <= HalfUp(n, 10000)
  BY <1>1, <1>2 DEF HalfUp
<1>. QED BY <1>3, <1>4

\* The role calculate_pricing demands and the verdict of check_authority agree:
\* only an account manager is ever authorised, and exactly where the price asks
\* for one; a larger discount is escalated, whoever asks.
THEOREM AuthorityAgreesWithPrice ==
  ASSUME NEW discount \in 0..MaxDiscount, NEW role
  PROVE  /\ Authority(discount, role) = "authorized"
              <=> role = "account_manager" /\ RequiredRole(discount) = role
         /\ Authority(discount, role) = "escalation_required"
              => RequiredRole(discount) = "operations_manager"
<1>1. discount <= AccountManagerLimit \/ discount > AccountManagerLimit
  BY DEF AccountManagerLimit, MaxDiscount
<1>2. ~(discount <= AccountManagerLimit /\ discount > AccountManagerLimit)
  BY DEF AccountManagerLimit, MaxDiscount
<1>. QED BY <1>1, <1>2, Zenon DEF Authority, RequiredRole

-----------------------------------------------------------------------------
(* Coverage period.                                                        *)

LEMMA DaysInMonths ==
  ASSUME NEW y \in Nat, NEW m \in 1..12
  PROVE  DaysIn(y, m) \in 28..31
BY DEF DaysIn

\* The end of a period is a day of the calendar, after its start, for every
\* start and every number of months.
THEOREM CoverageEndIsLater ==
  ASSUME NEW start \in [year : Nat, month : 1..12, day : 1..31], NEW months \in Nat \ {0},
         IsDate(start)
  PROVE  IsDate(CoverageEnd(start, months)) /\ Before(start, CoverageEnd(start, months))
<1>. DEFINE index == start.month - 1 + months
            year  == start.year + index \div 12
            month == (index % 12) + 1
            last  == DaysIn(year, month)
            day   == IF start.day <= last THEN start.day ELSE last
<1>1. CoverageEnd(start, months) = [year |-> year, month |-> month, day |-> day]
  BY DEF CoverageEnd
<1>2. index \in Nat /\ start.year \in Nat /\ start.month \in 1..12 /\ start.day \in 1..31
  OBVIOUS
<1>3. year \in Nat /\ month \in 1..12
  BY <1>2
<1>4. day \in 1..last
  <2>1. last \in 28..31
    BY <1>3, DaysInMonths
  <2>. QED BY <1>2, <2>1
<1>5. start.year < year \/ (start.year = year /\ start.month < month)
  BY <1>2
<1>. QED BY <1>1, <1>3, <1>4, <1>5 DEF IsDate, Before

\* Twelve months end on the same day a year later, or on 28 February after a
\* leap day.
THEOREM CoverageLastsAYear ==
  ASSUME NEW start \in [year : Nat, month : 1..12, day : 1..31], IsDate(start)
  PROVE  LET end == CoverageEnd(start, 12) IN
         /\ end.year = start.year + 1 /\ end.month = start.month
         /\ end.day = start.day \/ (start.month = 2 /\ start.day = 29 /\ end.day = 28)
<1>. DEFINE index == start.month - 1 + 12
            last  == DaysIn(start.year + 1, start.month)
<1>1. index \div 12 = 1 /\ (index % 12) + 1 = start.month
  OBVIOUS
<1>2. CoverageEnd(start, 12) =
        [year |-> start.year + 1, month |-> start.month,
         day |-> IF start.day <= last THEN start.day ELSE last]
  BY <1>1 DEF CoverageEnd
<1>3. start.day <= last \/ (start.month = 2 /\ start.day = 29 /\ last = 28)
  BY DEF IsDate, DaysIn
<1>. QED BY <1>2, <1>3

=============================================================================
