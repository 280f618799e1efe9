------------------------------ MODULE Pricing ------------------------------
(***************************************************************************)
(* The arithmetic of booking/services/pricing.ts, in integer cents.  A     *)
(* date is the number of its day; None is a BookingPricingError.           *)
(***************************************************************************)
EXTENDS Integers

Floor == 30             \* BILLABLE_HEADCOUNT_FLOOR
AdvanceNumerator == 3   \* ADVANCE_NUMERATOR / ADVANCE_DENOMINATOR
AdvanceDenominator == 10

Bands == {30, 40, 60, 80}

None == -1

\* A stay ends at least one night after it starts.
countNights(start, end) == IF end - start < 1 THEN None ELSE end - start

billableHeadcount(headcount) == IF headcount < Floor THEN Floor ELSE headcount

resolveHeadcountBand(headcount) ==
  CHOOSE band \in Bands :
    /\ band = 30 \/ headcount >= band
    /\ \A higher \in Bands : higher > band => headcount < higher

resolveServiceSku(board, headcount) == <<board, resolveHeadcountBand(headcount)>>

\* Math.round: to the nearest whole number, halves upwards.
RoundedDivision_Down(a, b) == a \div b
RoundedDivision(a, b) == (2 * a + b) \div (2 * b)

calculateConfirmationAmounts(total, deposit) ==
  LET advance == RoundedDivision(total * AdvanceNumerator, AdvanceDenominator)
  IN [advance |-> advance, deposit |-> deposit, amountToConfirm |-> advance + deposit]

\* A stay is [start, end, headcount, board].
quoteStay(stay, unitPrice, deposit) ==
  LET nights == countNights(stay.start, stay.end)
      units == nights * billableHeadcount(stay.headcount)
  IN [units |-> units, sku |-> resolveServiceSku(stay.board, stay.headcount),
      total |-> unitPrice * units,
      confirmation |-> calculateConfirmationAmounts(unitPrice * units, deposit)]
=============================================================================
