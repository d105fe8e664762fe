------------------------------ MODULE Pricing ------------------------------
(***************************************************************************)
(* The price list of the subtitle-erasure service (lib/pricing.ts).        *)
(* Durations are whole seconds; the source computes on JavaScript numbers, *)
(* so fractions of a second are abstracted away.                           *)
(***************************************************************************)
EXTENDS Integers

Modes == {"standard", "pro"}

\* Points per minute of video.
rates == [standard |-> 120, pro |-> 260]

\* Math.ceil of a quotient of naturals.
CeilDiv(a, b) == (a + b - 1) \div b

\* What a video of this length costs: whole points, rounded up, at least one.
usagePoints(seconds, mode) ==
  LET p == CeilDiv(seconds * rates[mode], 60)
  IN  IF p < 1 THEN 1 ELSE p

\* What is frozen when the job is submitted: exactly the price, no margin.
reservePoints(seconds, mode) == usagePoints(seconds, mode)

\* The packages on sale: what each costs (yuan) and how many points it buys.
PACKAGES == [starter |-> [priceYuan |-> 29,  points |-> 2900],
             creator |-> [priceYuan |-> 99,  points |-> 10500],
             studio  |-> [priceYuan |-> 299, points |-> 33000],
             pro     |-> [priceYuan |-> 799, points |-> 92000]]

\* The longest video the service accepts, in seconds.
SixHours == 60 * 60 * 6
=============================================================================
