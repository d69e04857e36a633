------------------------------- MODULE Amounts -------------------------------
(***************************************************************************)
(* USDC amounts.  Outside, an amount is a decimal; inside it is a number   *)
(* of stroops.  A decimal is written here as its whole part, the number    *)
(* after the point, and how many places that number takes: "0.05" is       *)
(* [whole |-> 0, frac |-> 5, places |-> 2].                                *)
(***************************************************************************)
EXTENDS Integers

Decimal == [whole : Nat, frac : Nat, places : Nat]

USDC_DECIMALS == 7
Unit == 10^USDC_DECIMALS
Cent == 10^(USDC_DECIMALS - 2)

\* "too many decimal places" is the only error a decimal can meet.
Parses(d) == d.places <= USDC_DECIMALS

\* padEnd, and the digits read as one number.
parseUsdcDecimalToStroops(d) ==
    d.whole * Unit + d.frac * 10^(USDC_DECIMALS - d.places)

\* padStart, and the zeros at the end cut off.
formatUsdcStroopsToDecimal(n) ==
    LET rest   == n % Unit
        places == CHOOSE p \in 0..USDC_DECIMALS :
                    /\ rest % 10^(USDC_DECIMALS - p) = 0
                    /\ \A q \in 0..(p - 1) : rest % 10^(USDC_DECIMALS - q) # 0
    IN [whole |-> n \div Unit, frac |-> rest \div 10^(USDC_DECIMALS - places), places |-> places]

\* createTaskSchema: a positive amount.
ValidPrice(d) == Parses(d) /\ parseUsdcDecimalToStroops(d) > 0

calculateListingFeeStroops(r) == (r * 5 + 500) \div 1000

\* Math.round of num / den in floating point: a tie may fall on either side.
Rounded(num, den) == {n \in {num \div den, num \div den + 1} : 2 * (num - n * den) <= den
                                                              /\ 2 * (n * den - num) <= den}

ShareTenths == 7    \* 0.7, DEFAULT_REQUESTER_CONFISCATION_SHARE

\* Mutant: the marketplace's share is rounded from its own percentage.
sharesApart(c) ==
    {[requester |-> r * Cent, marketplace |-> m * Cent] :
       r \in Rounded(c * ShareTenths, 10 * Cent), m \in Rounded(c * (10 - ShareTenths), 10 * Cent)}

\* The shares of a confiscated collateral of c stroops, rounded to cents.
confiscateShares(c) ==
    UNION {{[requester |-> r * Cent, marketplace |-> m * Cent] : m \in Rounded(c - r * Cent, Cent)} :
             r \in Rounded(c * ShareTenths, 10 * Cent)}

=============================================================================
