------------------------------- MODULE Money -------------------------------
(***************************************************************************)
(* Amounts of money, and the two roundings an order's price goes through.  *)
(* The code holds prices as float64; here an amount is a natural number of *)
(* mills, thousandths of a dong, the finest price the model tells apart.   *)
(* A product's price is in mills, the order's total_amount in cents        *)
(* (hundredths, what PlaceOrder rounds to), the amount payOS is asked for  *)
(* in whole dong.                                                          *)
(***************************************************************************)
EXTENDS FiniteSetsExt

RoundDiv_Down(n, d) == n \div d       \* a variant: truncation

(* math.Round on a non-negative quotient n / d: half away from zero. *)
RoundDiv(n, d) == (n + d \div 2) \div d

(* A line of a cart or an order: which cart row it came from, the product, *)
(* the quantity and the unit price copied into it.                         *)
LinePrice(line) == line.price * line.qty

(* PlaceOrder's sum over the cart's items, in mills. *)
SumOfLines(lines) == MapThenSumSet(LinePrice, lines)

(* TotalAmount: math.Round(total*100)/100, in cents. *)
Cents(lines) == RoundDiv(SumOfLines(lines), 10)

(* int64(math.Round(order.TotalAmount)): what the payment link asks for    *)
(* and what the webhook compares with, in whole dong.                      *)
Dong(cents) == RoundDiv(cents, 100)
=============================================================================
