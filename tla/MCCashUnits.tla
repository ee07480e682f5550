----------------------------- MODULE MCCashUnits -----------------------------
(* The amounts the CashUnits run enumerates: zero, one satoshi either side, *)
(* one below, at and above each unit's factor, amounts with 5, 6 and 7      *)
(* whole digits in satoshis (separator cases) and the largest amounts of    *)
(* TLC's integers.                                                          *)
EXTENDS CashUnits

MCAmounts ==
    {0, 1, -1, 5, -5, 99, 100, -100, 101, 99999, 100000, -100001,
     123456, -1234567, 99999999, 100000000, -100000000, 123456789,
     -12345678, 98765432, 2147483647, -2147483647}

MCDigits == {0, 2, 8}
====
