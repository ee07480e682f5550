------------------------------ MODULE CashUnits ------------------------------
(***************************************************************************)
(* Amount formatting and parsing of the Qt client (src/qt/cashunits.cpp). *)
(*                                                                         *)
(* A QString is a sequence of characters: the digits "0".."9", the signs  *)
(* "-" and "+", the decimal point "." and the separators " " and THIN (the *)
(* thin space U+2009). format, floorWithUnit and parse are operators; the *)
(* state only holds one input of each, chosen in the initial state, so    *)
(* that TLC checks the properties for every input of the bounded sets.    *)
(*                                                                         *)
(* Integers: CAmount and qint64 are 64 bits wide. The amounts enumerated *)
(* lie within TLC's 32-bit integers, far below parse's limit of 18        *)
(* characters and the range check of toLongLong, which are therefore not  *)
(* reached; the README discusses that edge.                               *)
(* The text around a number (the unit symbol, the HTML span) is left out. *)
(***************************************************************************)
EXTENDS Integers, Sequences, SequencesExt

CONSTANTS
    Amounts,        \* the amounts (in satoshis) format and floor are checked on
    Digits,         \* values of the "digits" setting read by floorWithUnit
    PARSE_MAX_LEN   \* the longest string parse hands to toLongLong (18)

ASSUME
    /\ PARSE_MAX_LEN \in Nat
    /\ Amounts \subseteq Int
    /\ Digits \subseteq Nat

THIN == "thin"

DigitChars == <<"0", "1", "2", "3", "4", "5", "6", "7", "8", "9">>

Chars == {DigitChars[i] : i \in 1..10} \cup {"-", "+", ".", " ", THIN}

DigitChar(d) == DigitChars[d + 1]

DigitValue(c) == SelectInSeq(DigitChars, LAMBDA x : x = c) - 1

IsDigit(c) == c \in {DigitChars[i] : i \in 1..10}

(***************************************************************************)
(* The unit table.                                                         *)
(***************************************************************************)

availableUnits == <<"ODYNC", "mODYNC", "uODYNC", "satoshis">>

\* An int that names no unit.
Invalid == "invalid"

valid(unit) == unit \in {availableUnits[i] : i \in 1..4}

factor(unit) ==
    CASE unit = "ODYNC"    -> 100000000
      [] unit = "mODYNC"   -> 100000
      [] unit = "uODYNC"   -> 100
      [] unit = "satoshis" -> 1
      [] OTHER             -> 100000000

decimals(unit) ==
    CASE unit = "ODYNC"    -> 8
      [] unit = "mODYNC"   -> 5
      [] unit = "uODYNC"   -> 2
      [] unit = "satoshis" -> 0
      [] OTHER             -> 0

SeparatorStyle == {"separatorNever", "separatorStandard", "separatorAlways"}

(***************************************************************************)
(* The QString operations the code uses.                                   *)
(***************************************************************************)

\* QString::number of a non-negative integer.
RECURSIVE NumberStr(_)
NumberStr(n) ==
    IF n < 10 THEN <<DigitChar(n)>>
              ELSE NumberStr(n \div 10) \o <<DigitChar(n % 10)>>

\* rightJustified / leftJustified pad to width and never truncate.
Padding(s, width, c) == [i \in 1..(width - Len(s)) |-> c]

RightJustified(s, width, c) == Padding(s, width, c) \o s

LeftJustified(s, width, c) == s \o Padding(s, width, c)

\* QString::split(c), keeping empty parts.
RECURSIVE Split(_, _)
Split(s, c) ==
    LET i == SelectInSeq(s, LAMBDA x : x = c) IN
    IF i = 0 THEN <<s>>
             ELSE <<SubSeq(s, 1, i - 1)>> \o Split(SubSeq(s, i + 1, Len(s)), c)

\* QString::toLongLong(&ok): an optional sign, then one digit or more; 0 and
\* ok = FALSE otherwise. (Its overflow check needs 19 digits, which parse's
\* length check never lets through.)
ToLongLong(s) ==
    LET signed == s # <<>> /\ Head(s) \in {"-", "+"}
        body   == IF signed THEN Tail(s) ELSE s
        neg    == signed /\ Head(s) = "-"
        mag    == FoldLeft(LAMBDA acc, c : acc * 10 + DigitValue(c), 0, body)
    IN IF body = <<>> \/ \E i \in 1..Len(body) : ~IsDigit(body[i])
         THEN [ok |-> FALSE, val |-> 0]
         ELSE [ok |-> TRUE, val |-> IF neg THEN -mag ELSE mag]

(***************************************************************************)
(* CashUnits.                                                              *)
(***************************************************************************)

\* Fault variant: the loop runs while i <= q_size.
RECURSIVE InsertSeparatorsInclusive(_, _, _)
InsertSeparatorsInclusive(s, i, q_size) ==
    IF i <= q_size
      THEN InsertSeparatorsInclusive(InsertAt(s, q_size - i + 1, THIN), i + 3, q_size)
      ELSE s

\* for (int i = 3; i < q_size; i += 3) quotient_str.insert(q_size - i, thin_sp)
RECURSIVE InsertSeparators(_, _, _)
InsertSeparators(s, i, q_size) ==
    IF i < q_size THEN InsertSeparators(InsertAt(s, q_size - i + 1, THIN), i + 3, q_size)
                  ELSE s

format(unit, n, fPlus, separators) ==
    LET coin         == factor(unit)
        num_decimals == decimals(unit)
        n_abs        == IF n > 0 THEN n ELSE -n
        quotient_str == NumberStr(n_abs \div coin)
        remainder_str == RightJustified(NumberStr(n_abs % coin), num_decimals, "0")
        q_size       == Len(quotient_str)
        grouped      == IF \/ separators = "separatorAlways"
                           \/ separators = "separatorStandard" /\ q_size > 4
                         THEN InsertSeparators(quotient_str, 3, q_size)
                         ELSE quotient_str
        signed       == CASE n < 0          -> <<"-">> \o grouped
                          [] fPlus /\ n > 0 -> <<"+">> \o grouped
                          [] OTHER          -> grouped
    IN CASE ~valid(unit)      -> <<>>
         [] num_decimals <= 0 -> signed
         [] OTHER             -> signed \o <<".">> \o remainder_str

\* Fault variant: chops "digits" characters.
floorWithUnitChopDigits(unit, n, fPlus, separators, digits) ==
    LET result == format(unit, n, fPlus, separators)
    IN IF digits > 0 THEN SubSeq(result, 1, Len(result) - digits) ELSE result

\* The number of floorWithUnit: format, then chop the decimals beyond the
\* "digits" setting.
floorWithUnit(unit, n, fPlus, separators, digits) ==
    LET result == format(unit, n, fPlus, separators)
        chop   == decimals(unit) - digits
    IN IF chop > 0 THEN SubSeq(result, 1, Len(result) - chop) ELSE result

\* Fault variant: only blanks are dropped.
removeSpacesBlankOnly(s) == SelectSeq(s, LAMBDA c : c # " ")

\* removeSpaces drops blanks and thin spaces.
removeSpaces(s) == SelectSeq(s, LAMBDA c : c \notin {" ", THIN})

\* The result of parse and the value written to *val_out (0 when none is).
parse(unit, value) ==
    LET Fail == [ok |-> FALSE, val |-> 0]
        num_decimals == decimals(unit)
        parts    == Split(removeSpaces(value), ".")
        whole    == parts[1]
        decs     == IF Len(parts) > 1 THEN parts[2] ELSE <<>>
        str      == whole \o LeftJustified(decs, num_decimals, "0")
    IN CASE ~valid(unit) \/ value = <<>>  -> Fail
         [] Len(parts) > 2                -> Fail
         [] Len(decs) > num_decimals      -> Fail
         [] Len(str) > PARSE_MAX_LEN      -> Fail
         [] OTHER                         -> ToLongLong(str)

(***************************************************************************)
(* One input of each operation; TLC enumerates them all in Init.           *)
(***************************************************************************)

VARIABLES inUnit, inAmount, inPlus, inSep, inDigits

vars == <<inUnit, inAmount, inPlus, inSep, inDigits>>

Init ==
    /\ inUnit \in {availableUnits[i] : i \in 1..4} \cup {Invalid}
    /\ inAmount \in Amounts
    /\ inPlus \in BOOLEAN
    /\ inSep \in SeparatorStyle
    /\ inDigits \in Digits

\* The operations are pure: a step leaves the input as it is.
Evaluate == UNCHANGED vars

Spec == Init /\ [][Evaluate]_vars

(***************************************************************************)
(* A reference rendering, written independently of format: the digits of   *)
(* |n|, padded to one more than the decimals, split into whole and         *)
(* fraction; a thin space before every whole digit that starts a group of  *)
(* three counted from the right.                                           *)
(***************************************************************************)
ReferenceFormat(u, n, plus, sep) ==
    LET nd     == decimals(u)
        ds     == RightJustified(NumberStr(IF n < 0 THEN -n ELSE n), nd + 1, "0")
        k      == Len(ds) - nd
        group  == sep = "separatorAlways" \/ (sep = "separatorStandard" /\ k > 4)
        whole  == FlattenSeq([j \in 1..k |->
                    IF group /\ j > 1 /\ (k - j + 1) % 3 = 0 THEN <<THIN, ds[j]>>
                                                            ELSE <<ds[j]>>])
        sign   == IF n < 0 THEN <<"-">> ELSE IF plus /\ n > 0 THEN <<"+">> ELSE <<>>
        frac   == IF nd = 0 THEN <<>> ELSE <<".">> \o SubSeq(ds, k + 1, Len(ds))
    IN IF valid(u) THEN sign \o whole \o frac ELSE <<>>

\* |n| rounded toward zero to a multiple of m.
TruncateTowardZero(n, m) == IF n < 0 THEN -((-n) - ((-n) % m)) ELSE n - (n % m)

(***************************************************************************)
(* Properties.                                                             *)
(***************************************************************************)

\* format renders every amount, in every unit and separator style, with and
\* without the plus sign, exactly as the reference: the div/mod split, the
\* zero padding of the remainder, the separator loop and the sign insertion
\* together give the digits of the amount with the decimal point in place.
FormatMatchesReference ==
    format(inUnit, inAmount, inPlus, inSep)
        = ReferenceFormat(inUnit, inAmount, inPlus, inSep)

\* parse reads back what format wrote: thin spaces, the plus sign, a
\* negative amount below one coin ("-0.00000005") and the unit without
\* decimals all return the original amount.
RoundTrip ==
    valid(inUnit) =>
        parse(inUnit, format(inUnit, inAmount, inPlus, inSep))
            = [ok |-> TRUE, val |-> inAmount]

\* floorWithUnit shows the amount cut to the "digits" setting: parsed back,
\* it is the amount truncated toward zero to that many decimals, including
\* the trailing point left when digits is 0.
FloorTruncates ==
    LET kept == IF inDigits < decimals(inUnit) THEN inDigits ELSE decimals(inUnit) IN
    valid(inUnit) =>
        parse(inUnit, floorWithUnit(inUnit, inAmount, inPlus, inSep, inDigits))
            = [ok |-> TRUE,
               val |-> TruncateTowardZero(inAmount, 10^(decimals(inUnit) - kept))]

=============================================================================
