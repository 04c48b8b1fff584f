------------------------------- MODULE SmsFields ------------------------------
(***************************************************************************)
(* How an amount, a timestamp, a telephone number and a transaction id of  *)
(* an SMS are read: once by the server, whose result counts, and once by   *)
(* the phone, whose result is the hint it uploads and what the merchant    *)
(* sees.  The patterns have already cut the text out of the message; a     *)
(* text is the numbers written in it.  Time is counted in hours.           *)
(***************************************************************************)
EXTENDS Integers, Sequences, SequencesExt

CONSTANTS
    AmountTexts,    \* [units, decimals, point]: 12.5 is [12, 1, 5]
    TimeTexts,      \* [first, second, year, digits, hour]: 27/06/25 02 is [27, 6, 25, 2, 2]
    FormatLists,    \* timestamp_formats of a rule, each [dayFirst, digits]
    NumberTexts,    \* [plus, digits]: ++88 is [2, <<8, 8>>]
    TrxTexts,       \* [letters, digits, others, upper]: "da-5" is [2, 1, 1, FALSE]
    MaxPaisa,       \* MAX_ABS_PAISA
    WordHalf,       \* 2^63: a Kotlin Long is in -WordHalf .. WordHalf - 1
    FieldsNow       \* the hour it is

ASSUME FieldsAssumption ==
    /\ \A t \in AmountTexts :
          {t.units, t.decimals} \subseteq Nat /\ t.point \in 0 .. 10 ^ t.decimals - 1
    /\ \A t \in TimeTexts : {t.first, t.second, t.year, t.hour} \subseteq Nat
    /\ \A t \in NumberTexts : t.plus \in Nat /\ t.digits \in Seq(0 .. 9)
    /\ TrxTexts \subseteq [letters : Nat, digits : Nat, others : Nat, upper : BOOLEAN]
    /\ MaxPaisa \in Nat /\ WordHalf \in Nat /\ MaxPaisa < WordHalf

VARIABLES
    field,      \* what is read
    readings    \* what each side made of it: none or one value

fieldVars == <<field, readings>>

-----------------------------------------------------------------------------
(* Amounts, in paisa.                                                      *)
PaisaPerTaka == 100

(* Two digits after the point: "5" is fifty paisa.                         *)
Fraction(t) == IF t.decimals = 1 THEN t.point * 10 ELSE t.point

(* Money.fromDecimalString of the server.  A double holds every amount in  *)
(* range.                                                                  *)
FromDecimalString(t) ==
    {p \in {t.units * PaisaPerTaka + Fraction(t)} : t.decimals <= 2 /\ p <= MaxPaisa}
ToDecimalString(p) == [units |-> p \div PaisaPerTaka, decimals |-> 2, point |-> p % PaisaPerTaka]

NormalizeAmount(t) == {ToDecimalString(p) : p \in FromDecimalString(t)}

(* The phone computes in Longs, which wrap around.                         *)
Long(n) == ((n + WordHalf) % (2 * WordHalf)) - WordHalf
PhoneFromDecimalString(t) ==
    {p \in {Long(t.units * PaisaPerTaka + Fraction(t))} :
        t.decimals <= 2 /\ t.units < WordHalf /\ p \in -MaxPaisa .. MaxPaisa}
ToDisplayString(p) ==
    IF p < 0 THEN [ToDecimalString(-p) EXCEPT !.units = -@] ELSE ToDecimalString(p)
PhoneAmount(t) == {ToDisplayString(p) : p \in PhoneFromDecimalString(t)}

-----------------------------------------------------------------------------
(* Timestamps, local to Dhaka.                                             *)
DhakaOffset == 6
Pivot == 70
PivotYear(yy) == IF yy < Pivot THEN 2000 + yy ELSE 1900 + yy

(* What a format makes of the text, when it fits at all.                   *)
Fits(t, format) == t.digits = format.digits
Components(t, format) ==
    [year  |-> IF t.digits = 4 THEN t.year ELSE PivotYear(t.year),
     month |-> IF format.dayFirst THEN t.second ELSE t.first,
     day   |-> IF format.dayFirst THEN t.first ELSE t.second,
     hour  |-> t.hour]
InRange(c) == c.month \in 1 .. 12 /\ c.day \in 1 .. 31 /\ c.hour <= 23

Leap(year) == year % 4 = 0 /\ (year % 100 # 0 \/ year % 400 = 0)
MonthDays(year, month) ==
    IF month = 2 THEN (IF Leap(year) THEN 29 ELSE 28)
    ELSE IF month \in {4, 6, 9, 11} THEN 30 ELSE 31
DaysBefore == <<0, 31, 59, 90, 120, 151, 181, 212, 243, 273, 304, 334>>
DayNumber(year, month, day) ==
    365 * year + (year + 3) \div 4 - (year + 99) \div 100 + (year + 399) \div 400
    + DaysBefore[month] + (IF month > 2 /\ Leap(year) THEN 1 ELSE 0) + day

(* Date.UTC rolls a day past the end of the month over into the next, and  *)
(* takes a year below 100 for one of the twentieth century.                *)
YearUTC(c) == IF c.year < 100 THEN 1900 + c.year ELSE c.year
DateUTC(c) == 24 * DayNumber(YearUTC(c), c.month, c.day) + c.hour

(* The components of an instant, in the years around this one.             *)
DhakaComponents(instant, year) ==
    LET local == instant + DhakaOffset
    IN  CHOOSE c \in [year : {year, year + 1}, month : 1 .. 12, day : 1 .. 31, hour : {local % 24}] :
          c.day <= MonthDays(c.year, c.month) /\ DayNumber(c.year, c.month, c.day) = local \div 24

ServerInstant(c) == DateUTC(c) - DhakaOffset

(* Mutant of ServerAccepts: no read-back.                                  *)
ServerAcceptsRollover(c) == InRange(c)
ServerAccepts(c) ==
    InRange(c) /\ DhakaComponents(ServerInstant(c), YearUTC(c)) = c

(* LocalDateTime.of throws on a date that is none.                         *)
PhoneInstant(c) == (24 * DayNumber(c.year, c.month, c.day) + c.hour) - DhakaOffset
PhoneAccepts(c) == InRange(c) /\ c.day <= MonthDays(c.year, c.month)

(* The first format that fits and gives a date; not more than a day ahead. *)
Fitting(t, formats) == {i \in DOMAIN formats : Fits(t, formats[i])}
FirstDate(t, formats, usable) ==
    {Components(t, formats[i]) : i \in {i \in usable : \A j \in usable : i <= j}}
Timely(instants) == {i \in instants : i <= FieldsNow + 24}
ParseProviderTimestamp(t, formats) ==
    LET usable == {i \in Fitting(t, formats) : ServerAccepts(Components(t, formats[i]))}
    IN  {ServerInstant(c) : c \in FirstDate(t, formats, usable)}
NormalizeTimestamp(t, formats) == Timely(ParseProviderTimestamp(t, formats))
PhoneTimestamp(t, formats) ==
    LET usable == {i \in Fitting(t, formats) : PhoneAccepts(Components(t, formats[i]))}
    IN  Timely({PhoneInstant(c) : c \in FirstDate(t, formats, usable)})

-----------------------------------------------------------------------------
(* Telephone numbers.  What is neither a digit nor a plus sign is dropped, *)
(* Bengali digits count; a plus sign left over makes it no number.         *)
Without(prefix, d) == IF IsPrefix(prefix, d) THEN SubSeq(d, Len(prefix) + 1, Len(d)) ELSE d
National(d) == Without(<<0>>, Without(<<8, 8, 0>>, d))
IsMobile(d) == Len(d) = 10 /\ d[1] = 1 /\ d[2] \in 3 .. 9
International(d) == [plus |-> 1, digits |-> <<8, 8, 0>> \o d]
NormalizeMsisdn(t) ==
    {International(d) : d \in {d \in {National(t.digits)} : t.plus <= 1 /\ IsMobile(d)}}

PhoneMsisdn(t) ==
    LET local == Without(<<8, 8, 0>>, t.digits)
        d     == Without(<<0>>, local)
    IN  IF t.plus > 1 \/ ~IsMobile(d) THEN {} ELSE {International(d)}

(* Transaction ids: letters and ASCII digits in upper case, all else is    *)
(* dropped; the rejection of short all-digit ids comes after that of short *)
(* ids and rejects nothing.                                                *)
NormalizeTrxId(t) ==
    {[letters |-> t.letters, digits |-> t.digits, others |-> 0, upper |-> TRUE] :
        n \in {t.letters + t.digits} \cap 6 .. 20}
Uppercase(t) == [t EXCEPT !.upper = TRUE]
LettersAndDigits(t) == [t EXCEPT !.others = 0]
PhoneTrxId(t) == {id \in {LettersAndDigits(Uppercase(t))} : id.letters + id.digits \in 6 .. 20}

-----------------------------------------------------------------------------
Fields ==
    [kind : {"AMOUNT"}, text : AmountTexts]
    \cup [kind : {"TIMESTAMP"}, text : TimeTexts, formats : FormatLists]
    \cup [kind : {"MSISDN"}, text : NumberTexts]
    \cup [kind : {"TRX_ID"}, text : TrxTexts]
Unread == [server |-> {}, phone |-> {}, done |-> FALSE]

FieldsInit == field \in Fields /\ readings = Unread

NormalizeField(f) ==
    CASE f.kind = "AMOUNT"    -> NormalizeAmount(f.text)
      [] f.kind = "MSISDN"    -> NormalizeMsisdn(f.text)
      [] f.kind = "TRX_ID"    -> NormalizeTrxId(f.text)
      [] f.kind = "TIMESTAMP" -> NormalizeTimestamp(f.text, f.formats)
PhoneNormalizeField(f) ==
    CASE f.kind = "AMOUNT"    -> PhoneAmount(f.text)
      [] f.kind = "MSISDN"    -> PhoneMsisdn(f.text)
      [] f.kind = "TRX_ID"    -> PhoneTrxId(f.text)
      [] f.kind = "TIMESTAMP" -> PhoneTimestamp(f.text, f.formats)

ReadField ==
    /\ ~readings.done
    /\ readings' = [server |-> NormalizeField(field), phone |-> PhoneNormalizeField(field),
                    done |-> TRUE]
    /\ UNCHANGED field

FieldsNext == ReadField
FieldsSpec == FieldsInit /\ [][FieldsNext]_fieldVars

-----------------------------------------------------------------------------
FieldsTypeOK ==
    /\ field \in Fields
    /\ readings.done \in BOOLEAN
    /\ field.kind = "TIMESTAMP" => readings.server \cup readings.phone \subseteq Int

(* A year below 100 written with four digits, or more than a Long holds.   *)
BeyondPhone ==
    \/ /\ field.kind = "AMOUNT"
       /\ field.text.units * PaisaPerTaka + Fraction(field.text) >= WordHalf
    \/ field.kind = "TIMESTAMP" /\ field.text.digits = 4 /\ field.text.year < 100

(* The number the digits write, in paisa, whatever the decimals.           *)
Writes(t, amount) ==
    (t.units * 10 ^ t.decimals + t.point) * PaisaPerTaka
        = (amount.units * PaisaPerTaka + amount.point) * 10 ^ t.decimals

(* The Kotlin engine is "provably equivalent to the server's reference     *)
(* parser" (ParserEngine.kt:11-12): both read the same value or none, but  *)
(* for what a Long or a year cannot hold.  An amount is never rounded      *)
(* (money.ts:54).  What is read is in its normal form, so that the id on   *)
(* an order and the one in an SMS can be compared as they are stored:      *)
(* reading it again gives the same.                                        *)
EnginesAgree ==
    readings.done =>
        /\ ~BeyondPhone => readings.server = readings.phone
        /\ field.kind = "AMOUNT" => \A a \in readings.server : Writes(field.text, a)
        /\ field.kind # "TIMESTAMP" =>
              \A v \in readings.server : NormalizeField([field EXCEPT !.text = v]) = {v}
=============================================================================
