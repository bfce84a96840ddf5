------------------------------ MODULE MCIntake ------------------------------
(* Exports of a firm with two clients, valid and invalid ones, for TLC. *)
EXTENDS Intake, TLC

CONSTANTS c1, c2, c3

Good(number) == [spelling |-> "nine digits", value |-> number]
Blank == [spelling |-> "blank", value |-> ""]
Garbled == [spelling |-> "garbled", value |-> "12-34"]

Row(client, name, tin, amount, method, withheld) ==
    [client |-> client, name |-> name, tin |-> tin, amount |-> amount,
     method |-> method, withheld |-> withheld]

\* Client A: three vendors over the threshold, one with a reversal and one whose
\* running total leaves int64 (128) and comes back; a vendor without TIN, one with
\* a garbled TIN, one with a 000 TIN, and one that is paid by card but had
\* withholding.  Client B: one vendor at exactly the threshold, one below it, one
\* at net zero with withholding, one at the least int64.
BigExport ==
    << Row("A", "ant", Good("111"), 127, "check", 0),
       Row("A", "ant", Good("111"), 3, "wire", 0),
       Row("A", "ant", Good("111"), -20, "wire", 0),
       Row("A", "bee", Good("222"), 9, "ach", 0),
       Row("A", "bee", Good("222"), -2, "ach", 0),
       Row("A", "cat", Good("333"), 6, "cash", 1),
       Row("A", "dog", Blank, 8, "check", 0),
       Row("A", "eel", Garbled, 8, "check", 0),
       Row("A", "fox", Good("000"), 8, "check", 0),
       Row("A", "gnu", Good("444"), 9, "paypal", 2),
       Row("B", "ant", Good("111"), 6, "check", 0),
       Row("B", "bee", Good("222"), 9, "credit_card", 0),
       Row("B", "hen", Good("555"), 5, "check", 127),
       Row("B", "hen", Good("555"), -5, "check", 0),
       Row("B", "jay", Good("666"), -127, "check", 1),
       Row("B", "jay", Good("666"), -1, "ach", 0) >>

\* As many rows, but one sum that no bigint holds.
OverflowingExport == [BigExport EXCEPT ![3].amount = 1]
\* It breaks off where BigExport goes on.
TruncatedExport == SubSeq(BigExport, 1, 6) \o <<Unreadable>>
EmptyExport == <<>>
\* An unknown method; an amount one below the least that is accepted.
BrokenExport == << Row("A", "ant", Good("111"), 7, "check", 0),
                   Row("A", "ant", Good("111"), 7, "barter", 0) >>
LeastExport == << Row("A", "ant", Good("111"), -Word, "check", 1) >>

AllFiles == {BigExport, OverflowingExport, TruncatedExport,
             EmptyExport, BrokenExport, LeastExport}

TINs == {"000", "111", "222", "333", "444", "555", "666"}
TINsWithZeros == {"000"}

Tin(client, number) ==
    [client |-> client, vendor |-> [kind |-> "tin", value |-> number]]
AllFilings ==
    << Tin("A", "333"), Tin("A", "111"), Tin("A", "222"),
       [client |-> "A", vendor |-> [kind |-> "missing-tin", value |-> "dog"]],
       [client |-> "A", vendor |-> [kind |-> "malformed-tin", value |-> "12-34"]],
       Tin("A", "000"), Tin("A", "444"),
       Tin("B", "555"), Tin("B", "666"), Tin("B", "111"), Tin("B", "222") >>

AnyCaller == Permutations(Callers)
=============================================================================
