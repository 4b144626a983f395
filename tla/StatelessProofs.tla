-------------------------- MODULE StatelessProofs --------------------------
(***************************************************************************)
(* What the parts without state compute is right for every input: every    *)
(* date of the calendar, every price table that was accepted, and every    *)
(* request of the admin API.  The specification takes one step, so its     *)
(* invariant is that the result is what the function gives; the work is in *)
(* the functions.                                                          *)
(*                                                                         *)
(* Dates: a month ends where the next one begins (MonthLength), and two    *)
(* months do not overlap (MonthsApart), both from the closed form of the   *)
(* days before 1 March (MarchClosed).  Prices: a finite table has a last   *)
(* block in effect (Greatest, LastBlock), a product below half the range   *)
(* of an integer is not wrapped, and parts cut off add up to no more than  *)
(* the part of the sum.  The contract: what the table declares of each     *)
(* operation (Table) covers what each stage answers.                       *)
(*                                                                         *)
(* Intervals of literals are kept short: the provers list their members.   *)
(***************************************************************************)
EXTENDS Stateless, FiniteSetTheorems, SequenceTheorems, WellFoundedInduction, TLAPS

\* Days before 1 March of a year.
March(yy) == (yy \div 400) * 146097 + (yy % 400) * 365 + (yy % 400) \div 4 - (yy % 400) \div 100

\* Days from 1 March to the first of a month.
Offset(m) == (153 * ((m + 9) % 12) + 2) \div 5

\* The year a month is counted in, from March on.
YearOf(y, m) == IF m <= 2 THEN y - 1 ELSE y

\* time.Date, for a month of the year or the one after December.
LEMMA DateIs ==
  ASSUME NEW y \in Nat \ {0}, NEW m \in 1..12, NEW d \in Int
  PROVE  /\ W!Date(y, m, d) = March(YearOf(y, m)) + Offset(m) + d - 1
         /\ W!Date(y, 13, d) = W!Date(y + 1, 1, d)
<1>1. (m - 1) \div 12 = 0 /\ (m - 1) % 12 = m - 1 /\ y + 0 = y /\ m - 1 + 1 = m
  OBVIOUS
<1>2. (13 - 1) \div 12 = 1 /\ (13 - 1) % 12 = 0 /\ (1 - 1) \div 12 = 0 /\ (1 - 1) % 12 = 0
  OBVIOUS
<1>3. W!Date(y, m, d) = March(YearOf(y, m)) + Offset(m) + d - 1
  BY <1>1 DEF W!Date, March, Offset, YearOf
<1>4. W!Date(y, 13, d) = W!Date(y + 1, 1, d)
  BY <1>2 DEF W!Date
<1> QED BY <1>3, <1>4

\* A number by its quotient and its remainder.
LEMMA ByFourHundred == \A y \in Int : y = 400 * (y \div 400) + (y % 400)
OBVIOUS

\* A year from March to March has 365 days, or 366 where its February has 29.
LEMMA YearLength ==
  ASSUME NEW y \in Nat \ {0}
  PROVE  /\ March(y - 1) \in Int /\ March(y) \in Int
         /\ March(y) = March(y - 1) + (IF Leap(y) THEN 366 ELSE 365)
<1>1. PICK q \in Nat, r \in 0..399 : y = 400 * q + r
  <2>1. y \in Int /\ y \div 400 \in Int /\ y % 400 \in 0..399
    OBVIOUS
  <2>2. y = 400 * (y \div 400) + (y % 400)
    BY <2>1, ByFourHundred
  <2>3. y \div 400 \in Nat
    BY <2>1, <2>2
  <2> QED BY <2>1, <2>2, <2>3
<1>2. y \div 400 = q /\ y % 400 = r
  BY <1>1
<1>3. y % 4 = r % 4 /\ y % 100 = r % 100
  BY <1>1
<1>4. CASE r > 0
  <2>1. (y - 1) \div 400 = q /\ (y - 1) % 400 = r - 1
    BY <1>1, <1>4
  <2>2. r \div 4 = (r - 1) \div 4 + (IF r % 4 = 0 THEN 1 ELSE 0)
    BY <1>4
  <2>3. r \div 100 = (r - 1) \div 100 + (IF r % 100 = 0 THEN 1 ELSE 0)
    BY <1>4
  <2>4. r % 100 = 0 => r % 4 = 0
    OBVIOUS
  <2> QED BY <1>2, <1>3, <1>4, <2>1, <2>2, <2>3, <2>4 DEF March, Leap
<1>5. CASE r = 0
  <2>1. (y - 1) \div 400 = q - 1 /\ (y - 1) % 400 = 399
    BY <1>1, <1>5
  <2>2. 399 \div 4 = 99 /\ 399 \div 100 = 3 /\ 0 \div 4 = 0 /\ 0 \div 100 = 0 /\ 0 % 4 = 0
    OBVIOUS
  <2> QED BY <1>2, <1>3, <1>5, <2>1, <2>2 DEF March, Leap
<1> QED BY <1>4, <1>5

\* The first days of the months, counted from March.
LEMMA Offsets ==
  /\ \A k \in 1..12 : Offset(k) \in Int
  /\ \A k \in 1..12 : k \notin {2, 12} => Offset(k + 1) = Offset(k) + (IF k \in {4, 6, 9, 11} THEN 30 ELSE 31)
  /\ Offset(1) = 306 /\ Offset(2) = 337 /\ Offset(3) = 0 /\ Offset(12) = 275
<1>1. /\ Offset(3) = 0 /\ Offset(4) = 31 /\ Offset(5) = 61 /\ Offset(6) = 92 /\ Offset(7) = 122 /\ Offset(8) = 153
      /\ Offset(9) = 184 /\ Offset(10) = 214 /\ Offset(11) = 245 /\ Offset(12) = 275 /\ Offset(1) = 306 /\ Offset(2) = 337
  BY DEF Offset
<1>2. ASSUME NEW k \in 1..12
      PROVE  Offset(k) \in Int /\ (k \notin {2, 12} => Offset(k + 1) = Offset(k) + (IF k \in {4, 6, 9, 11} THEN 30 ELSE 31))
  <2>1. k \in {1, 2, 3, 4, 5, 6} \/ k \in {7, 8, 9, 10, 11, 12}
    OBVIOUS
  <2>2. CASE k \in {1, 2, 3, 4, 5, 6}
    BY <1>1, <2>2
  <2>3. CASE k \in {7, 8, 9, 10, 11, 12}
    BY <1>1, <2>3
  <2> QED BY <2>1, <2>2, <2>3
<1> QED BY <1>1, <1>2

\* A month ends where the next one begins.
LEMMA MonthLength ==
  ASSUME NEW y \in Nat \ {0}, NEW m \in 1..12
  PROVE  /\ W!Date(y, m, 1) \in Int
         /\ W!Date(y, m + 1, 1) = W!Date(y, m, 1) + DaysIn(y, m)
         /\ \A d \in Int : W!Date(y, m, d) = W!Date(y, m, 1) + d - 1
<1>1. March(y - 1) \in Int /\ March(y) \in Int /\ March(y) = March(y - 1) + (IF Leap(y) THEN 366 ELSE 365)
  BY YearLength
<1>2. \A k \in 1..12 : \A d \in Int : W!Date(y, k, d) = March(YearOf(y, k)) + Offset(k) + d - 1
  BY DateIs
<1>3. W!Date(y, 13, 1) = March(YearOf(y + 1, 1)) + Offset(1) + 1 - 1
  BY DateIs
<1>4. /\ \A k \in 1..12 : Offset(k) \in Int
      /\ \A k \in 1..12 : k \notin {2, 12} => Offset(k + 1) = Offset(k) + (IF k \in {4, 6, 9, 11} THEN 30 ELSE 31)
      /\ Offset(1) = 306 /\ Offset(2) = 337 /\ Offset(3) = 0 /\ Offset(12) = 275
  BY Offsets
<1>5. YearOf(y + 1, 1) = y /\ \A k \in 1..12 : YearOf(y, k) = IF k <= 2 THEN y - 1 ELSE y
  BY DEF YearOf
<1>6. March(YearOf(y, m)) \in Int /\ Offset(m) \in Int
  BY <1>1, <1>4, <1>5
<1>7. W!Date(y, m + 1, 1) = W!Date(y, m, 1) + DaysIn(y, m)
  <2>1. CASE m = 2
    <3>1. W!Date(y, 3, 1) = March(y) + 0 + 1 - 1 /\ W!Date(y, 2, 1) = March(y - 1) + 337 + 1 - 1
      BY <1>2, <1>4, <1>5
    <3>2. W!Date(y, m + 1, 1) = W!Date(y, 3, 1) /\ DaysIn(y, m) = (IF Leap(y) THEN 29 ELSE 28)
      BY <2>1 DEF DaysIn
    <3> QED BY <1>1, <2>1, <3>1, <3>2
  <2>2. CASE m = 12
    BY <1>1, <1>2, <1>3, <1>4, <1>5, <2>2 DEF DaysIn
  <2>3. CASE m \notin {2, 12}
    <3>1. m + 1 \in 1..12 /\ YearOf(y, m + 1) = YearOf(y, m) /\ YearOf(y, m) \in {y - 1, y}
      BY <1>5, <2>3
    <3>2. W!Date(y, m + 1, 1) = March(YearOf(y, m)) + Offset(m + 1) + 1 - 1
      BY <1>2, <3>1
    <3>3. March(YearOf(y, m)) \in Int /\ Offset(m) \in Int /\ Offset(m + 1) = Offset(m) + DaysIn(y, m) /\ DaysIn(y, m) \in Int
      BY <1>1, <1>4, <2>3, <3>1 DEF DaysIn
    <3> QED BY <1>2, <3>2, <3>3
  <2> QED BY <2>1, <2>2, <2>3
<1>8. W!Date(y, m, 1) \in Int
  BY <1>2, <1>6
<1>9. \A d \in Int : W!Date(y, m, d) = W!Date(y, m, 1) + d - 1
  <2> SUFFICES ASSUME NEW d \in Int PROVE W!Date(y, m, d) = W!Date(y, m, 1) + d - 1
    OBVIOUS
  <2>1. W!Date(y, m, d) = March(YearOf(y, m)) + Offset(m) + d - 1 /\ W!Date(y, m, 1) = March(YearOf(y, m)) + Offset(m) + 1 - 1
    BY <1>2
  <2> QED BY <1>6, <2>1
<1> QED BY <1>7, <1>8, <1>9

\* The days before 1 March, without the cycle of 400 years.
LEMMA MarchClosed ==
  ASSUME NEW y \in Nat
  PROVE  /\ March(y) \in Int
         /\ March(y) = 365 * y + 24 * (y \div 100) + (y % 100) \div 4 + y \div 400
<1>1. PICK q \in Nat, r \in 0..399 : y = 400 * q + r
  <2>1. y \div 400 \in Int /\ y % 400 \in 0..399 /\ y = 400 * (y \div 400) + (y % 400)
    BY ByFourHundred
  <2>2. y \div 400 \in Nat
    BY <2>1
  <2> QED BY <2>1, <2>2
<1>2. y \div 400 = q /\ y % 400 = r
  BY <1>1
<1>3. PICK c \in 0..3, b \in 0..99 : r = 100 * c + b
  <2>1. r \div 100 \in 0..3 /\ r % 100 \in 0..99 /\ r = 100 * (r \div 100) + (r % 100)
    OBVIOUS
  <2> QED BY <2>1
<1>4. r \div 100 = c /\ y \div 100 = 4 * q + c /\ y % 100 = b
  BY <1>1, <1>3
<1>5. r \div 4 = 25 * c + b \div 4
  BY <1>3
<1>6. March(y) = q * 146097 + r * 365 + r \div 4 - r \div 100
  BY <1>2 DEF March
<1>7. b \div 4 \in Int
  OBVIOUS
<1> QED BY <1>1, <1>2, <1>3, <1>4, <1>5, <1>6, <1>7

\* Later years begin later, by 365 days for each year at least.
LEMMA YearsApart ==
  ASSUME NEW y \in Nat, NEW z \in Nat, y <= z
  PROVE  March(z) >= March(y) + 365 * (z - y)
<1>1. y \div 400 \in Int /\ z \div 400 \in Int /\ y \div 400 <= z \div 400
  OBVIOUS
<1>2. /\ y \div 100 \in Int /\ z \div 100 \in Int /\ y % 100 \in 0..99 /\ z % 100 \in 0..99
      /\ y = 100 * (y \div 100) + (y % 100) /\ z = 100 * (z \div 100) + (z % 100)
  OBVIOUS
<1>3. \A b \in 0..99 : b \div 4 \in 0..24
  OBVIOUS
<1>4. \A a, b \in 0..99 : a <= b => a \div 4 <= b \div 4
  OBVIOUS
<1>5. 24 * (y \div 100) + (y % 100) \div 4 <= 24 * (z \div 100) + (z % 100) \div 4
  <2>1. CASE y \div 100 = z \div 100
    BY <1>2, <1>3, <1>4, <2>1
  <2>2. CASE y \div 100 < z \div 100
    BY <1>2, <1>3, <2>2
  <2> QED BY <1>2, <2>1, <2>2
<1>6. (y % 100) \div 4 \in Int /\ (z % 100) \div 4 \in Int
  BY <1>2, <1>3
<1>7. /\ March(y) \in Int /\ March(y) = 365 * y + 24 * (y \div 100) + (y % 100) \div 4 + y \div 400
      /\ March(z) \in Int /\ March(z) = 365 * z + 24 * (z \div 100) + (z % 100) \div 4 + z \div 400
  <2>1. March(y) \in Int /\ March(y) = 365 * y + 24 * (y \div 100) + (y % 100) \div 4 + y \div 400
    BY MarchClosed
  <2>2. March(z) \in Int /\ March(z) = 365 * z + 24 * (z \div 100) + (z % 100) \div 4 + z \div 400
    BY MarchClosed
  <2> QED BY <2>1, <2>2
<1> DEFINE a == 24 * (y \div 100) + (y % 100) \div 4
           b == 24 * (z \div 100) + (z % 100) \div 4
           c == y \div 400
           d == z \div 400
<1>8. a \in Int /\ b \in Int /\ c \in Int /\ d \in Int /\ a <= b /\ c <= d
  BY <1>1, <1>2, <1>5, <1>6
<1>9. March(y) = 365 * y + a + c /\ March(z) = 365 * z + b + d
  BY <1>2, <1>6, <1>7
<1> HIDE DEF a, b, c, d
<1> QED BY <1>8, <1>9

\* A month is over before a later one begins.
LEMMA MonthsApart ==
  ASSUME NEW y \in Nat \ {0}, NEW m \in 1..12, NEW z \in Nat \ {0}, NEW n \in 1..12,
         y < z \/ (y = z /\ m < n)
  PROVE  W!Date(y, m, 1) + DaysIn(y, m) <= W!Date(z, n, 1)
<1>1. /\ March(y - 1) \in Int /\ March(y) \in Int /\ March(y) = March(y - 1) + (IF Leap(y) THEN 366 ELSE 365)
      /\ March(z - 1) \in Int /\ March(z) \in Int /\ March(z) = March(z - 1) + (IF Leap(z) THEN 366 ELSE 365)
  BY YearLength
<1>2. /\ \A k \in 1..12 : W!Date(y, k, 1) = March(YearOf(y, k)) + Offset(k) + 1 - 1
      /\ \A k \in 1..12 : W!Date(z, k, 1) = March(YearOf(z, k)) + Offset(k) + 1 - 1
  BY DateIs
<1>3. /\ Offset(3) = 0 /\ Offset(4) = 31 /\ Offset(5) = 61 /\ Offset(6) = 92 /\ Offset(7) = 122 /\ Offset(8) = 153
      /\ Offset(9) = 184 /\ Offset(10) = 214 /\ Offset(11) = 245 /\ Offset(12) = 275 /\ Offset(1) = 306 /\ Offset(2) = 337
  BY DEF Offset
<1>4. \A k \in 1..12 : YearOf(y, k) = (IF k <= 2 THEN y - 1 ELSE y) /\ YearOf(z, k) = (IF k <= 2 THEN z - 1 ELSE z)
  BY DEF YearOf
<1>5. m \in {1, 2, 3, 4, 5, 6, 7, 8, 9, 10, 11, 12} /\ n \in {1, 2, 3, 4, 5, 6, 7, 8, 9, 10, 11, 12}
  OBVIOUS
<1>6. CASE y = z /\ m < n
  BY <1>1, <1>2, <1>3, <1>4, <1>5, <1>6 DEF DaysIn
<1>7. CASE y < z
  <2>1. March(z - 1) >= March(y)
    <3>1. y \in Nat /\ z - 1 \in Nat /\ y <= z - 1 /\ 365 * ((z - 1) - y) >= 0
      BY <1>7
    <3> QED BY <1>1, <3>1, YearsApart
  <2>2. W!Date(y, m, 1) + DaysIn(y, m) <= March(y) + 306
    BY <1>1, <1>2, <1>3, <1>4, <1>5 DEF DaysIn
  <2>3. W!Date(z, n, 1) >= March(z - 1) + 306
    BY <1>1, <1>2, <1>3, <1>4, <1>5
  <2>4. W!Date(y, m, 1) \in Int /\ W!Date(z, n, 1) \in Int /\ DaysIn(y, m) \in Int
    <3>1. DaysIn(y, m) \in Int
      BY DEF DaysIn
    <3> QED BY <3>1, MonthLength
  <2> QED BY <1>1, <2>1, <2>2, <2>3, <2>4
<1> QED BY <1>6, <1>7

(***************************************************************************)
(* Windows.                                                                *)
(***************************************************************************)

\* at is in the window w.
Inside(at, w) == ~W!Before(W!InstantOf(at), w.start) /\ W!Before(W!InstantOf(at), w.end)

\* The day of a civil date.
DayOf(c) == W!Date(c.year, c.month, c.day)

\* A civil date is in its month.
LEMMA DayInMonth ==
  ASSUME NEW c, Civil(c)
  PROVE  /\ c.year \in Nat \ {0} /\ c.month \in 1..12 /\ c.sec \in Nat /\ c.sec < 86400 /\ c.day \in Int
         /\ DayOf(c) \in Int /\ W!Date(c.year, c.month, 1) \in Int /\ W!Date(c.year, c.month + 1, 1) \in Int
         /\ W!Date(c.year, c.month, 1) <= DayOf(c) /\ DayOf(c) < W!Date(c.year, c.month + 1, 1)
         /\ W!Date(c.year, c.month, c.day + 1) = DayOf(c) + 1
         /\ W!InstantOf(c).day = DayOf(c) /\ W!InstantOf(c).sec = c.sec /\ W!InstantOf(c).nano = c.nano /\ c.nano \in Nat
<1>1. c.year \in Nat \ {0} /\ c.month \in 1..12 /\ c.day \in 1..DaysIn(c.year, c.month)
  BY DEF Civil
<1>2. c.sec \in Nat /\ c.sec < 86400 /\ c.nano \in Nat
  BY DEF Civil
<1>3. DaysIn(c.year, c.month) \in Int
  BY DEF DaysIn
<1>4. c.day \in Int /\ c.day + 1 \in Int /\ 1 <= c.day /\ c.day <= DaysIn(c.year, c.month)
  BY <1>1, <1>3
<1>5. /\ W!Date(c.year, c.month, 1) \in Int
      /\ W!Date(c.year, c.month + 1, 1) = W!Date(c.year, c.month, 1) + DaysIn(c.year, c.month)
      /\ \A d \in Int : W!Date(c.year, c.month, d) = W!Date(c.year, c.month, 1) + d - 1
  BY <1>1, MonthLength, Zenon
<1>6. W!InstantOf(c).day = DayOf(c) /\ W!InstantOf(c).sec = c.sec /\ W!InstantOf(c).nano = c.nano
  BY DEF W!InstantOf, DayOf
<1>7. W!Date(c.year, c.month, c.day) = W!Date(c.year, c.month, 1) + c.day - 1
  BY <1>4, <1>5
<1>8. W!Date(c.year, c.month, c.day + 1) = W!Date(c.year, c.month, 1) + (c.day + 1) - 1
  BY <1>4, <1>5
<1>9. /\ DayOf(c) \in Int /\ W!Date(c.year, c.month + 1, 1) \in Int
      /\ W!Date(c.year, c.month, 1) <= DayOf(c) /\ DayOf(c) < W!Date(c.year, c.month + 1, 1)
      /\ W!Date(c.year, c.month, c.day + 1) = DayOf(c) + 1
  BY <1>3, <1>4, <1>5, <1>7, <1>8 DEF DayOf
<1> QED BY <1>1, <1>2, <1>4, <1>5, <1>6, <1>9

\* The first second of its minute or hour: windows of n seconds cut the day.
Low(n, x) == x - (x % n)

\* A second is in the window that begins at its first, which ends with the day at the
\* latest, and two seconds have the same one exactly when either is in the other's.
LEMMA CutSeconds ==
  ASSUME NEW n \in {60, 3600}, NEW x \in Nat, x < 86400, NEW y \in Nat, y < 86400
  PROVE  /\ Low(n, x) \in Nat /\ Low(n, x) <= x /\ x < Low(n, x) + n /\ Low(n, x) + n <= 86400
         /\ (Low(n, x) <= y /\ y < Low(n, x) + n) <=> Low(n, x) = Low(n, y)
<1>1. CASE n = 60
  <2>1. PICK k \in Nat, r \in 0..59 : x = 60 * k + r /\ x % 60 = r
    <3>1. x \div 60 \in Nat /\ x % 60 \in 0..59 /\ x = 60 * (x \div 60) + (x % 60)
      OBVIOUS
    <3> QED BY <3>1
  <2>2. PICK j \in Nat, s \in 0..59 : y = 60 * j + s /\ y % 60 = s
    <3>1. y \div 60 \in Nat /\ y % 60 \in 0..59 /\ y = 60 * (y \div 60) + (y % 60)
      OBVIOUS
    <3> QED BY <3>1
  <2>3. Low(n, x) = 60 * k /\ Low(n, y) = 60 * j
    BY <1>1, <2>1, <2>2 DEF Low
  <2> QED BY <1>1, <2>1, <2>2, <2>3
<1>2. CASE n = 3600
  <2>1. PICK k \in Nat, r \in Nat : x = 3600 * k + r /\ x % 3600 = r /\ r < 3600
    <3>1. x \div 3600 \in Nat /\ x % 3600 \in Nat /\ x % 3600 < 3600 /\ x = 3600 * (x \div 3600) + (x % 3600)
      OBVIOUS
    <3> QED BY <3>1
  <2>2. PICK j \in Nat, s \in Nat : y = 3600 * j + s /\ y % 3600 = s /\ s < 3600
    <3>1. y \div 3600 \in Nat /\ y % 3600 \in Nat /\ y % 3600 < 3600 /\ y = 3600 * (y \div 3600) + (y % 3600)
      OBVIOUS
    <3> QED BY <3>1
  <2>3. Low(n, x) = 3600 * k /\ Low(n, y) = 3600 * j
    BY <1>2, <2>1, <2>2 DEF Low
  <2> QED BY <1>2, <2>1, <2>2, <2>3
<1> QED BY <1>1, <1>2

\* Windows of n seconds, where n divides the day.
Cut(c, n) == [start |-> W!Truncate(W!InstantOf(c), n), end |-> W!Add(W!Truncate(W!InstantOf(c), n), n)]

\* An instant is in the window of n seconds it is cut to, and in another's exactly when
\* they are the same.
LEMMA CutTiles ==
  ASSUME NEW a, Civil(a), NEW b, Civil(b), NEW n \in {60, 3600}
  PROVE  /\ Inside(a, Cut(a, n))
         /\ Inside(b, Cut(a, n)) <=> Cut(a, n) = Cut(b, n)
<1>1. /\ a.sec \in Nat /\ a.sec < 86400 /\ DayOf(a) \in Int /\ W!InstantOf(a).day = DayOf(a) /\ W!InstantOf(a).sec = a.sec
      /\ W!InstantOf(a).nano = a.nano /\ a.nano \in Nat
      /\ b.sec \in Nat /\ b.sec < 86400 /\ DayOf(b) \in Int /\ W!InstantOf(b).day = DayOf(b) /\ W!InstantOf(b).sec = b.sec
      /\ W!InstantOf(b).nano = b.nano /\ b.nano \in Nat
  BY DayInMonth
<1> DEFINE low(x) == Low(n, x)
<1>2. /\ low(a.sec) \in Nat /\ low(a.sec) <= a.sec /\ a.sec < low(a.sec) + n /\ low(a.sec) + n <= 86400
      /\ low(b.sec) \in Nat /\ low(b.sec) <= b.sec /\ b.sec < low(b.sec) + n /\ low(b.sec) + n <= 86400
      /\ (low(a.sec) <= b.sec /\ b.sec < low(a.sec) + n) <=> low(a.sec) = low(b.sec)
  BY <1>1, CutSeconds
<1>3. /\ Cut(a, n).start = W!Instant(DayOf(a), low(a.sec))
      /\ Cut(a, n).end = W!Instant(DayOf(a) + (low(a.sec) + n) \div 86400, (low(a.sec) + n) % 86400)
      /\ Cut(b, n).start = W!Instant(DayOf(b), low(b.sec))
      /\ Cut(b, n).end = W!Instant(DayOf(b) + (low(b.sec) + n) \div 86400, (low(b.sec) + n) % 86400)
  BY <1>1 DEF Cut, Low, W!Truncate, W!Add, W!Instant
<1> HIDE DEF low
<1>4. \A x \in Nat : x <= 86400 => x \div 86400 = (IF x = 86400 THEN 1 ELSE 0) /\ x % 86400 = (IF x = 86400 THEN 0 ELSE x)
  OBVIOUS
<1>5. /\ Cut(a, n).end = IF low(a.sec) + n = 86400 THEN W!Instant(DayOf(a) + 1, 0) ELSE W!Instant(DayOf(a), low(a.sec) + n)
      /\ Cut(b, n).end = IF low(b.sec) + n = 86400 THEN W!Instant(DayOf(b) + 1, 0) ELSE W!Instant(DayOf(b), low(b.sec) + n)
  BY <1>1, <1>2, <1>3, <1>4
<1>6. /\ Inside(a, Cut(a, n)) <=> low(a.sec) <= a.sec /\ a.sec < low(a.sec) + n
      /\ Inside(b, Cut(a, n)) <=> DayOf(a) = DayOf(b) /\ low(a.sec) <= b.sec /\ b.sec < low(a.sec) + n
  <2>1. CASE low(a.sec) + n = 86400
    BY <1>1, <1>2, <1>3, <1>5, <2>1 DEF Inside, W!Before, W!Instant
  <2>2. CASE low(a.sec) + n # 86400
    BY <1>1, <1>2, <1>3, <1>5, <2>2 DEF Inside, W!Before, W!Instant
  <2> QED BY <2>1, <2>2
<1>7. Cut(a, n) = Cut(b, n) <=> DayOf(a) = DayOf(b) /\ low(a.sec) = low(b.sec)
  <2>1. Cut(a, n) = Cut(b, n) => DayOf(a) = DayOf(b) /\ low(a.sec) = low(b.sec)
    BY <1>3 DEF W!Instant
  <2>2. ASSUME DayOf(a) = DayOf(b), low(a.sec) = low(b.sec) PROVE Cut(a, n) = Cut(b, n)
    <3>1. Cut(a, n).start = Cut(b, n).start /\ Cut(a, n).end = Cut(b, n).end
      BY <1>3, <1>5, <2>2
    <3>2. Cut(a, n) = [start |-> Cut(a, n).start, end |-> Cut(a, n).end] /\ Cut(b, n) = [start |-> Cut(b, n).start, end |-> Cut(b, n).end]
      BY DEF Cut
    <3> QED BY <3>1, <3>2
  <2> QED BY <2>1, <2>2
<1> QED BY <1>2, <1>6, <1>7

\* The kinds of window that the clock cuts.
Clocks == {"minute", "hour", "day", "month"}

\* The windows of a clock kind tile time.
LEMMA ClockTiles ==
  ASSUME NEW a, Civil(a), NEW b, Civil(b), NEW kind \in Clocks
  PROVE  /\ W!ClockWindow(kind, a).kind = kind
         /\ Inside(a, W!ClockWindow(kind, a))
         /\ Inside(b, W!ClockWindow(kind, a)) <=> W!ClockWindow(kind, a) = W!ClockWindow(kind, b)
<1>1. /\ a.year \in Nat \ {0} /\ a.month \in 1..12 /\ a.sec \in Nat /\ a.sec < 86400 /\ a.nano \in Nat /\ a.day \in Int
      /\ DayOf(a) \in Int /\ W!Date(a.year, a.month, 1) \in Int /\ W!Date(a.year, a.month + 1, 1) \in Int
      /\ W!Date(a.year, a.month, 1) <= DayOf(a) /\ DayOf(a) < W!Date(a.year, a.month + 1, 1)
      /\ W!Date(a.year, a.month, a.day + 1) = DayOf(a) + 1
      /\ W!InstantOf(a).day = DayOf(a) /\ W!InstantOf(a).sec = a.sec
      /\ W!InstantOf(a).nano = a.nano /\ a.nano \in Nat
  BY DayInMonth
<1>2. /\ b.year \in Nat \ {0} /\ b.month \in 1..12 /\ b.sec \in Nat /\ b.sec < 86400 /\ b.nano \in Nat /\ b.day \in Int
      /\ DayOf(b) \in Int /\ W!Date(b.year, b.month, 1) \in Int /\ W!Date(b.year, b.month + 1, 1) \in Int
      /\ W!Date(b.year, b.month, 1) <= DayOf(b) /\ DayOf(b) < W!Date(b.year, b.month + 1, 1)
      /\ W!Date(b.year, b.month, b.day + 1) = DayOf(b) + 1
      /\ W!InstantOf(b).day = DayOf(b) /\ W!InstantOf(b).sec = b.sec
      /\ W!InstantOf(b).nano = b.nano /\ b.nano \in Nat
  BY DayInMonth
<1> DEFINE w == W!ClockWindow(kind, a)
           v == W!ClockWindow(kind, b)
<1>3. CASE kind \in {"minute", "hour"}
  <2> DEFINE n == IF kind = "minute" THEN 60 ELSE 3600
  <2>1. /\ w = [kind |-> kind, start |-> Cut(a, n).start, end |-> Cut(a, n).end]
        /\ v = [kind |-> kind, start |-> Cut(b, n).start, end |-> Cut(b, n).end]
    BY <1>3 DEF W!ClockWindow, W!Window, Cut
  <2>2. w = v <=> Cut(a, n).start = Cut(b, n).start /\ Cut(a, n).end = Cut(b, n).end
    BY <2>1
  <2>3. Cut(a, n) = Cut(b, n) <=> Cut(a, n).start = Cut(b, n).start /\ Cut(a, n).end = Cut(b, n).end
    BY DEF Cut
  <2>4. /\ Inside(a, w) <=> Inside(a, Cut(a, n))
        /\ Inside(b, w) <=> Inside(b, Cut(a, n))
    BY <2>1 DEF Inside
  <2>5. w.kind = kind
    BY <2>1
  <2>6. n \in {60, 3600}
    OBVIOUS
  <2> HIDE DEF n, w, v
  <2>7. Inside(a, Cut(a, n)) /\ (Inside(b, Cut(a, n)) <=> Cut(a, n) = Cut(b, n))
    BY <2>6, CutTiles
  <2> QED BY <2>2, <2>3, <2>4, <2>5, <2>7 DEF w, v
<1>4. CASE kind = "day"
  <2>1. /\ w = [kind |-> kind, start |-> W!Instant(DayOf(a), 0), end |-> W!Instant(DayOf(a) + 1, 0)]
        /\ v = [kind |-> kind, start |-> W!Instant(DayOf(b), 0), end |-> W!Instant(DayOf(b) + 1, 0)]
    BY <1>1, <1>2, <1>4 DEF W!ClockWindow, W!Window, DayOf
  <2> HIDE DEF w, v
  <2>2. Inside(a, w) /\ (Inside(b, w) <=> DayOf(a) = DayOf(b))
    BY <1>1, <1>2, <2>1 DEF Inside, W!Before, W!Instant
  <2>3. w = v <=> DayOf(a) = DayOf(b)
    BY <2>1 DEF W!Instant
  <2> QED BY <2>1, <2>2, <2>3 DEF w, v
<1>5. CASE kind = "month"
  <2> DEFINE s == W!Date(a.year, a.month, 1)
             e == W!Date(a.year, a.month + 1, 1)
             t == W!Date(b.year, b.month, 1)
             f == W!Date(b.year, b.month + 1, 1)
  <2>1. /\ w = [kind |-> kind, start |-> W!Instant(s, 0), end |-> W!Instant(e, 0)]
        /\ v = [kind |-> kind, start |-> W!Instant(t, 0), end |-> W!Instant(f, 0)]
    BY <1>5 DEF W!ClockWindow, W!Window, W!EndOfMonth
  <2>2. (a.year = b.year /\ a.month = b.month => s = t /\ e = f) /\ (a.year # b.year \/ a.month # b.month => e <= t \/ f <= s)
    <3>0. a.year \in Nat \ {0} /\ a.month \in 1..12 /\ b.year \in Nat \ {0} /\ b.month \in 1..12
      BY <1>1, <1>2
    <3>1. e = s + DaysIn(a.year, a.month) /\ f = t + DaysIn(b.year, b.month)
      BY <3>0, MonthLength, Zenon
    <3>2. a.year < b.year \/ (a.year = b.year /\ a.month < b.month) => e <= t
      BY <3>0, <3>1, MonthsApart, Zenon
    <3>3. b.year < a.year \/ (b.year = a.year /\ b.month < a.month) => f <= s
      BY <3>0, <3>1, MonthsApart, Zenon
    <3>4. \/ a.year = b.year /\ a.month = b.month
          \/ a.year < b.year \/ (a.year = b.year /\ a.month < b.month)
          \/ b.year < a.year \/ (b.year = a.year /\ b.month < a.month)
      BY <1>1, <1>2
    <3> QED BY <3>2, <3>3, <3>4
  <2>3. /\ s \in Int /\ e \in Int /\ s <= DayOf(a) /\ DayOf(a) < e
        /\ t \in Int /\ f \in Int /\ t <= DayOf(b) /\ DayOf(b) < f
    BY <1>1, <1>2
  <2> HIDE DEF w, v, s, e, t, f
  <2>4. Inside(a, w) /\ (Inside(b, w) <=> s <= DayOf(b) /\ DayOf(b) < e)
    BY <1>1, <1>2, <2>1, <2>3 DEF Inside, W!Before, W!Instant
  <2>5. w = v <=> s = t /\ e = f
    BY <2>1 DEF W!Instant
  <2>6. s <= DayOf(b) /\ DayOf(b) < e <=> s = t /\ e = f
    BY <1>2, <2>2, <2>3
  <2> QED BY <2>1, <2>4, <2>5, <2>6 DEF w, v
<1> QED BY <1>3, <1>4, <1>5 DEF Clocks

\* A set of quotas that is accepted has one quota of each of its kinds, each of them valid.
LEMMA ValidSet ==
  ASSUME NEW i \in WindowInputs, NEW qs \in W!validQuotaSet(i.set)
  PROVE  /\ \A q \in qs : W!Validate(q) /\ q.kind \in Clocks \cup {"period"}
         /\ \A q \in qs : \E n \in DOMAIN i.set : q = W!validQuota(i.set[n]) /\ q.kind = i.set[n].kind
         /\ \A q, r \in qs : q.kind = r.kind => q = r
         /\ {q.kind : q \in qs} = {i.set[n].kind : n \in DOMAIN i.set}
         /\ \A m, n \in DOMAIN i.set : i.set[m].kind = i.set[n].kind => m = n
<1> DEFINE set == i.set
<1>1. /\ qs = {W!validQuota(set[n]) : n \in DOMAIN set}
      /\ \A q \in qs : W!Validate(q)
      /\ \A m, n \in DOMAIN set : set[m].kind = set[n].kind => m = n
  BY DEF W!validQuotaSet
<1>2. \A n \in DOMAIN set : DOMAIN set[n] = {"kind", "period", "maxCost", "onExceed"}
  BY StatelessAssumption DEF QuotaInput
<1>3. \A n \in DOMAIN set : W!validQuota(set[n]).kind = set[n].kind
  BY <1>2 DEF W!validQuota
<1>4. \A q \in qs : q.kind \in Clocks \cup {"period"}
  <2> TAKE q \in qs
  <2>1. W!Valid(q.kind)
    BY <1>1 DEF W!Validate
  <2>2. \A n \in DOMAIN W!WindowKinds : W!WindowKinds[n] \in Clocks \cup {"period"}
    <3>1. DOMAIN W!WindowKinds = 1..5
      BY DEF W!WindowKinds
    <3> QED BY <3>1 DEF W!WindowKinds, Clocks
  <2> QED BY <2>1, <2>2 DEF W!Valid
<1> HIDE DEF set
<1>5. \A q \in qs : \E n \in DOMAIN set : q = W!validQuota(set[n]) /\ q.kind = set[n].kind
  BY <1>1, <1>3
<1>6. \A q, r \in qs : q.kind = r.kind => q = r
  BY <1>1, <1>5
<1>7. {q.kind : q \in qs} = {set[n].kind : n \in DOMAIN set}
  <2>1. ASSUME NEW n \in DOMAIN set PROVE \E q \in qs : q.kind = set[n].kind
    BY <1>1, <1>3
  <2> QED BY <1>5, <2>1
<1> QED BY <1>1, <1>4, <1>5, <1>6, <1>7 DEF set

\* What WindowsTile says of an input and a result.
Tiles(i, o) ==
  /\ \A l \in o.a : Inside(i.a, l.window)
  /\ \A l \in o.a, m \in o.b : l.window.kind = m.window.kind => (Inside(i.b, l.window) <=> l.window = m.window)
  /\ \A qs \in o.set :
       o.rows = {} <=> \E q \in qs : q.kind = "period" /\ W!Micros(q.period[1]) = W!Micros(q.period[2])
  /\ \A rows \in o.rows :
       /\ Cardinality({row.kind : row \in rows}) = Len(i.set)
       /\ {row.kind : row \in rows} \ {"period"} \subseteq {l.window.kind : l \in o.a}

\* Cutting keeps the order of two times, but for those it makes one.
LEMMA CutOrder ==
  ASSUME NEW x \in Nat, NEW y \in Nat
  PROVE  /\ x - (x % 1000) \in Nat /\ y - (y % 1000) \in Nat
         /\ x < y => x - (x % 1000) <= y - (y % 1000)
<1>1. PICK k \in Nat, r \in Nat : x = 1000 * k + r /\ x % 1000 = r /\ r < 1000
  <2>1. x \div 1000 \in Nat /\ x % 1000 \in Nat /\ x % 1000 < 1000 /\ x = 1000 * (x \div 1000) + (x % 1000)
    OBVIOUS
  <2> QED BY <2>1
<1>2. PICK j \in Nat, t \in Nat : y = 1000 * j + t /\ y % 1000 = t /\ t < 1000
  <2>1. y \div 1000 \in Nat /\ y % 1000 \in Nat /\ y % 1000 < 1000 /\ y = 1000 * (y \div 1000) + (y % 1000)
    OBVIOUS
  <2> QED BY <2>1
<1> QED BY <1>1, <1>2

\* Two instants in order are in order when stored, unless they are then the same.
LEMMA MicrosOrder ==
  ASSUME NEW a \in [day : Int, sec : Nat, nano : Nat], NEW b \in [day : Int, sec : Nat, nano : Nat], W!Before(a, b)
  PROVE  W!Before(W!Micros(a), W!Micros(b)) <=> W!Micros(a) # W!Micros(b)
<1> DEFINE x == a.nano - (a.nano % 1000)
           y == b.nano - (b.nano % 1000)
<1>1. x \in Nat /\ y \in Nat /\ (a.nano < b.nano => x <= y)
  BY CutOrder
<1>2. /\ W!Micros(a) = [day |-> a.day, sec |-> a.sec, nano |-> x]
      /\ W!Micros(b) = [day |-> b.day, sec |-> b.sec, nano |-> y]
  BY DEF W!Micros
<1> HIDE DEF x, y
<1>3. W!Micros(a) = W!Micros(b) <=> a.day = b.day /\ a.sec = b.sec /\ x = y
  BY <1>2
<1>4. W!Before(W!Micros(a), W!Micros(b)) <=>
        a.day < b.day \/ (a.day = b.day /\ a.sec < b.sec) \/ (a.day = b.day /\ a.sec = b.sec /\ x < y)
  BY <1>2 DEF W!Before
<1>5. a.day < b.day \/ (a.day = b.day /\ a.sec < b.sec) \/ (a.day = b.day /\ a.sec = b.sec /\ a.nano < b.nano)
  BY DEF W!Before
<1> QED BY <1>1, <1>3, <1>4, <1>5

\* The row of a valid quota has its kind, and the table takes it unless it is a period
\* within a microsecond.
LEMMA RowOf ==
  ASSUME NEW i \in WindowInputs, NEW qs \in W!validQuotaSet(i.set), NEW q \in qs
  PROVE  /\ W!Stored(q).kind = q.kind
         /\ W!QuotasTableCheck(W!Stored(q)) <=> ~(q.kind = "period" /\ W!Micros(q.period[1]) = W!Micros(q.period[2]))
<1>1. W!Validate(q)
  BY ValidSet
<1>2. PICK n \in DOMAIN i.set : q = W!validQuota(i.set[n])
  BY ValidSet
<1>3. QuotaInput(i.set[n])
  BY StatelessAssumption
<1>4. /\ DOMAIN q = {"kind", "period", "maxCost", "onExceed"}
      /\ q.period = i.set[n].period
  BY <1>2, <1>3 DEF QuotaInput, W!validQuota
<1>5. IsSeq(q.period) /\ \A m \in DOMAIN q.period : q.period[m] \in [day : Int, sec : Nat, nano : Nat]
  BY <1>3, <1>4 DEF QuotaInput
<1> DEFINE p == W!Stored(q).period
<1>6. /\ W!Stored(q).kind = q.kind /\ W!Stored(q).maxCost = q.maxCost
      /\ p = [m \in DOMAIN q.period |-> W!Micros(q.period[m])]
  BY <1>4 DEF W!Stored
<1>7. Len(q.period) \in Nat /\ DOMAIN q.period = 1..Len(q.period)
  <2>1. q.period \in Seq({q.period[m] : m \in DOMAIN q.period})
    BY <1>5 DEF IsSeq
  <2> QED BY <2>1
<1>8. Len(p) = Len(q.period)
  <2>1. p \in Seq({W!Micros(q.period[m]) : m \in DOMAIN q.period}) /\ DOMAIN p = 1..Len(q.period)
    BY <1>6, <1>7
  <2> QED BY <1>7, <2>1
<1> HIDE DEF p
<1>9. q.maxCost >= 0
  BY <1>1 DEF W!Validate
<1>10. CASE q.kind = "period"
  <2>1. Len(q.period) = 2 /\ W!Before(q.period[1], q.period[2])
    BY <1>1, <1>10 DEF W!Validate
  <2>2. 1 \in DOMAIN q.period /\ 2 \in DOMAIN q.period
    BY <1>7, <2>1
  <2>3. p[1] = W!Micros(q.period[1]) /\ p[2] = W!Micros(q.period[2])
    BY <1>6, <2>2
  <2>4. W!Before(p[1], p[2]) <=> p[1] # p[2]
    BY <1>5, <2>1, <2>2, <2>3, MicrosOrder
  <2>5. W!QuotasTableCheck(W!Stored(q)) <=> W!Before(p[1], p[2])
    BY <1>6, <1>8, <1>9, <1>10, <2>1 DEF W!QuotasTableCheck, p
  <2> QED BY <1>6, <1>10, <2>3, <2>4, <2>5
<1>11. CASE q.kind # "period"
  <2>1. q.period = <<>>
    BY <1>1, <1>11 DEF W!Validate
  <2>2. Len(q.period) # 2
    BY <2>1
  <2>3. W!QuotasTableCheck(W!Stored(q))
    BY <1>6, <1>8, <1>9, <1>11, <2>2 DEF W!QuotasTableCheck, p
  <2> QED BY <1>6, <1>11, <2>3
<1> QED BY <1>10, <1>11

\* What is stored is an accepted set, row by row, and a set is not stored exactly when
\* one of its periods is within a microsecond.
LEMMA RowsOf ==
  ASSUME NEW i \in WindowInputs
  PROVE  /\ \A rows \in W!ReplaceQuotas(i.set) : \E qs \in W!validQuotaSet(i.set) : rows = {W!Stored(q) : q \in qs}
         /\ \A qs \in W!validQuotaSet(i.set) :
              W!ReplaceQuotas(i.set) = {} <=> \E q \in qs : q.kind = "period" /\ W!Micros(q.period[1]) = W!Micros(q.period[2])
<1>1. \A rows : rows \in W!ReplaceQuotas(i.set) <=>
        \E qs \in W!validQuotaSet(i.set) : rows = {W!Stored(q) : q \in qs} /\ \A row \in rows : W!QuotasTableCheck(row)
  BY DEF W!ReplaceQuotas
<1>2. ASSUME NEW qs \in W!validQuotaSet(i.set)
      PROVE  W!ReplaceQuotas(i.set) = {} <=> \E q \in qs : q.kind = "period" /\ W!Micros(q.period[1]) = W!Micros(q.period[2])
  <2>1. \A rs \in W!validQuotaSet(i.set) : rs = qs
    BY DEF W!validQuotaSet
  <2>2. W!ReplaceQuotas(i.set) = {} <=> \E row \in {W!Stored(q) : q \in qs} : ~W!QuotasTableCheck(row)
    BY <1>1, <2>1
  <2>3. \A q \in qs : ~W!QuotasTableCheck(W!Stored(q)) <=> q.kind = "period" /\ W!Micros(q.period[1]) = W!Micros(q.period[2])
    BY RowOf
  <2> QED BY <2>2, <2>3
<1> QED BY <1>1, <1>2

\* A limit that applies is set by a quota of the set, in that quota's window.
LEMMA LimitOf ==
  ASSUME NEW i \in WindowInputs, NEW c,
         NEW l \in UNION {W!ApplicableLimits(qs, c) : qs \in W!ReplaceQuotas(i.set)}
  PROVE  \E qs \in W!ReplaceQuotas(i.set) : \E q \in qs : l.window \in W!WindowAt(q, c)
<1>1. PICK qs \in W!ReplaceQuotas(i.set) : l \in W!ApplicableLimits(qs, c)
  OBVIOUS
<1>2. PICK q \in qs : l \in {[window |-> w, maxCost |-> q.maxCost, block |-> W!Blocks(q)] : w \in W!WindowAt(q, c)}
  BY <1>1 DEF W!ApplicableLimits
<1> QED BY <1>1, <1>2

\* The window of a quota: the clock's, or its own period where the instant is in it.
LEMMA WindowOf ==
  ASSUME NEW c, NEW q, q.kind \in Clocks \cup {"period"}, NEW w \in W!WindowAt(q, c)
  PROVE  /\ q.kind \in Clocks => w = W!ClockWindow(q.kind, c)
         /\ q.kind = "period" => w = W!Window("period", q.period[1], q.period[2]) /\ Inside(c, w)
<1>1. CASE q.kind \in Clocks
  BY <1>1 DEF W!WindowAt, Clocks
<1>2. CASE q.kind = "period"
  <2>1. w = W!Window("period", q.period[1], q.period[2])
    BY <1>2 DEF W!WindowAt
  <2>2. ~W!Before(W!InstantOf(c), q.period[1]) /\ W!Before(W!InstantOf(c), q.period[2])
    BY <1>2 DEF W!WindowAt
  <2>3. w.start = q.period[1] /\ w.end = q.period[2]
    BY <2>1 DEF W!Window
  <2> QED BY <1>2, <2>1, <2>2, <2>3 DEF Inside, Clocks
<1> QED BY <1>1, <1>2

\* Two limits of one kind, at two instants, count in one window exactly when the second
\* instant is in the window of the first.
LEMMA ResolvedTiles ==
  ASSUME NEW i \in WindowInputs
  PROVE  Tiles(i, Resolved(i))
<1> DEFINE o == Resolved(i)
<1>1. Civil(i.a) /\ Civil(i.b) /\ IsSeq(i.set)
  BY StatelessAssumption
<1>2. /\ o.set = W!validQuotaSet(i.set) /\ o.rows = W!ReplaceQuotas(i.set)
      /\ o.a = UNION {W!ApplicableLimits(qs, i.a) : qs \in W!ReplaceQuotas(i.set)}
      /\ o.b = UNION {W!ApplicableLimits(qs, i.b) : qs \in W!ReplaceQuotas(i.set)}
  BY DEF Resolved
<1> HIDE DEF o
<1>3. \A qs \in o.rows : \A q \in qs : q.kind \in Clocks \cup {"period"}
  <2>1. SUFFICES ASSUME NEW qs \in o.rows, NEW q \in qs PROVE q.kind \in Clocks \cup {"period"}
    OBVIOUS
  <2>2. PICK vs \in W!validQuotaSet(i.set) : qs = {W!Stored(v) : v \in vs}
    BY <1>2, RowsOf
  <2>3. PICK v \in vs : q = W!Stored(v)
    BY <2>2
  <2>4. q.kind = v.kind
    BY <2>3, RowOf
  <2> QED BY <2>4, ValidSet
<1>4. \A qs, rs \in o.rows : qs = rs
  <2>1. \A vs, us \in W!validQuotaSet(i.set) : vs = us
    BY DEF W!validQuotaSet
  <2>2. \A rows \in o.rows : \E vs \in W!validQuotaSet(i.set) : rows = {W!Stored(v) : v \in vs}
    BY <1>2, RowsOf
  <2> QED BY <2>1, <2>2
<1>5. \A l \in o.a : \E qs \in o.rows : \E q \in qs : l.window \in W!WindowAt(q, i.a)
  BY <1>2, LimitOf
<1>6. \A l \in o.b : \E qs \in o.rows : \E q \in qs : l.window \in W!WindowAt(q, i.b)
  BY <1>2, LimitOf
<1>7. \A qs \in o.rows : \A q, r \in qs : q.kind = r.kind => q = r
  <2>1. SUFFICES ASSUME NEW qs \in o.rows, NEW q \in qs, NEW r \in qs, q.kind = r.kind PROVE q = r
    OBVIOUS
  <2>2. PICK vs \in W!validQuotaSet(i.set) : qs = {W!Stored(v) : v \in vs}
    BY <1>2, RowsOf
  <2>3. PICK v \in vs : q = W!Stored(v)
    BY <2>2
  <2>4. PICK u \in vs : r = W!Stored(u)
    BY <2>2
  <2>5. q.kind = v.kind /\ r.kind = u.kind
    BY <2>3, <2>4, RowOf
  <2>6. u = v
    <3>1. \A x, y \in vs : x.kind = y.kind => x = y
      BY ValidSet
    <3> QED BY <2>1, <2>5, <3>1
  <2> QED BY <2>3, <2>4, <2>6
<1>8. ASSUME NEW c, Civil(c), NEW qs \in o.rows, NEW q \in qs, NEW w \in W!WindowAt(q, c)
      PROVE  w.kind = q.kind /\ Inside(c, w)
  <2>1. q.kind \in Clocks \cup {"period"}
    BY <1>3
  <2>2. CASE q.kind \in Clocks
    BY <1>8, <2>1, <2>2, WindowOf, ClockTiles
  <2>3. CASE q.kind = "period"
    BY <2>1, <2>3, WindowOf DEF W!Window
  <2> QED BY <2>1, <2>2, <2>3
<1>9. ASSUME NEW l \in o.a PROVE Inside(i.a, l.window)
  <2>1. PICK qs \in o.rows : \E q \in qs : l.window \in W!WindowAt(q, i.a)
    BY <1>5
  <2>2. PICK q \in qs : l.window \in W!WindowAt(q, i.a)
    BY <2>1
  <2> QED BY <1>1, <1>8, <2>1, <2>2
<1>10. ASSUME NEW l \in o.a, NEW m \in o.b, l.window.kind = m.window.kind
       PROVE  Inside(i.b, l.window) <=> l.window = m.window
  <2>1. PICK qs \in o.rows : \E q \in qs : l.window \in W!WindowAt(q, i.a)
    BY <1>5
  <2>2. PICK q \in qs : l.window \in W!WindowAt(q, i.a)
    BY <2>1
  <2>3. PICK rs \in o.rows : \E r \in rs : m.window \in W!WindowAt(r, i.b)
    BY <1>6
  <2>4. PICK r \in rs : m.window \in W!WindowAt(r, i.b)
    BY <2>3
  <2>5. l.window.kind = q.kind /\ m.window.kind = r.kind /\ Inside(i.b, m.window)
    BY <1>1, <1>8, <2>1, <2>2, <2>3, <2>4
  <2>6. qs = rs
    BY <1>4
  <2>7. q = r
    BY <1>7, <1>10, <2>5, <2>6
  <2>8. q.kind \in Clocks \cup {"period"}
    BY <1>3
  <2>9. CASE q.kind \in Clocks
    <3>1. l.window = W!ClockWindow(q.kind, i.a) /\ m.window = W!ClockWindow(q.kind, i.b)
      BY <2>2, <2>4, <2>7, <2>8, <2>9, WindowOf
    <3> QED BY <1>1, <2>9, <3>1, ClockTiles
  <2>10. CASE q.kind = "period"
    <3>1. l.window = m.window
      BY <2>2, <2>4, <2>7, <2>8, <2>10, WindowOf
    <3> QED BY <2>5, <3>1
  <2> QED BY <2>8, <2>9, <2>10
<1>11. ASSUME NEW qs \in o.rows
       PROVE  /\ Cardinality({q.kind : q \in qs}) = Len(i.set)
              /\ {q.kind : q \in qs} \ {"period"} \subseteq {l.window.kind : l \in o.a}
  <2>1. PICK vs \in W!validQuotaSet(i.set) : qs = {W!Stored(v) : v \in vs}
    BY <1>2, <1>11, RowsOf
  <2>2. Cardinality({q.kind : q \in qs}) = Len(i.set)
    <3> DEFINE n == Len(i.set)
               K == {q.kind : q \in qs}
               f == [x \in 1..n |-> i.set[x].kind]
    <3>1. n \in Nat /\ DOMAIN i.set = 1..n
      <4>1. i.set \in Seq({i.set[x] : x \in DOMAIN i.set})
        BY <1>1 DEF IsSeq
      <4> QED BY <4>1
    <3>2. K = {i.set[x].kind : x \in 1..n} /\ \A x, y \in 1..n : i.set[x].kind = i.set[y].kind => x = y
      <4>1. /\ {v.kind : v \in vs} = {i.set[x].kind : x \in DOMAIN i.set}
            /\ \A x, y \in DOMAIN i.set : i.set[x].kind = i.set[y].kind => x = y
        BY ValidSet
      <4>2. \A v \in vs : W!Stored(v).kind = v.kind
        BY RowOf
      <4>3. K = {v.kind : v \in vs}
        BY <2>1, <4>2
      <4> QED BY <3>1, <4>1, <4>3
    <3> HIDE DEF n, K
    <3>3. f \in Bijection(1..n, K)
      <4>1. f \in [1..n -> K] /\ \A x, y \in 1..n : f[x] = f[y] => x = y
        BY <3>2
      <4>2. \A k \in K : \E x \in 1..n : f[x] = k
        BY <3>2
      <4>3. f \in Injection(1..n, K)
        BY <4>1 DEF Injection, IsInjective
      <4>4. f \in Surjection(1..n, K)
        BY <4>1, <4>2 DEF Surjection
      <4> QED BY <4>3, <4>4 DEF Bijection
    <3>4. ExistsBijection(1..n, K)
      BY <3>3 DEF ExistsBijection
    <3>5. Cardinality(K) = n
      BY <3>1, <3>4, FS_CountingElements
    <3> QED BY <3>5 DEF n, K
  <2>3. ASSUME NEW q \in qs, q.kind # "period" PROVE \E l \in o.a : l.window.kind = q.kind
    <3>1. q.kind \in Clocks
      BY <1>3, <2>3
    <3> DEFINE w == W!ClockWindow(q.kind, i.a)
               l == [window |-> w, maxCost |-> q.maxCost, block |-> W!Blocks(q)]
    <3>2. w \in W!WindowAt(q, i.a)
      BY <2>3 DEF W!WindowAt
    <3>3. w.kind = q.kind
      BY <1>1, <3>1, ClockTiles
    <3> HIDE DEF w
    <3>4. l \in W!ApplicableLimits(qs, i.a)
      BY <3>2 DEF W!ApplicableLimits
    <3>5. l \in o.a /\ l.window.kind = q.kind
      BY <1>2, <1>11, <3>3, <3>4
    <3> QED BY <3>5
  <2> QED BY <2>2, <2>3
<1>12. \A qs \in o.set :
         o.rows = {} <=> \E q \in qs : q.kind = "period" /\ W!Micros(q.period[1]) = W!Micros(q.period[2])
  <2>1. \A qs \in W!validQuotaSet(i.set) :
          W!ReplaceQuotas(i.set) = {} <=> \E q \in qs : q.kind = "period" /\ W!Micros(q.period[1]) = W!Micros(q.period[2])
    BY RowsOf
  <2> QED BY <1>2, <2>1
<1>13. Tiles(i, o)
  BY <1>9, <1>10, <1>11, <1>12 DEF Tiles
<1> QED BY <1>13 DEF o

(***************************************************************************)
(* Prices.                                                                 *)
(***************************************************************************)

\* A finite set of integers has a greatest one.
LEMMA Greatest ==
  ASSUME NEW S, IsFiniteSet(S), S \subseteq Int, S # {}
  PROVE  \E x \in S : \A y \in S : x >= y
<1> DEFINE Without == {V \in SUBSET S : V # {} /\ ~(\E x \in V : \A y \in V : x >= y)}
<1> SUFFICES ASSUME Without # {} PROVE FALSE
  <2>1. S \notin Without => \E x \in S : \A y \in S : x >= y
    OBVIOUS
  <2> QED BY <2>1
<1>1. Without \subseteq FiniteSubsetsOf(S)
  BY FS_Subset DEF FiniteSubsetsOf
<1>2. IsWellFoundedOn(StrictSubsetOrdering(S), FiniteSubsetsOf(S))
  BY FS_StrictSubsetOrderingWellFounded
<1>3. PICK V \in Without : \A U \in Without : ~(<<U, V>> \in StrictSubsetOrdering(S))
  <2> HIDE DEF Without
  <2> QED BY <1>1, <1>2, WFMin
<1>4. PICK x \in V : TRUE
  BY <1>3
<1>5. x \in Int /\ V \subseteq Int /\ V \in SUBSET S /\ ~(\E z \in V : \A y \in V : z >= y)
  BY <1>3, <1>4
<1>6. V \ {x} # {}
  BY <1>5
<1>7. V \ {x} \notin Without
  BY <1>3, <1>4, <1>5 DEF StrictSubsetOrdering
<1>8. PICK z \in V \ {x} : \A y \in V \ {x} : z >= y
  BY <1>5, <1>6, <1>7
<1>9. CASE z >= x
  BY <1>5, <1>8, <1>9
<1>10. CASE x >= z
  <2>1. \A y \in V : x >= y
    BY <1>5, <1>8, <1>10
  <2> QED BY <1>5, <2>1
<1> QED BY <1>5, <1>8, <1>9, <1>10

\* A product below half the range of an integer is not wrapped.
LEMMA WrapIs ==
  /\ \A n \in Int : P!Wrap(n) \in Int
  /\ \A n \in Nat : n < Half => P!Wrap(n) = n
<1>1. Half \in Nat \ {0}
  BY StatelessAssumption
<1>2. \A n \in Int : \A k \in Nat \ {0} : n % k \in Int
  OBVIOUS
<1>3. \A k \in Nat \ {0} : \A n \in 0..(k - 1) : n % k = n
  OBVIOUS
<1>4. 2 * Half \in Nat \ {0}
  BY <1>1
<1>5. ASSUME NEW n \in Int PROVE P!Wrap(n) \in Int
  <2>1. n + Half \in Int
    BY <1>1
  <2>2. (n + Half) % (2 * Half) \in Int
    BY <1>2, <1>4, <2>1
  <2> QED BY <1>1, <2>2 DEF P!Wrap
<1>6. ASSUME NEW n \in Nat, n < Half PROVE P!Wrap(n) = n
  <2>1. n + Half \in 0..(2 * Half - 1)
    BY <1>1, <1>6
  <2>2. (n + Half) % (2 * Half) = n + Half
    BY <1>3, <1>4, <2>1
  <2> QED BY <1>1, <2>2 DEF P!Wrap
<1> QED BY <1>5, <1>6

\* A millionth, what is left of it cut off: a rate is for a million tokens.
Part(n) == n \div 1000000

\* What tokens cost is an integer.
LEMMA TokenCostInt == \A r, n \in Int : P!TokenCost(r, n) \in Int
<1>1. \A n \in Int : P!Quot(n, 1000000) \in Int
  <2>1. \A n \in Int : n \div 1000000 \in Int
    OBVIOUS
  <2> QED BY <2>1 DEF P!Quot
<1>2. ASSUME NEW r \in Int, NEW n \in Int PROVE P!TokenCost(r, n) \in Int
  <2>1. r * n \in Int
    OBVIOUS
  <2> QED BY <1>1, <2>1, WrapIs DEF P!TokenCost
<1> QED BY <1>2

\* A product that is not wrapped costs its part.
LEMMA TokenCostIs == \A r, n \in Nat : r * n < Half => P!TokenCost(r, n) = Part(r * n)
<1>1. \A n \in Nat : P!Quot(n, 1000000) = Part(n)
  BY DEF P!Quot, Part
<1>2. ASSUME NEW r \in Nat, NEW n \in Nat, r * n < Half PROVE P!TokenCost(r, n) = Part(r * n)
  <2>1. r * n \in Nat
    OBVIOUS
  <2>2. P!Wrap(r * n) = r * n
    BY <1>2, <2>1, WrapIs
  <2> QED BY <1>1, <2>1, <2>2 DEF P!TokenCost
<1> QED BY <1>2

\* Products of natural numbers grow with their factors, and add up.
LEMMA Products ==
  ASSUME NEW a \in Nat, NEW b \in Nat, NEW c \in Nat
  PROVE  /\ a * b \in Nat
         /\ b <= c => a * b <= a * c /\ b * a <= c * a
         /\ a * (b + c) = a * b + a * c
OBVIOUS

\* The parts of two numbers are no more than the part of their sum.
LEMMA PartsOfSum ==
  ASSUME NEW x \in Nat, NEW y \in Nat, NEW z \in Nat, x + y <= z
  PROVE  Part(x) + Part(y) <= Part(z)
BY DEF Part

\* The values of an operation at the positions of a sequence are finitely many.
LEMMA FinitelyMany ==
  ASSUME NEW n \in Nat, NEW g
  PROVE  IsFiniteSet({g[x] : x \in 1..n})
<1> DEFINE T == {g[x] : x \in 1..n}
           f == [x \in 1..n |-> g[x]]
<1>1. f \in Surjection(1..n, T)
  BY DEF Surjection
<1>2. IsFiniteSet(1..n)
  BY FS_Interval
<1> HIDE DEF f, T
<1>3. IsFiniteSet(T)
  BY <1>1, <1>2, FS_Surjection
<1> QED BY <1>3 DEF T

\* The blocks of a table that are in effect, and the last of them.
Past(i) == {b \in {i.table[n] : n \in DOMAIN i.table} : b.from <= i.at}
InEffect(i) == CHOOSE x \in Past(i) : \A y \in Past(i) : y.from <= x.from

\* Where a block is in effect, one is the last, and it is a block of the table.
LEMMA LastBlock ==
  ASSUME NEW i \in PriceInputs, Past(i) # {}
  PROVE  InEffect(i) \in {i.table[n] : n \in DOMAIN i.table}
<1>1. IsSeq(i.table) /\ \A n \in DOMAIN i.table : i.table[n].from \in Int
  BY StatelessAssumption DEF PriceTable
<1>2. Len(i.table) \in Nat /\ DOMAIN i.table = 1..Len(i.table)
  <2>1. i.table \in Seq({i.table[x] : x \in DOMAIN i.table})
    BY <1>1 DEF IsSeq
  <2> QED BY <2>1
<1> DEFINE g == [n \in 1..Len(i.table) |-> i.table[n].from]
           F == {b.from : b \in Past(i)}
<1>3. IsFiniteSet({g[x] : x \in 1..Len(i.table)})
  BY <1>2, FinitelyMany
<1>4. F \subseteq {g[x] : x \in 1..Len(i.table)} /\ F # {} /\ F \subseteq Int
  BY <1>1, <1>2 DEF Past
<1>5. IsFiniteSet(F)
  BY <1>3, <1>4, FS_Subset
<1>6. PICK m \in F : \A y \in F : m >= y
  <2> HIDE DEF F
  <2> QED BY <1>4, <1>5, Greatest
<1>7. PICK x \in Past(i) : x.from = m
  BY <1>6
<1>8. \A y \in Past(i) : y.from \in F
  OBVIOUS
<1>9. \A y \in Past(i) : y.from <= x.from
  BY <1>4, <1>6, <1>7, <1>8
<1>10. InEffect(i) \in Past(i)
  BY <1>7, <1>9 DEF InEffect
<1> QED BY <1>10 DEF Past

\* A target's rates at an instant: one at most, of the block in effect, and valid.
LEMMA RatesOf ==
  ASSUME NEW i \in PriceInputs, NEW t, NEW r \in P!RatesAt(i.table, i.at, t)
  PROVE  /\ P!RatesAt(i.table, i.at, t) = {r}
         /\ r.version = InEffect(i).from
         /\ r.rates.input \in Nat /\ r.rates.output \in Nat /\ r.rates.cacheRead \in Nat /\ r.rates.cacheWrite \in Nat
         /\ r.rates.input > 0 => r.rates.cacheRead <= r.rates.input
<1>1. /\ Past(i) # {} /\ t \in DOMAIN InEffect(i).rates
      /\ P!RatesAt(i.table, i.at, t) = {[rates |-> P!ToRates(InEffect(i).rates[t]), version |-> InEffect(i).from]}
  BY DEF P!RatesAt, Past, InEffect
<1>2. PICK n \in DOMAIN i.table : InEffect(i) = i.table[n]
  BY <1>1, LastBlock
<1>3. /\ P!validatePricing(i.table, i.known)
      /\ \A t1 \in DOMAIN i.table[n].rates :
           i.table[n].rates[t1] \in [free : BOOLEAN, input : Int, output : Int, cacheRead : Int, cacheWrite : Int]
  BY StatelessAssumption DEF PriceTable
<1> DEFINE rc == i.table[n].rates[t]
           R == P!ToRates(rc)
<1>4. rc \in [free : BOOLEAN, input : Int, output : Int, cacheRead : Int, cacheWrite : Int]
  BY <1>1, <1>2, <1>3
<1>5. i.table # <<>>
  BY <1>2
<1>6. P!RatesValid(R)
  BY <1>1, <1>2, <1>3, <1>5 DEF P!validatePricing
<1>7. r = [rates |-> R, version |-> InEffect(i).from] /\ P!RatesAt(i.table, i.at, t) = {r}
  BY <1>1, <1>2
<1> HIDE DEF rc
<1>8. R.input \in Int /\ R.output \in Int /\ R.cacheRead \in Int /\ R.cacheWrite \in Int
  <2>1. \A m \in Int : m \div 10 \in Int
    OBVIOUS
  <2>2. \A m \in Int : P!FromDollars(m) \in Int
    BY <2>1 DEF P!FromDollars, P!Quot
  <2> QED BY <1>4, <2>2 DEF P!ToRates, P!Fields
<1>9. R.input >= 0 /\ R.output >= 0 /\ R.cacheRead >= 0 /\ R.cacheWrite >= 0 /\ ~(R.cacheRead > R.input /\ R.input > 0)
  BY <1>6 DEF P!RatesValid, P!Fields
<1>10. r.rates = R /\ r.version = InEffect(i).from
  BY <1>7
<1> HIDE DEF R
<1> QED BY <1>7, <1>8, <1>9, <1>10

\* The estimate of a request, and the usage a provider reports.
LEMMA Usages ==
  ASSUME NEW i \in PriceInputs
  PROVE  LET e == P!EstimateTokens(i.prompt, i.maxOutput, i.choices, i.defaultMaxOutput)
             u == P!usage(i.reported)
         IN  /\ e.input \in Nat /\ e.output \in Int /\ e.cacheRead = 0 /\ e.cacheWrite = 0
             /\ u.input \in Nat /\ u.output \in Nat /\ u.cacheRead \in Nat /\ u.cacheWrite = 0
<1>1. /\ i.prompt \in [textBytes : Nat, messages : Nat, mediaParts : Nat]
      /\ i.maxOutput \in Int /\ i.choices \in Int /\ i.defaultMaxOutput \in Int
      /\ i.reported \in [prompt : Nat, cached : Nat, completion : Nat]
  BY StatelessAssumption
<1> DEFINE e == P!EstimateTokens(i.prompt, i.maxOutput, i.choices, i.defaultMaxOutput)
           u == P!usage(i.reported)
           o == (IF i.maxOutput <= 0 THEN i.defaultMaxOutput ELSE i.maxOutput) * (IF i.choices < 1 THEN 1 ELSE i.choices)
<1>2. e.input = (i.prompt.textBytes + 3) \div 4 + i.prompt.messages * 4 + i.prompt.mediaParts * 1000
      /\ e.output = P!Wrap(o) /\ e.cacheRead = 0 /\ e.cacheWrite = 0
  BY DEF P!EstimateTokens, P!Usage
<1>3. o \in Int
  BY <1>1
<1>4. e.input \in Nat
  <2>1. i.prompt.textBytes \in Nat /\ i.prompt.messages \in Nat /\ i.prompt.mediaParts \in Nat
    BY <1>1
  <2>2. (i.prompt.textBytes + 3) \div 4 \in Nat
    BY <2>1
  <2> QED BY <1>2, <2>1, <2>2
<1>5. u.input \in Nat /\ u.output \in Nat /\ u.cacheRead \in Nat /\ u.cacheWrite = 0
  BY <1>1 DEF P!usage, P!Usage
<1> HIDE DEF o
<1>6. e.output \in Int
  BY <1>2, <1>3, WrapIs
<1> QED BY <1>2, <1>4, <1>5, <1>6

\* What a usage costs is an integer.
LEMMA CostIsInt ==
  ASSUME NEW R, NEW u,
         R.input \in Int, R.output \in Int, R.cacheRead \in Int, R.cacheWrite \in Int,
         u.input \in Int, u.output \in Int, u.cacheRead \in Int, u.cacheWrite \in Int
  PROVE  P!Cost(R, u) \in Int
<1>1. P!TokenCost(R.input, u.input) \in Int
  BY TokenCostInt, Zenon
<1>2. P!TokenCost(R.output, u.output) \in Int
  BY TokenCostInt, Zenon
<1>3. P!TokenCost(R.cacheRead, u.cacheRead) \in Int
  BY TokenCostInt, Zenon
<1>4. P!TokenCost(R.cacheWrite, u.cacheWrite) \in Int
  BY TokenCostInt, Zenon
<1> QED BY <1>1, <1>2, <1>3, <1>4 DEF P!Cost

\* Rates with no negative one, and none dearer for cached tokens than for others.
Fair(R) ==
  /\ R.input \in Nat /\ R.output \in Nat /\ R.cacheRead \in Nat /\ R.cacheWrite \in Nat
  /\ R.cacheRead <= R.input

\* Tokens within an estimate cost no more than the estimate, when it is not too large to be
\* priced: each cost is cut off, and two parts are no more than the part of their sum.
LEMMA CostsLess ==
  ASSUME NEW R, Fair(R), NEW e, NEW u,
         e.input \in Nat /\ e.output \in Int /\ e.cacheRead = 0 /\ e.cacheWrite = 0,
         u.input \in Nat /\ u.output \in Nat /\ u.cacheRead \in Nat /\ u.cacheWrite = 0,
         R.input * e.input < Half, R.output * e.output < Half,
         u.input + u.cacheRead <= e.input, u.output <= e.output
  PROVE  P!Cost(R, u) <= P!Cost(R, e)
<1>1. /\ R.input \in Nat /\ R.output \in Nat /\ R.cacheRead \in Nat /\ R.cacheWrite \in Nat
      /\ R.cacheRead <= R.input
  BY DEF Fair
<1>2. Half \in Nat \ {0} /\ e.output \in Nat
  BY StatelessAssumption
<1>3. /\ R.cacheRead * 0 = 0 /\ R.cacheWrite * 0 = 0 /\ Part(0) = 0
  BY <1>1 DEF Part
<1> DEFINE x == R.input * u.input
           y == R.cacheRead * u.cacheRead
           z == R.input * e.input
           v == R.output * u.output
           w == R.output * e.output
<1>4. x \in Nat /\ y \in Nat /\ z \in Nat /\ v \in Nat /\ w \in Nat
  BY <1>1, <1>2, Products
<1>5. v <= w
  BY <1>1, <1>2, Products
<1>6. x + y <= z
  <2>1. y <= R.input * u.cacheRead
    BY <1>1, Products
  <2>2. R.input * (u.input + u.cacheRead) = x + R.input * u.cacheRead /\ R.input * u.cacheRead \in Nat
    BY <1>1, Products
  <2>3. R.input * (u.input + u.cacheRead) <= z
    <3>1. u.input + u.cacheRead \in Nat
      OBVIOUS
    <3> QED BY <1>1, <3>1, Products
  <2> HIDE DEF x, y, z
  <2> QED BY <1>4, <2>1, <2>2, <2>3
<1>7. z < Half /\ w < Half
  OBVIOUS
<1> HIDE DEF x, y, z, v, w
<1>8. x < Half /\ y < Half /\ v < Half
  BY <1>2, <1>4, <1>5, <1>6, <1>7
<1>9. P!Cost(R, u) = Part(x) + Part(v) + Part(y) + 0
  <2>1. P!TokenCost(R.input, u.input) = Part(x)
    <3>1. R.input * u.input < Half /\ x = R.input * u.input
      BY <1>8 DEF x
    <3>2. P!TokenCost(R.input, u.input) = Part(R.input * u.input)
      BY <1>1, <3>1, TokenCostIs
    <3> QED BY <3>1, <3>2
  <2>2. P!TokenCost(R.output, u.output) = Part(v)
    BY <1>1, <1>8, TokenCostIs DEF v
  <2>3. P!TokenCost(R.cacheRead, u.cacheRead) = Part(y)
    BY <1>1, <1>8, TokenCostIs DEF y
  <2>4. P!TokenCost(R.cacheWrite, u.cacheWrite) = 0
    BY <1>1, <1>2, <1>3, TokenCostIs
  <2> QED BY <2>1, <2>2, <2>3, <2>4 DEF P!Cost
<1>10. P!Cost(R, e) = Part(z) + Part(w) + 0 + 0
  <2>1. P!TokenCost(R.input, e.input) = Part(z)
    BY <1>1, <1>7, TokenCostIs DEF z
  <2>2. P!TokenCost(R.output, e.output) = Part(w)
    BY <1>1, <1>2, <1>7, TokenCostIs DEF w
  <2>3. P!TokenCost(R.cacheRead, e.cacheRead) = 0
    BY <1>1, <1>2, <1>3, TokenCostIs
  <2>4. P!TokenCost(R.cacheWrite, e.cacheWrite) = 0
    BY <1>1, <1>2, <1>3, TokenCostIs
  <2> QED BY <2>1, <2>2, <2>3, <2>4 DEF P!Cost
<1>11. Part(x) + Part(y) <= Part(z) /\ Part(v) <= Part(w)
  <2>1. Part(x) + Part(y) <= Part(z)
    BY <1>4, <1>6, PartsOfSum
  <2>2. Part(v) <= Part(w)
    BY <1>4, <1>5 DEF Part
  <2> QED BY <2>1, <2>2
<1>12. Part(x) \in Int /\ Part(y) \in Int /\ Part(z) \in Int /\ Part(v) \in Int /\ Part(w) \in Int
  BY <1>4 DEF Part
<1> QED BY <1>9, <1>10, <1>11, <1>12

\* The reservation: none where no target has a price, and else one amount that is not
\* negative and not less than the estimate costs at any target.
LEMMA Reservation ==
  ASSUME NEW i \in PriceInputs, NEW e,
         e.input \in Int /\ e.output \in Int /\ e.cacheRead \in Int /\ e.cacheWrite \in Int
  PROVE  LET reserved == P!priceEstimate(i.table, i.targets, i.at, e)
         IN  /\ \A n \in DOMAIN i.targets : P!RatesAt(i.table, i.at, i.targets[n]) # {} => reserved # {}
             /\ \A x, y \in reserved : x = y
             /\ \A x \in reserved :
                  /\ x \in Int /\ x >= 0
                  /\ \A n \in DOMAIN i.targets : \A r \in P!RatesAt(i.table, i.at, i.targets[n]) : P!Cost(r.rates, e) <= x
<1> DEFINE reserved == P!priceEstimate(i.table, i.targets, i.at, e)
           at(n) == P!RatesAt(i.table, i.at, i.targets[n])
           costs == {P!Cost(r.rates, e) : r \in UNION {at(n) : n \in DOMAIN i.targets}}
           g == [n \in 1..Len(i.targets) |-> P!Cost((CHOOSE r \in at(n) : TRUE).rates, e)]
<1>1. reserved = IF costs = {} THEN {} ELSE {P!Max(costs \cup {0})}
  BY DEF P!priceEstimate
<1>2. Len(i.targets) \in Nat /\ DOMAIN i.targets = 1..Len(i.targets)
  <2>1. i.targets \in Seq({i.targets[x] : x \in DOMAIN i.targets})
    BY StatelessAssumption DEF IsSeq
  <2> QED BY <2>1
<1>3. \A n \in DOMAIN i.targets : \A r \in at(n) : at(n) = {r} /\ P!Cost(r.rates, e) \in Int
  <2> TAKE n \in DOMAIN i.targets
  <2> TAKE r \in at(n)
  <2>1. at(n) = {r} /\ r.rates.input \in Nat /\ r.rates.output \in Nat /\ r.rates.cacheRead \in Nat /\ r.rates.cacheWrite \in Nat
    BY RatesOf
  <2> QED BY <2>1, CostIsInt
<1> HIDE DEF at
<1>4. costs \subseteq {g[x] : x \in 1..Len(i.targets)} /\ costs \subseteq Int
  <2>1. ASSUME NEW c \in costs PROVE c \in {g[x] : x \in 1..Len(i.targets)} /\ c \in Int
    <3>1. PICK n \in DOMAIN i.targets : \E r \in at(n) : c = P!Cost(r.rates, e)
      OBVIOUS
    <3>2. PICK r \in at(n) : c = P!Cost(r.rates, e)
      BY <3>1
    <3>3. at(n) = {r} /\ P!Cost(r.rates, e) \in Int
      BY <1>3
    <3>4. (CHOOSE s \in at(n) : TRUE) = r
      BY <3>3
    <3>5. g[n] = P!Cost(r.rates, e)
      BY <1>2, <3>4
    <3> QED BY <1>2, <3>2, <3>3, <3>5
  <2> QED BY <2>1
<1>5. \A n \in DOMAIN i.targets : \A r \in at(n) : P!Cost(r.rates, e) \in costs
  OBVIOUS
<1> HIDE DEF costs, g
<1>6. IsFiniteSet(costs \cup {0})
  <2>1. IsFiniteSet({g[x] : x \in 1..Len(i.targets)})
    BY <1>2, FinitelyMany
  <2>2. IsFiniteSet(costs)
    BY <1>4, <2>1, FS_Subset
  <2> QED BY <2>2, FS_AddElement
<1> DEFINE S == costs \cup {0}
           m == P!Max(S)
<1>7. IsFiniteSet(S) /\ S \subseteq Int /\ S # {} /\ 0 \in S /\ costs \subseteq S
  BY <1>4, <1>6
<1>8. reserved \subseteq {m}
  BY <1>1
<1> HIDE DEF S
<1>9. m \in S /\ \A y \in S : m >= y
  <2>1. \E x \in S : \A y \in S : x >= y
    BY <1>7, Greatest
  <2> QED BY <2>1 DEF P!Max
<1> HIDE DEF m, reserved
<1>10. \A x, y \in reserved : x = y
  BY <1>8
<1>11. \A x \in reserved : x \in Int /\ x >= 0 /\ \A n \in DOMAIN i.targets : \A r \in at(n) : P!Cost(r.rates, e) <= x
  <2> TAKE x \in reserved
  <2>1. x \in Int /\ \A y \in S : x >= y
    BY <1>7, <1>8, <1>9
  <2>2. x >= 0
    BY <1>7, <2>1
  <2>3. ASSUME NEW n \in DOMAIN i.targets, NEW r \in at(n) PROVE P!Cost(r.rates, e) <= x
    <3>1. P!Cost(r.rates, e) \in S /\ P!Cost(r.rates, e) \in Int
      BY <1>5, <1>7
    <3> QED BY <2>1, <3>1
  <2> QED BY <2>1, <2>2, <2>3
<1>12. \A n \in DOMAIN i.targets : at(n) # {} => reserved # {}
  BY <1>1, <1>5
<1> QED BY <1>10, <1>11, <1>12 DEF at, reserved

\* The record of a target that has rates: its cost and the version of its prices.
LEMMA PriceRecord ==
  ASSUME NEW table, NEW at, NEW targets, NEW compare, NEW chosen, NEW used, NEW r \in P!RatesAt(table, at, chosen)
  PROVE  \E f \in P!Price(table, at, targets, compare, chosen, used) : f.actual = P!Cost(r.rates, used) /\ f.version = r.version
<1> DEFINE others == P!comparisonTargets(targets, compare, chosen)
           cost(t) == {P!Cost(s.rates, used) : s \in P!RatesAt(table, at, t)}
           cf == UNION {{[target |-> t, cost |-> c] : c \in cost(t)} : t \in others}
           un == {t \in others : cost(t) = {}}
           rec(s) == [actual |-> P!Cost(s.rates, used), version |-> s.version, counterfactuals |-> cf, unpriced |-> un]
<1>1. P!Price(table, at, targets, compare, chosen, used) = {rec(s) : s \in P!RatesAt(table, at, chosen)}
  BY DEF P!Price
<1> HIDE DEF cf, un
<1>2. rec(r).actual = P!Cost(r.rates, used) /\ rec(r).version = r.version
  OBVIOUS
<1> HIDE DEF rec
<1> QED BY <1>1, <1>2

\* What ChargesCovered says of an input, a result and the results for the input.
Covered(i, all, o) ==
  LET used == P!usage(i.reported)
      rates == {r.rates : r \in P!RatesAt(i.table, i.at, o.chosen)}
      exact == \A n \in DOMAIN i.targets : \A r \in P!RatesAt(i.table, i.at, i.targets[n]), f \in P!Fields :
                 r.rates[f] * o.estimate[f] < Half
      within == used.input + used.cacheRead <= o.estimate.input /\ used.output <= o.estimate.output
  IN  /\ (exact /\ within /\ \A r \in rates : r.input > 0 \/ r.cacheRead = 0) =>
           \A c \in o.charged, r \in o.reserved : c <= r
      /\ P!Total(used) > 0 => \A d \in o.record : o.reserved # {} /\ o.charged = {d.actual}
      /\ \A d \in o.record, p \in all \ {o} :
           \/ \E e \in p.record : [target |-> p.chosen, cost |-> e.actual] \in d.counterfactuals /\ e.version = d.version
           \/ p.record = {} /\ p.chosen \in d.unpriced

\* A charge, whichever of its targets served the request.
LEMMA ChargedIs ==
  ASSUME NEW i \in PriceInputs, NEW n \in DOMAIN i.targets
  PROVE  Covered(i, {Charged(i, i.targets[k]) : k \in DOMAIN i.targets}, Charged(i, i.targets[n]))
<1> DEFINE t == i.targets[n]
           o == Charged(i, t)
           e == P!EstimateTokens(i.prompt, i.maxOutput, i.choices, i.defaultMaxOutput)
           u == P!usage(i.reported)
           reserved == P!priceEstimate(i.table, i.targets, i.at, e)
           at(x) == P!RatesAt(i.table, i.at, x)
<1>1. /\ o.estimate = e /\ o.reserved = reserved /\ o.chosen = t
      /\ o.charged = {P!actualUsage(i.table, i.at, t, u, r) : r \in reserved}
      /\ o.record = P!Price(i.table, i.at, i.targets, i.compare, t, u)
  BY DEF Charged
<1>2. /\ e.input \in Nat /\ e.output \in Int /\ e.cacheRead = 0 /\ e.cacheWrite = 0
      /\ u.input \in Nat /\ u.output \in Nat /\ u.cacheRead \in Nat /\ u.cacheWrite = 0
  BY Usages
<1> HIDE DEF e, u
<1>3. /\ \A k \in DOMAIN i.targets : at(i.targets[k]) # {} => reserved # {}
      /\ \A x, y \in reserved : x = y
      /\ \A x \in reserved : x \in Int /\ x >= 0 /\ \A k \in DOMAIN i.targets : \A r \in at(i.targets[k]) : P!Cost(r.rates, e) <= x
  BY <1>2, Reservation
<1>4. \A x : \A r \in at(x) :
        /\ at(x) = {r} /\ r.version = InEffect(i).from
        /\ r.rates.input \in Nat /\ r.rates.output \in Nat /\ r.rates.cacheRead \in Nat /\ r.rates.cacheWrite \in Nat
        /\ r.rates.input > 0 => r.rates.cacheRead <= r.rates.input
  BY RatesOf
<1>5. P!Total(u) \in Nat
  BY <1>2 DEF P!Total
<1>6. \A r \in reserved : P!actualUsage(i.table, i.at, t, u, r) =
        IF P!Total(u) = 0 THEN r ELSE IF at(t) = {} THEN 0 ELSE P!Cost((CHOOSE s \in at(t) : TRUE).rates, u)
  BY DEF P!actualUsage
<1>7. ASSUME NEW r \in at(t), NEW x \in reserved, P!Total(u) # 0
      PROVE  P!actualUsage(i.table, i.at, t, u, x) = P!Cost(r.rates, u)
  <2>1. at(t) = {r}
    BY <1>4
  <2>2. (CHOOSE s \in at(t) : TRUE) = r
    BY <2>1
  <2> QED BY <1>6, <1>7, <2>1, <2>2
<1> HIDE DEF o, reserved, at, t
<1>8. ASSUME \A k \in DOMAIN i.targets : \A r \in at(i.targets[k]), f \in P!Fields : r.rates[f] * e[f] < Half,
             u.input + u.cacheRead <= e.input /\ u.output <= e.output,
             \A r \in {s.rates : s \in at(t)} : r.input > 0 \/ r.cacheRead = 0,
             NEW c \in o.charged, NEW r \in o.reserved
      PROVE  c <= r
  <2>1. PICK x \in reserved : c = P!actualUsage(i.table, i.at, t, u, x)
    BY <1>1
  <2>2. r \in reserved /\ x = r /\ r \in Int /\ r >= 0
    BY <1>1, <1>3
  <2>3. CASE P!Total(u) = 0
    BY <1>6, <2>1, <2>2, <2>3
  <2>4. CASE P!Total(u) # 0 /\ at(t) = {}
    BY <1>6, <2>1, <2>2, <2>4
  <2>5. CASE P!Total(u) # 0 /\ at(t) # {}
    <3>1. PICK s \in at(t) : TRUE
      BY <2>5
    <3>2. c = P!Cost(s.rates, u)
      BY <1>7, <2>1, <2>5, <3>1
    <3>3. Fair(s.rates)
      <4>1. s.rates.input > 0 \/ s.rates.cacheRead = 0
        BY <1>8, <3>1
      <4> QED BY <1>4, <3>1, <4>1 DEF Fair
    <3>4. s \in at(i.targets[n])
      BY <3>1 DEF t
    <3>5. "input" \in P!Fields /\ "output" \in P!Fields
      BY DEF P!Fields
    <3>6. s.rates.input * e.input < Half /\ s.rates.output * e.output < Half
      BY <1>8, <3>4, <3>5
    <3>7. P!Cost(s.rates, u) <= P!Cost(s.rates, e)
      BY <1>2, <1>8, <3>3, <3>6, CostsLess
    <3>8. P!Cost(s.rates, e) <= r
      BY <1>3, <2>2, <3>4
    <3>9. P!Cost(s.rates, e) \in Int /\ P!Cost(s.rates, u) \in Int
      BY <1>2, <1>4, <3>1, CostIsInt
    <3> QED BY <2>2, <3>2, <3>7, <3>8, <3>9
  <2> QED BY <2>3, <2>4, <2>5
<1>9. /\ \A d \in o.record : \E r \in at(t) :
           /\ d.actual = P!Cost(r.rates, u) /\ d.version = r.version
           /\ \A x \in {i.targets[k] : k \in DOMAIN i.targets} \ {t} :
                /\ \A s \in at(x) : [target |-> x, cost |-> P!Cost(s.rates, u)] \in d.counterfactuals
                /\ at(x) = {} => x \in d.unpriced
  <2> SUFFICES ASSUME NEW d \in o.record
               PROVE  \E r \in at(t) :
                        /\ d.actual = P!Cost(r.rates, u) /\ d.version = r.version
                        /\ \A x \in {i.targets[k] : k \in DOMAIN i.targets} \ {t} :
                             /\ \A s \in at(x) : [target |-> x, cost |-> P!Cost(s.rates, u)] \in d.counterfactuals
                             /\ at(x) = {} => x \in d.unpriced
    OBVIOUS
  <2> DEFINE others == P!comparisonTargets(i.targets, i.compare, t)
             cost(x) == {P!Cost(s.rates, u) : s \in at(x)}
  <2>1. PICK r \in at(t) :
          d = [actual |-> P!Cost(r.rates, u), version |-> r.version,
               counterfactuals |-> UNION {{[target |-> x, cost |-> c] : c \in cost(x)} : x \in others},
               unpriced |-> {x \in others : cost(x) = {}}]
    BY <1>1 DEF P!Price, at
  <2>2. \A x \in {i.targets[k] : k \in DOMAIN i.targets} \ {t} : x \in others
    BY DEF P!comparisonTargets
  <2> HIDE DEF others
  <2>3. /\ d.actual = P!Cost(r.rates, u) /\ d.version = r.version
        /\ d.counterfactuals = UNION {{[target |-> x, cost |-> c] : c \in cost(x)} : x \in others}
        /\ d.unpriced = {x \in others : cost(x) = {}}
    BY <2>1
  <2>4. ASSUME NEW x \in others
        PROVE  /\ \A s \in at(x) : [target |-> x, cost |-> P!Cost(s.rates, u)] \in d.counterfactuals
               /\ at(x) = {} => x \in d.unpriced
    <3>1. \A s \in at(x) : P!Cost(s.rates, u) \in cost(x)
      OBVIOUS
    <3>2. at(x) = {} => cost(x) = {}
      OBVIOUS
    <3> HIDE DEF cost
    <3> QED BY <2>3, <3>1, <3>2
  <2> QED BY <2>2, <2>3, <2>4
<1>10. ASSUME P!Total(u) > 0, NEW d \in o.record
       PROVE  o.reserved # {} /\ o.charged = {d.actual}
  <2>1. PICK r \in at(t) : d.actual = P!Cost(r.rates, u)
    BY <1>9
  <2>2. reserved # {}
    BY <1>3, <2>1 DEF t
  <2>3. \A x \in reserved : P!actualUsage(i.table, i.at, t, u, x) = d.actual
    BY <1>5, <1>7, <1>10, <2>1
  <2> QED BY <1>1, <2>2, <2>3
<1>11. ASSUME NEW d \in o.record, NEW k \in DOMAIN i.targets, Charged(i, i.targets[k]) # o
       PROVE  LET p == Charged(i, i.targets[k])
              IN  \/ \E f \in p.record : [target |-> p.chosen, cost |-> f.actual] \in d.counterfactuals /\ f.version = d.version
                  \/ p.record = {} /\ p.chosen \in d.unpriced
  <2> DEFINE x == i.targets[k]
             p == Charged(i, x)
  <2>1. x # t
    BY <1>11 DEF o
  <2>2. p.chosen = x /\ p.record = P!Price(i.table, i.at, i.targets, i.compare, x, u)
    BY DEF Charged, u
  <2>3. x \in {i.targets[j] : j \in DOMAIN i.targets} \ {t}
    BY <2>1
  <2> HIDE DEF x, p
  <2>4. PICK r \in at(t) :
          /\ d.version = r.version
          /\ \A s \in at(x) : [target |-> x, cost |-> P!Cost(s.rates, u)] \in d.counterfactuals
          /\ at(x) = {} => x \in d.unpriced
    BY <1>9, <2>3
  <2>5. CASE at(x) = {}
    <3>1. p.record = {}
      BY <2>2, <2>5 DEF P!Price, at
    <3> QED BY <2>2, <2>4, <2>5, <3>1 DEF p, x
  <2>6. CASE at(x) # {}
    <3>1. PICK s \in at(x) : TRUE
      BY <2>6
    <3>2. \E f \in p.record : f.actual = P!Cost(s.rates, u) /\ f.version = s.version
      BY <2>2, <3>1, PriceRecord DEF at
    <3>3. PICK f \in p.record : f.actual = P!Cost(s.rates, u) /\ f.version = s.version
      BY <3>2
    <3>4. s.version = r.version
      BY <1>4, <2>4, <3>1
    <3>5. [target |-> p.chosen, cost |-> f.actual] \in d.counterfactuals /\ f.version = d.version
      BY <2>2, <2>4, <3>1, <3>3, <3>4
    <3> QED BY <3>3, <3>5 DEF p, x
  <2> QED BY <2>5, <2>6
<1> DEFINE all == {Charged(i, i.targets[k]) : k \in DOMAIN i.targets}
<1>12. \A d \in o.record, p \in all \ {o} :
         \/ \E f \in p.record : [target |-> p.chosen, cost |-> f.actual] \in d.counterfactuals /\ f.version = d.version
         \/ p.record = {} /\ p.chosen \in d.unpriced
  BY <1>11
<1>13. Covered(i, all, o)
  <2> HIDE DEF all
  <2> QED BY <1>1, <1>8, <1>10, <1>12 DEF Covered, u, at
<1> QED BY <1>13 DEF o, t

(***************************************************************************)
(* The contract of the admin API.                                          *)
(***************************************************************************)

\* What the table of operations gives for one: the statuses the stages can answer with are
\* declared, and so is every end of its service.
Declared(op) ==
  LET d == HandlerWithOptions[op]
  IN  /\ 401 \in d.responses /\ 500 \in d.responses
      /\ d.method # "GET" => 400 \in d.responses /\ 413 \in d.responses
      /\ d.method # "GET" /\ op \notin openPaths \cup selfServicePaths => 403 \in d.responses
      /\ d.params # {} => 400 \in d.responses
      /\ d.method = "GET" => d.body = "none"
      /\ d.method # "HEAD"
      /\ op \in Mutations => d.method # "GET" /\ op \notin openPaths \cup selfServicePaths
      /\ \A e \in DOMAIN d.handler.answers : d.handler.answers[e] \in d.responses
      /\ d.handler.errors \subseteq {"invalid", "notfound", "conflict", "failed"}
      /\ "invalid" \in d.handler.errors => 400 \in d.responses
      /\ "notfound" \in d.handler.errors => 404 \in d.responses
      /\ "conflict" \in d.handler.errors => 409 \in d.responses
      /\ "failed" \in d.handler.errors => 504 \in d.responses

\* Every operation of the table is declared so.
LEMMA Table == \A op \in Ops : Declared(op)
<1> USE DEF Declared, Op, openPaths, selfServicePaths, Mutations, Answers, tenantErrors, keyErrors
<1>1. Declared("Login")
  <2>1. HandlerWithOptions["Login"] = Op("POST", LoginWrapper, LoginStrict, Login, LoginResponse)
    BY DEF HandlerWithOptions
  <2> QED BY <2>1 DEF LoginWrapper, LoginStrict, Login, LoginResponse
<1>2. Declared("Logout")
  <2>1. HandlerWithOptions["Logout"] = Op("POST", LogoutWrapper, LogoutStrict, Logout, LogoutResponse)
    BY DEF HandlerWithOptions
  <2> QED BY <2>1 DEF LogoutWrapper, LogoutStrict, Logout, LogoutResponse
<1>3. Declared("Whoami")
  <2>1. HandlerWithOptions["Whoami"] = Op("GET", WhoamiWrapper, WhoamiStrict, Whoami, WhoamiResponse)
    BY DEF HandlerWithOptions
  <2> QED BY <2>1 DEF WhoamiWrapper, WhoamiStrict, Whoami, WhoamiResponse
<1>4. Declared("RefreshSession")
  <2>1. HandlerWithOptions["RefreshSession"] = Op("POST", RefreshSessionWrapper, RefreshSessionStrict, RefreshSession, RefreshSessionResponse)
    BY DEF HandlerWithOptions
  <2> QED BY <2>1 DEF RefreshSessionWrapper, RefreshSessionStrict, RefreshSession, RefreshSessionResponse
<1>5. Declared("RevokeAPIKey")
  <2>1. HandlerWithOptions["RevokeAPIKey"] = Op("DELETE", RevokeAPIKeyWrapper, RevokeAPIKeyStrict, RevokeAPIKey, RevokeAPIKeyResponse)
    BY DEF HandlerWithOptions
  <2> QED BY <2>1 DEF RevokeAPIKeyWrapper, RevokeAPIKeyStrict, RevokeAPIKey, RevokeAPIKeyResponse
<1>6. Declared("GetAPIKey")
  <2>1. HandlerWithOptions["GetAPIKey"] = Op("GET", GetAPIKeyWrapper, GetAPIKeyStrict, GetAPIKey, GetAPIKeyResponse)
    BY DEF HandlerWithOptions
  <2> QED BY <2>1 DEF GetAPIKeyWrapper, GetAPIKeyStrict, GetAPIKey, GetAPIKeyResponse
<1>7. Declared("UpdateAPIKey")
  <2>1. HandlerWithOptions["UpdateAPIKey"] = Op("PATCH", UpdateAPIKeyWrapper, UpdateAPIKeyStrict, UpdateAPIKey, UpdateAPIKeyResponse)
    BY DEF HandlerWithOptions
  <2> QED BY <2>1 DEF UpdateAPIKeyWrapper, UpdateAPIKeyStrict, UpdateAPIKey, UpdateAPIKeyResponse
<1>8. Declared("GetRequest")
  <2>1. HandlerWithOptions["GetRequest"] = Op("GET", GetRequestWrapper, GetRequestStrict, GetRequest, GetRequestResponse)
    BY DEF HandlerWithOptions
  <2> QED BY <2>1 DEF GetRequestWrapper, GetRequestStrict, GetRequest, GetRequestResponse
<1>9. Declared("ListTenants")
  <2>1. HandlerWithOptions["ListTenants"] = Op("GET", ListTenantsWrapper, ListTenantsStrict, ListTenants, ListTenantsResponse)
    BY DEF HandlerWithOptions
  <2> QED BY <2>1 DEF ListTenantsWrapper, ListTenantsStrict, ListTenants, ListTenantsResponse
<1>10. Declared("CreateTenant")
  <2>1. HandlerWithOptions["CreateTenant"] = Op("POST", CreateTenantWrapper, CreateTenantStrict, CreateTenant, CreateTenantResponse)
    BY DEF HandlerWithOptions
  <2> QED BY <2>1 DEF CreateTenantWrapper, CreateTenantStrict, CreateTenant, CreateTenantResponse
<1>11. Declared("DisableTenant")
  <2>1. HandlerWithOptions["DisableTenant"] = Op("DELETE", DisableTenantWrapper, DisableTenantStrict, DisableTenant, DisableTenantResponse)
    BY DEF HandlerWithOptions
  <2> QED BY <2>1 DEF DisableTenantWrapper, DisableTenantStrict, DisableTenant, DisableTenantResponse
<1>12. Declared("GetTenant")
  <2>1. HandlerWithOptions["GetTenant"] = Op("GET", GetTenantWrapper, GetTenantStrict, GetTenant, GetTenantResponse)
    BY DEF HandlerWithOptions
  <2> QED BY <2>1 DEF GetTenantWrapper, GetTenantStrict, GetTenant, GetTenantResponse
<1>13. Declared("UpdateTenant")
  <2>1. HandlerWithOptions["UpdateTenant"] = Op("PATCH", UpdateTenantWrapper, UpdateTenantStrict, UpdateTenant, UpdateTenantResponse)
    BY DEF HandlerWithOptions
  <2> QED BY <2>1 DEF UpdateTenantWrapper, UpdateTenantStrict, UpdateTenant, UpdateTenantResponse
<1>14. Declared("ListAudit")
  <2>1. HandlerWithOptions["ListAudit"] = Op("GET", ListAuditWrapper, ListAuditStrict, ListAudit, ListAuditResponse)
    BY DEF HandlerWithOptions
  <2> QED BY <2>1 DEF ListAuditWrapper, ListAuditStrict, ListAudit, ListAuditResponse
<1>15. Declared("EnableTenant")
  <2>1. HandlerWithOptions["EnableTenant"] = Op("POST", EnableTenantWrapper, EnableTenantStrict, EnableTenant, EnableTenantResponse)
    BY DEF HandlerWithOptions
  <2> QED BY <2>1 DEF EnableTenantWrapper, EnableTenantStrict, EnableTenant, EnableTenantResponse
<1>16. Declared("ListAPIKeys")
  <2>1. HandlerWithOptions["ListAPIKeys"] = Op("GET", ListAPIKeysWrapper, ListAPIKeysStrict, ListAPIKeys, ListAPIKeysResponse)
    BY DEF HandlerWithOptions
  <2> QED BY <2>1 DEF ListAPIKeysWrapper, ListAPIKeysStrict, ListAPIKeys, ListAPIKeysResponse
<1>17. Declared("CreateAPIKey")
  <2>1. HandlerWithOptions["CreateAPIKey"] = Op("POST", CreateAPIKeyWrapper, CreateAPIKeyStrict, CreateAPIKey, CreateAPIKeyResponse)
    BY DEF HandlerWithOptions
  <2> QED BY <2>1 DEF CreateAPIKeyWrapper, CreateAPIKeyStrict, CreateAPIKey, CreateAPIKeyResponse
<1>18. Declared("ListQuotas")
  <2>1. HandlerWithOptions["ListQuotas"] = Op("GET", ListQuotasWrapper, ListQuotasStrict, ListQuotas, ListQuotasResponse)
    BY DEF HandlerWithOptions
  <2> QED BY <2>1 DEF ListQuotasWrapper, ListQuotasStrict, ListQuotas, ListQuotasResponse
<1>19. Declared("ReplaceQuotas")
  <2>1. HandlerWithOptions["ReplaceQuotas"] = Op("PUT", ReplaceQuotasWrapper, ReplaceQuotasStrict, ReplaceQuotas, ReplaceQuotasResponse)
    BY DEF HandlerWithOptions
  <2> QED BY <2>1 DEF ReplaceQuotasWrapper, ReplaceQuotasStrict, ReplaceQuotas, ReplaceQuotasResponse
<1>20. Declared("DeleteQuota")
  <2>1. HandlerWithOptions["DeleteQuota"] = Op("DELETE", DeleteQuotaWrapper, DeleteQuotaStrict, DeleteQuota, DeleteQuotaResponse)
    BY DEF HandlerWithOptions
  <2> QED BY <2>1 DEF DeleteQuotaWrapper, DeleteQuotaStrict, DeleteQuota, DeleteQuotaResponse
<1>21. Declared("GetQuota")
  <2>1. HandlerWithOptions["GetQuota"] = Op("GET", GetQuotaWrapper, GetQuotaStrict, GetQuota, GetQuotaResponse)
    BY DEF HandlerWithOptions
  <2> QED BY <2>1 DEF GetQuotaWrapper, GetQuotaStrict, GetQuota, GetQuotaResponse
<1>22. Declared("PutQuota")
  <2>1. HandlerWithOptions["PutQuota"] = Op("PUT", PutQuotaWrapper, PutQuotaStrict, PutQuota, PutQuotaResponse)
    BY DEF HandlerWithOptions
  <2> QED BY <2>1 DEF PutQuotaWrapper, PutQuotaStrict, PutQuota, PutQuotaResponse
<1>23. Declared("GetUsage")
  <2>1. HandlerWithOptions["GetUsage"] = Op("GET", GetUsageWrapper, GetUsageStrict, GetUsage, GetUsageResponse)
    BY DEF HandlerWithOptions
  <2> QED BY <2>1 DEF GetUsageWrapper, GetUsageStrict, GetUsage, GetUsageResponse
<1>24. Ops = {"Login", "Logout", "Whoami", "RefreshSession", "RevokeAPIKey", "GetAPIKey", "UpdateAPIKey",
       "GetRequest", "ListTenants", "CreateTenant", "DisableTenant", "GetTenant", "UpdateTenant", "ListAudit",
       "EnableTenant", "ListAPIKeys", "CreateAPIKey", "ListQuotas", "ReplaceQuotas", "DeleteQuota",
       "GetQuota", "PutQuota", "GetUsage"}
  BY DEF Ops, HandlerWithOptions
<1> HIDE DEF Declared
<1> QED BY <1>1, <1>2, <1>3, <1>4, <1>5, <1>6, <1>7, <1>8, <1>9, <1>10, <1>11, <1>12, <1>13, <1>14, <1>15,
    <1>16, <1>17, <1>18, <1>19, <1>20, <1>21, <1>22, <1>23, <1>24

\* The first of two stages that refuses answers, FirstRefusal.
LEMMA FirstOfTwo ==
  ASSUME NEW a \in Nat, NEW b \in Nat
  PROVE  FirstRefusal(<<a, b>>) = IF a # 0 THEN a ELSE b
<1> DEFINE s == <<a, b>>
           refusing == {i \in DOMAIN s : s[i] # 0}
<1>1. DOMAIN s = {1, 2} /\ s[1] = a /\ s[2] = b
  OBVIOUS
<1>2. FirstRefusal(s) = IF refusing = {} THEN 0 ELSE s[CHOOSE i \in refusing : \A j \in refusing : i <= j]
  BY DEF FirstRefusal, Pass
<1> HIDE DEF s
<1>3. refusing = {i \in {1, 2} : s[i] # 0}
  BY <1>1
<1>4. refusing # {} => \E i \in refusing : \A j \in refusing : i <= j
  BY <1>1, <1>3
<1> DEFINE k == CHOOSE i \in refusing : \A j \in refusing : i <= j
<1>5. refusing # {} => k \in refusing /\ \A j \in refusing : k <= j
  BY <1>4
<1> HIDE DEF k, refusing
<1>6. FirstRefusal(s) = IF refusing = {} THEN 0 ELSE s[k]
  BY <1>2 DEF refusing, k
<1> QED BY <1>1, <1>3, <1>5, <1>6 DEF s

\* The same of five stages.
LEMMA FirstOfFive ==
  ASSUME NEW a \in Nat, NEW b \in Nat, NEW c \in Nat, NEW d \in Nat, NEW e \in Nat
  PROVE  FirstRefusal(<<a, b, c, d, e>>) =
           IF a # 0 THEN a ELSE IF b # 0 THEN b ELSE IF c # 0 THEN c ELSE IF d # 0 THEN d ELSE e
<1> DEFINE s == <<a, b, c, d, e>>
           refusing == {i \in DOMAIN s : s[i] # 0}
           k == CHOOSE i \in refusing : \A j \in refusing : i <= j
<1>1. DOMAIN s = {1, 2, 3, 4, 5} /\ s[1] = a /\ s[2] = b /\ s[3] = c /\ s[4] = d /\ s[5] = e
  OBVIOUS
<1>2. FirstRefusal(s) = IF refusing = {} THEN 0 ELSE s[k]
  BY DEF FirstRefusal, Pass
<1> HIDE DEF s
<1>3. refusing = {i \in {1, 2, 3, 4, 5} : s[i] # 0}
  BY <1>1
<1> HIDE DEF refusing
<1>4. ASSUME NEW x \in refusing, \A j \in refusing : x <= j
      PROVE  FirstRefusal(s) = s[x]
  <2>1. k \in refusing /\ \A j \in refusing : k <= j
    BY <1>4
  <2>2. k = x
    BY <1>3, <1>4, <2>1
  <2> QED BY <1>2, <1>4, <2>2
<1>5. CASE a # 0
  <2>1. 1 \in refusing /\ \A j \in refusing : 1 <= j
    BY <1>1, <1>3, <1>5
  <2> QED BY <1>1, <1>4, <1>5, <2>1 DEF s
<1>6. CASE a = 0 /\ b # 0
  <2>1. 2 \in refusing /\ \A j \in refusing : 2 <= j
    BY <1>1, <1>3, <1>6
  <2> QED BY <1>1, <1>4, <1>6, <2>1 DEF s
<1>7. CASE a = 0 /\ b = 0 /\ c # 0
  <2>1. 3 \in refusing /\ \A j \in refusing : 3 <= j
    BY <1>1, <1>3, <1>7
  <2> QED BY <1>1, <1>4, <1>7, <2>1 DEF s
<1>8. CASE a = 0 /\ b = 0 /\ c = 0 /\ d # 0
  <2>1. 4 \in refusing /\ \A j \in refusing : 4 <= j
    BY <1>1, <1>3, <1>8
  <2> QED BY <1>1, <1>4, <1>8, <2>1 DEF s
<1>9. CASE a = 0 /\ b = 0 /\ c = 0 /\ d = 0 /\ e # 0
  <2>1. 5 \in refusing /\ \A j \in refusing : 5 <= j
    BY <1>1, <1>3, <1>9
  <2> QED BY <1>1, <1>4, <1>9, <2>1 DEF s
<1>10. CASE a = 0 /\ b = 0 /\ c = 0 /\ d = 0 /\ e = 0
  <2>1. refusing = {}
    BY <1>1, <1>3, <1>10
  <2> QED BY <1>2, <1>10, <2>1 DEF s
<1> QED BY <1>5, <1>6, <1>7, <1>8, <1>9, <1>10

\* A request, by its operation.
LEMMA RequestIs ==
  ASSUME NEW r \in AdminRequests
  PROVE  LET d == HandlerWithOptions[r.op]
         IN  /\ r.op \in Ops /\ r.token \in Tokens
             /\ r.body \in Bodies
             /\ d.method = "GET" /\ d.params = {} => r.fits = "yes"
             /\ r.unbound \cap d.params # {} => d.params # {}
             /\ r.end \in DOMAIN d.handler.answers \cup d.handler.errors
<1> DEFINE Of(op) == LET d == HandlerWithOptions[op]
                     IN  [op : {op}, token : Tokens, body : Bodies,
                          fits : IF d.method = "GET" /\ d.params = {} THEN {"yes"} ELSE {"yes", "no", "error"},
                          unbound : {{}} \cup {{p} : p \in d.params},
                          end : DOMAIN d.handler.answers \cup d.handler.errors, late : BOOLEAN]
<1>1. PICK op \in Ops : r \in Of(op)
  BY DEF AdminRequests
<1>2. r.op = op
  BY <1>1
<1>3. /\ r.token \in Tokens
      /\ r.body \in Bodies
      /\ r.fits \in IF HandlerWithOptions[op].method = "GET" /\ HandlerWithOptions[op].params = {} THEN {"yes"} ELSE {"yes", "no", "error"}
      /\ r.end \in DOMAIN HandlerWithOptions[op].handler.answers \cup HandlerWithOptions[op].handler.errors
  BY <1>1
<1> HIDE DEF Of
<1> QED BY <1>1, <1>2, <1>3

\* What the guard of a request answers.
LEMMA GuardIs ==
  ASSUME NEW r \in AdminRequests
  PROVE  LET authenticated == r.token.kind # "none" /\ r.token.good
             writes == HandlerWithOptions[r.op].method # "GET"
         IN  Guard(r) = IF r.op \in openPaths THEN 0
                        ELSE IF ~authenticated THEN 401
                        ELSE IF r.op \notin selfServicePaths /\ writes /\ r.token.role # "admin" THEN 403 ELSE 0
<1>1. r.token \in Tokens /\ HandlerWithOptions[r.op].method # "HEAD"
  BY RequestIs, Table DEF Declared
<1>2. authenticate(r.token) <=> r.token.kind # "none" /\ r.token.good
  BY <1>1 DEF authenticate, Tokens
<1>3. RequireToken(r) = IF r.token.kind # "none" /\ r.token.good THEN 0 ELSE 401
  BY <1>2 DEF RequireToken, Pass
<1>4. authenticate(r.token) =>
        RequirePermission(r) = IF HandlerWithOptions[r.op].method # "GET" /\ r.token.role # "admin" THEN 403 ELSE 0
  BY <1>1 DEF RequirePermission, RoleAllows, permissionFor, authenticate, Tokens, Pass
<1>5. RequireToken(r) \in Nat /\ RequirePermission(r) \in Nat
  BY DEF RequireToken, RequirePermission, Pass
<1>6. FirstRefusal(<<RequireToken(r), RequirePermission(r)>>) = IF RequireToken(r) # 0 THEN RequireToken(r) ELSE RequirePermission(r)
  BY <1>5, FirstOfTwo
<1> QED BY <1>2, <1>3, <1>4, <1>6 DEF Guard, openPaths, selfServicePaths, Pass

\* The stages of the server and the two of the generated code, in a row.
LEMMA InARow ==
  ASSUME NEW a \in Nat, NEW b \in Nat, NEW c \in Nat, NEW d \in Nat, NEW e \in Nat
  PROVE  <<a, b, c>> \o <<d, e>> = <<a, b, c, d, e>>
<1> DEFINE s == <<a, b, c>>
           t == <<d, e>>
           w == <<a, b, c, d, e>>
<1>1. s \in Seq(Nat) /\ t \in Seq(Nat) /\ w \in Seq(Nat) /\ Len(s) = 3 /\ Len(t) = 2 /\ Len(w) = 5
  OBVIOUS
<1>2. /\ s[1] = a /\ s[2] = b /\ s[3] = c /\ t[1] = d /\ t[2] = e
      /\ w[1] = a /\ w[2] = b /\ w[3] = c /\ w[4] = d /\ w[5] = e
  OBVIOUS
<1> HIDE DEF s, t, w
<1>3. /\ s \o t \in Seq(Nat) /\ Len(s \o t) = Len(s) + Len(t)
      /\ \A i \in 1..(Len(s) + Len(t)) : (s \o t)[i] = IF i <= Len(s) THEN s[i] ELSE t[i - Len(s)]
  BY <1>1, ConcatProperties
<1> DEFINE u == s \o t
<1>4. u \in Seq(Nat) /\ Len(u) = 5 /\ u[1] = s[1] /\ u[2] = s[2] /\ u[3] = s[3] /\ u[4] = t[1] /\ u[5] = t[2]
  <2> HIDE DEF u
  <2>1. u \in Seq(Nat) /\ Len(u) = 5 /\ \A i \in 1..5 : u[i] = IF i <= 3 THEN s[i] ELSE t[i - 3]
    BY <1>1, <1>3 DEF u
  <2> QED BY <2>1
<1> HIDE DEF u
<1>5. \A i \in 1..5 : u[i] = w[i]
  <2> TAKE i \in 1..5
  <2>1. i = 1 \/ i = 2 \/ i = 3 \/ i = 4 \/ i = 5
    OBVIOUS
  <2> QED BY <1>2, <1>4, <2>1
<1>6. s \o t = w
  BY <1>1, <1>4, <1>5, SeqEqual DEF u
<1> QED BY <1>6 DEF s, t, w

\* The answer of a request: the first refusal of its five stages, or what its service ends in.
LEMMA RefusalIs ==
  ASSUME NEW r \in AdminRequests
  PROVE  Refusal(r) = IF Guard(r) # 0 THEN Guard(r) ELSE IF Body(r) # 0 THEN Body(r)
                      ELSE IF Validate(r) # 0 THEN Validate(r) ELSE IF Bind(r) # 0 THEN Bind(r) ELSE DecodeBody(r)
<1>1. Guard(r) \in Nat
  BY GuardIs
<1>2. Body(r) \in Nat
  BY DEF Body, Pass
<1>3. Validate(r) \in Nat
  BY DEF Validate, validationFailed, Pass
<1>4. Bind(r) \in Nat
  BY DEF Bind, Pass
<1>5. DecodeBody(r) \in Nat
  BY DEF DecodeBody, Pass
<1>6. NewServer(r) \o <<Bind(r), DecodeBody(r)>> = <<Guard(r), Body(r), Validate(r), Bind(r), DecodeBody(r)>>
  BY <1>1, <1>2, <1>3, <1>4, <1>5, InARow DEF NewServer
<1> HIDE DEF NewServer
<1> DEFINE g == Guard(r)
           b == Body(r)
           v == Validate(r)
           n == Bind(r)
           c == DecodeBody(r)
<1>7. g \in Nat /\ b \in Nat /\ v \in Nat /\ n \in Nat /\ c \in Nat
  BY <1>1, <1>2, <1>3, <1>4, <1>5
<1>8. Refusal(r) = FirstRefusal(<<g, b, v, n, c>>)
  BY <1>6 DEF Refusal
<1> HIDE DEF g, b, v, n, c
<1>9. Refusal(r) = IF g # 0 THEN g ELSE IF b # 0 THEN b ELSE IF v # 0 THEN v ELSE IF n # 0 THEN n ELSE c
  BY <1>7, <1>8, FirstOfFive
<1> QED BY <1>9 DEF g, b, v, n, c

\* A GET whose body the Body middleware answers for.
GetRefused(r, o) ==
  /\ HandlerWithOptions[r.op].method = "GET" /\ ~o.ran
  /\ \/ r.body = "toolarge" /\ o.status = 413
     \/ r.body \in {"unreadable", "notjson"} /\ o.status = 400

\* Every answer is declared, or is that of a GET for its body.
LEMMA AnswerDeclared ==
  ASSUME NEW r \in AdminRequests
  PROVE  Serve(r).status \in HandlerWithOptions[r.op].responses \/ GetRefused(r, Serve(r))
<1> DEFINE d == HandlerWithOptions[r.op]
<1>1. /\ r.op \in Ops
      /\ d.method = "GET" /\ d.params = {} => r.fits = "yes"
      /\ r.unbound \cap d.params # {} => d.params # {}
      /\ r.end \in DOMAIN d.handler.answers \cup d.handler.errors
  BY RequestIs
<1>2. /\ 401 \in d.responses /\ 500 \in d.responses
      /\ d.method # "GET" => 400 \in d.responses /\ 413 \in d.responses
      /\ d.method # "GET" /\ r.op \notin openPaths \cup selfServicePaths => 403 \in d.responses
      /\ d.params # {} => 400 \in d.responses
      /\ d.method = "GET" => d.body = "none"
      /\ \A e \in DOMAIN d.handler.answers : d.handler.answers[e] \in d.responses
      /\ d.handler.errors \subseteq {"invalid", "notfound", "conflict", "failed"}
      /\ "invalid" \in d.handler.errors => 400 \in d.responses
      /\ "notfound" \in d.handler.errors => 404 \in d.responses
      /\ "conflict" \in d.handler.errors => 409 \in d.responses
      /\ "failed" \in d.handler.errors => 504 \in d.responses
  BY <1>1, Table DEF Declared
<1> HIDE DEF d
<1>3. Guard(r) \in {0} \cup d.responses
  BY <1>2, GuardIs DEF d
<1>4. /\ d.method # "GET" => Body(r) \in {0} \cup d.responses
      /\ Body(r) # 0 => \/ r.body = "toolarge" /\ Body(r) = 413
                        \/ r.body \in {"unreadable", "notjson"} /\ Body(r) = 400
  BY <1>2 DEF Body, Pass
<1>5. Validate(r) \in {0} \cup d.responses
  BY <1>1, <1>2 DEF Validate, validationFailed, Pass
<1>6. Bind(r) \in {0} \cup d.responses
  BY <1>1, <1>2 DEF Bind, Pass, d
<1>7. DecodeBody(r) \in {0} \cup d.responses
  <2>1. DecodeBody(r) \in {0, 400} /\ (d.body = "none" => DecodeBody(r) = 0)
    BY DEF DecodeBody, Pass, d
  <2>2. d.body # "none" => 400 \in d.responses
    BY <1>2
  <2> QED BY <2>1, <2>2
<1>8. Handle(r) \in d.responses
  <2>1. CASE r.end \in DOMAIN d.handler.answers
    BY <1>2, <2>1 DEF Handle, d
  <2>2. CASE r.end \notin DOMAIN d.handler.answers
    <3>1. r.end \in d.handler.errors /\ Handle(r) = fail(r.end, r.late)
      BY <1>1, <2>2 DEF Handle, d
    <3> QED BY <1>2, <3>1 DEF fail
  <2> QED BY <2>1, <2>2
<1>9. Refusal(r) \in {0} \cup d.responses \/ (d.method = "GET" /\ Body(r) # 0 /\ Refusal(r) = Body(r))
  BY <1>3, <1>4, <1>5, <1>6, <1>7, RefusalIs
<1>10. CASE Refusal(r) \in {0} \cup d.responses
  BY <1>8, <1>10 DEF Serve, Pass, d
<1>11. CASE d.method = "GET" /\ Body(r) # 0 /\ Refusal(r) = Body(r)
  <2>1. Serve(r).status = Body(r) /\ ~Serve(r).ran
    BY <1>11 DEF Serve, Pass
  <2> QED BY <1>4, <1>11, <2>1 DEF GetRefused, d
<1> QED BY <1>9, <1>10, <1>11

\* What ContractKept says of a request and its answer: the guard comes first of the stages.
LEMMA Kept ==
  ASSUME NEW r \in AdminRequests
  PROVE  LET o == Serve(r)
             authenticated == r.token.kind # "none" /\ r.token.good
         IN  /\ o.status \in HandlerWithOptions[r.op].responses \/ GetRefused(r, o)
             /\ (r.op \notin openPaths /\ ~authenticated) => o.status = 401
             /\ (r.op \in Mutations /\ authenticated /\ r.token.role = "readonly") => o.status = 403
             /\ (o.ran /\ r.op \in Mutations) => authenticated /\ r.token.role = "admin"
<1>1. r.op \in Mutations => HandlerWithOptions[r.op].method # "GET" /\ r.op \notin openPaths \cup selfServicePaths
  BY RequestIs, Table DEF Declared
<1>2. Guard(r) # 0 => Refusal(r) = Guard(r)
  BY RefusalIs
<1>3. Guard(r) # 0 => Serve(r).status = Guard(r) /\ ~Serve(r).ran
  BY <1>2 DEF Serve, Pass
<1> DEFINE authenticated == r.token.kind # "none" /\ r.token.good
<1>4. Guard(r) = IF r.op \in openPaths THEN 0
                 ELSE IF ~authenticated THEN 401
                 ELSE IF r.op \notin selfServicePaths /\ HandlerWithOptions[r.op].method # "GET" /\ r.token.role # "admin"
                      THEN 403 ELSE 0
  BY GuardIs
<1> QED BY <1>1, <1>3, <1>4, AnswerDeclared

(***************************************************************************)
(* The specification: what is computed is what the functions give.         *)
(***************************************************************************)

\* The input is one of its function's, and the result is none yet or the function's.
Computed ==
  \/ fn = "admin" /\ in \in AdminRequests /\ out \in {{}, {Serve(in)}}
  \/ fn = "window" /\ in \in WindowInputs /\ out \in {{}, {Resolved(in)}}
  \/ fn = "price" /\ in \in PriceInputs /\ out \in {{}, {Charged(in, in.targets[n]) : n \in DOMAIN in.targets}}

\* One step computes it, and nothing changes after.
LEMMA ComputedAlways == Spec => []Computed
<1>1. Init => Computed
  BY DEF Init, Computed
<1>2. Computed /\ [Next]_vars => Computed'
  <2> SUFFICES ASSUME Computed, [Next]_vars PROVE Computed'
    OBVIOUS
  <2>1. CASE ServeAdmin
    BY <2>1 DEF ServeAdmin, Computed
  <2>2. CASE ResolveWindows
    BY <2>2 DEF ResolveWindows, Computed
  <2>3. CASE Charge
    BY <2>3 DEF Charge, Computed
  <2>4. CASE UNCHANGED vars
    BY <2>4 DEF vars, Computed
  <2> QED BY <2>1, <2>2, <2>3, <2>4 DEF Next
<1> QED BY <1>1, <1>2, PTL DEF Spec

\* WindowsTile, for every two instants of the calendar and every set of quotas: the windows
\* that ClockWindow and WindowAt give tile time, and ReplaceQuotas stores a set that
\* validQuotaSet accepts exactly when none of its periods is within a microsecond.
THEOREM WindowsAlwaysTile == Spec => []WindowsTile
<1>1. Computed => WindowsTile
  <2> SUFFICES ASSUME Computed, fn = "window", NEW o \in out PROVE Tiles(in, o)
    BY DEF WindowsTile, Tiles, Inside
  <2>1. in \in WindowInputs /\ o = Resolved(in)
    BY DEF Computed
  <2> QED BY <2>1, ResolvedTiles
<1> QED BY <1>1, ComputedAlways, PTL

\* ChargesCovered, for every price table validatePricing accepts, every request and every
\* width of an integer: what actualUsage charges is within what priceEstimate reserves, and
\* Price records it, and what the other targets would have cost.
THEOREM ChargesAlwaysCovered == Spec => []ChargesCovered
<1>1. Computed => ChargesCovered
  <2> SUFFICES ASSUME Computed, fn = "price", NEW o \in out PROVE Covered(in, out, o)
    BY DEF ChargesCovered, Covered
  <2>1. in \in PriceInputs /\ out = {Charged(in, in.targets[n]) : n \in DOMAIN in.targets}
    BY DEF Computed
  <2>2. PICK n \in DOMAIN in.targets : o = Charged(in, in.targets[n])
    BY <2>1
  <2> QED BY <2>1, <2>2, ChargedIs
<1> QED BY <1>1, ComputedAlways, PTL

\* ContractKept, for every request: what the middleware, the generated code and the handlers
\* answer is declared, save a GET's 413 or 400 for a body that Body cannot take, and no
\* mutation runs without the right to write.
THEOREM ContractAlwaysKept == Spec => []ContractKept
<1>1. Computed => ContractKept
  <2> SUFFICES ASSUME Computed, fn = "admin", NEW o \in out
               PROVE  LET authenticated == in.token.kind # "none" /\ in.token.good
                      IN  /\ o.status \in HandlerWithOptions[in.op].responses \/ GetRefused(in, o)
                          /\ (in.op \notin openPaths /\ ~authenticated) => o.status = 401
                          /\ (in.op \in Mutations /\ authenticated /\ in.token.role = "readonly") => o.status = 403
                          /\ (o.ran /\ in.op \in Mutations) => authenticated /\ in.token.role = "admin"
    BY DEF ContractKept, GetRefused
  <2>1. in \in AdminRequests /\ o = Serve(in)
    BY DEF Computed
  <2> QED BY <2>1, Kept
<1> QED BY <1>1, ComputedAlways, PTL
=============================================================================
