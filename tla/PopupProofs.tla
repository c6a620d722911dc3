------------------------------ MODULE PopupProofs ------------------------------
(***************************************************************************)
(* What the multi-brand popup posts is a division of the project: theorems *)
(* about BrandPopup and the part it has in EditPage, for any projects and  *)
(* brands, any number of rows and any order of what a user does to them.   *)
(*                                                                         *)
(* The invariant has two halves.  The rows keep an order, whatever is      *)
(* added, deleted and named in them.  And the shares make a hundred        *)
(* percent, or no row has a total, or a row with a brand has none; while   *)
(* the popup is closed nothing is in its rows that would spoil the next    *)
(* project's.                                                              *)
(*                                                                         *)
(* At the end, the type of the page: with the rows of the popup and those  *)
(* of new projects bounded, nothing on the page outgrows the model.        *)
(***************************************************************************)
EXTENDS EditPageProofs

-----------------------------------------------------------------------------
(* the order of the popup's rows *)

RowFields == {"brand", "share", "total", "named", "num", "owner", "old", "was", "wasShare"}
RowOK(r) ==
  /\ DOMAIN r = RowFields
  /\ r.num \in Int /\ r.num >= NotANumber /\ (r.num # 0 => r.named)
  /\ r.total \in Int /\ r.total >= Unset /\ r.was \in Int /\ r.was >= Unset

\* Rows with an owner are named and have one above them, and the numbers grow at least as
\* fast as the rows.
InOrder(s) ==
  /\ 1 \in DOMAIN s /\ \A i \in DOMAIN s : RowOK(s[i])
  /\ \A i \in DOMAIN s : s[i].owner => s[i].named /\ \A j \in 1..i : s[j].owner
  /\ \A i \in DOMAIN s : s[i].num > 0 => s[i].num >= i
  /\ \A i, j \in DOMAIN s : i < j /\ s[i].num > 0 /\ s[j].num > 0 => s[j].num - s[i].num >= j - i

\* Only numbers, names and owners make the order.
LEMMA OrderKept ==
  ASSUME NEW s, Sequence(s), InOrder(s), NEW t, DOMAIN t = DOMAIN s,
         \A i \in DOMAIN s : RowOK(t[i]) /\ t[i].num = s[i].num /\ t[i].named = s[i].named /\ t[i].owner = s[i].owner
  PROVE  InOrder(t)
<1>1. DOMAIN s = 1..Len(s) /\ Len(s) \in Nat
  BY SeqFacts
<1>2. \A i \in DOMAIN s : 1..i \subseteq DOMAIN s
  BY <1>1
<1> QED BY <1>2 DEF InOrder

LEMMA BlankOK == RowOK(BlankRow)
BY DEF RowOK, BlankRow, RowFields, Unset, NotANumber

LEMMA BlankInOrder == ASSUME NEW s, 1 \in DOMAIN s, \A i \in DOMAIN s : s[i] = BlankRow PROVE InOrder(s)
<1>1. \A i \in DOMAIN s : RowOK(s[i])
  BY BlankOK
<1>2. BlankRow.owner = FALSE /\ BlankRow.num = 0
  BY DEF BlankRow
<1>3. \A i \in DOMAIN s : ~s[i].owner /\ ~(s[i].num > 0)
  BY <1>2
<1> QED BY <1>1, <1>2, <1>3 DEF InOrder

\* The first row of a project may be made so at any time.
LEMMA FirstInOrder ==
  ASSUME NEW s, Sequence(s), InOrder(s), NEW t, DOMAIN t = DOMAIN s, RowOK(t[1]),
         t[1].num = 1, t[1].named = TRUE, t[1].owner = TRUE, \A i \in DOMAIN s : i # 1 => t[i] = s[i]
  PROVE  InOrder(t)
<1>1. DOMAIN s = 1..Len(s) /\ Len(s) \in Nat
  BY SeqFacts
<1>2. \A i \in DOMAIN s : RowOK(t[i]) /\ 1..i \subseteq DOMAIN s
  BY <1>1 DEF InOrder
<1>3. \A i \in DOMAIN t : t[i].owner => t[i].named /\ \A j \in 1..i : t[j].owner
  BY <1>2 DEF InOrder
<1>4. \A i \in DOMAIN t : t[i].num > 0 => t[i].num >= i
  BY <1>2 DEF InOrder
<1>5. ASSUME NEW i \in DOMAIN s, NEW j \in DOMAIN s, i < j, t[i].num > 0, t[j].num > 0
      PROVE  t[j].num - t[i].num >= j - i
  <2>1. j # 1 /\ t[j] = s[j] /\ s[j].num >= j /\ s[j].num \in Int
    BY <1>1, <1>5 DEF InOrder, RowOK
  <2>2. CASE i = 1
    BY <1>1, <2>1, <2>2
  <2>3. CASE i # 1
    BY <1>5, <2>1, <2>3 DEF InOrder
  <2> QED BY <2>2, <2>3
<1> QED BY <1>2, <1>3, <1>4, <1>5 DEF InOrder

LEMMA SingleInOrder ==
  ASSUME NEW s, Sequence(s), InOrder(s), NEW brand, NEW total \in Int, total >= Unset
  PROVE  InOrder(Single(s, brand, total)) /\ InOrder([s EXCEPT ![1] = First(@)])
<1> DEFINE t == Single(s, brand, total)
           u == [s EXCEPT ![1] = First(@)]
<1>1. 1 \in DOMAIN s /\ RowOK(s[1])
  BY DEF InOrder
<1>2. DOMAIN t = DOMAIN s /\ \A i \in DOMAIN s : i # 1 => t[i] = s[i]
  BY DEF Single
<1>3. t[1] = [First(s[1]) EXCEPT !.brand = brand, !.total = total, !.share = 10000]
  BY <1>1 DEF Single
<1>4. RowOK(t[1]) /\ t[1].num = 1 /\ t[1].named = TRUE /\ t[1].owner = TRUE
  BY <1>1, <1>3 DEF First, RowOK, RowFields, NotANumber
<1>5. DOMAIN u = DOMAIN s /\ \A i \in DOMAIN s : i # 1 => u[i] = s[i]
  OBVIOUS
<1>6. u[1] = First(s[1])
  BY <1>1
<1>7. RowOK(u[1]) /\ u[1].num = 1 /\ u[1].named = TRUE /\ u[1].owner = TRUE
  <2> DEFINE r == s[1]
  <2>1. RowOK(r) /\ u[1] = First(r)
    BY <1>1, <1>6
  <2> HIDE DEF r, u
  <2> QED BY <2>1 DEF First, RowOK, RowFields, NotANumber
<1> HIDE DEF t, u
<1>8. InOrder(t) /\ InOrder(u)
  BY <1>2, <1>4, <1>5, <1>7, FirstInOrder
<1> QED BY <1>8 DEF t, u

LEMMA OpenedInOrder ==
  ASSUME NEW s, Sequence(s), InOrder(s), NEW i \in DOMAIN s, NEW field
  PROVE  InOrder(Opened(s, i, field))
<1> DEFINE t == Opened(s, i, field)
           above == s[i - 1]
           next == IF above.num \in {0, NotANumber} THEN NotANumber ELSE above.num + 1
<1>1. CASE field = "total" \/ i = 1
  BY <1>1 DEF Opened
<1>2. CASE ~(field = "total" \/ i = 1)
  <2>1. DOMAIN s = 1..Len(s) /\ Len(s) \in Nat
    BY SeqFacts
  <2>2. i \in Int /\ i > 1 /\ i - 1 \in DOMAIN s /\ \A j \in DOMAIN s : RowOK(s[j]) /\ 1..j \subseteq DOMAIN s
    BY <1>2, <2>1 DEF InOrder
  <2>3. t = [s EXCEPT ![i].named = TRUE, ![i].num = IF @ = 0 THEN next ELSE @, ![i].owner = @ \/ above.owner]
    BY <1>2 DEF Opened
  <2>4. RowOK(above) /\ RowOK(s[i])
    BY <2>2
  <2>5. next \in Int /\ next >= NotANumber /\ (next > 0 <=> above.num > 0) /\ (next > 0 => next = above.num + 1)
    BY <2>4 DEF RowOK, NotANumber
  <2> HIDE DEF next
  <2>6. DOMAIN t = DOMAIN s /\ \A j \in DOMAIN s : j # i => t[j] = s[j]
    BY <2>3
  <2>7. t[i] = [s[i] EXCEPT !.named = TRUE, !.num = IF @ = 0 THEN next ELSE @, !.owner = @ \/ above.owner]
    BY <2>3, <2>4 DEF RowOK, RowFields
  <2> HIDE DEF t
  <2>8. /\ RowOK(t[i]) /\ t[i].named = TRUE /\ t[i].num = (IF s[i].num = 0 THEN next ELSE s[i].num)
        /\ (t[i].owner <=> s[i].owner \/ above.owner)
    <3> DEFINE r == s[i]
               owner == above.owner
    <3>1. t[i] = [r EXCEPT !.named = TRUE, !.num = IF @ = 0 THEN next ELSE @, !.owner = @ \/ owner] /\ RowOK(r)
      BY <2>4, <2>7
    <3> HIDE DEF r, above, owner
    <3>2. t[i].owner = (r.owner \/ owner)
      BY <3>1 DEF RowOK, RowFields
    <3>3. RowOK(t[i]) /\ t[i].named = TRUE /\ t[i].num = (IF r.num = 0 THEN next ELSE r.num)
      BY <2>5, <3>1 DEF RowOK, RowFields
    <3> QED BY <3>2, <3>3 DEF r, owner
  <2>9. \A j \in DOMAIN t : RowOK(t[j])
    BY <2>2, <2>6, <2>8
  <2>10. \A j \in DOMAIN s : s[j].owner => t[j].owner
    BY <2>6, <2>8
  <2>11. ASSUME NEW j \in DOMAIN t, t[j].owner PROVE t[j].named /\ \A k \in 1..j : t[k].owner
    <3>1. CASE j # i \/ s[i].owner
      BY <2>2, <2>6, <2>8, <2>10, <2>11, <3>1 DEF InOrder
    <3>2. CASE j = i /\ ~s[i].owner
      <4>1. above.owner /\ \A k \in 1..(i - 1) : s[k].owner
        BY <2>2, <2>8, <2>11, <3>2 DEF InOrder
      <4> QED BY <2>2, <2>8, <2>10, <2>11, <3>2, <4>1
    <3> QED BY <3>1, <3>2
  <2>12. i - 1 < i /\ (above.num > 0 => above.num >= i - 1)
    BY <2>2 DEF InOrder
  <2>13. \A j \in DOMAIN t : t[j].num > 0 => t[j].num >= j
    <3>1. t[i].num > 0 => t[i].num >= i
      BY <2>2, <2>4, <2>5, <2>8, <2>12 DEF InOrder, RowOK
    <3> QED BY <2>6, <3>1 DEF InOrder
  <2>14. ASSUME NEW j \in DOMAIN s, j < i, s[j].num > 0, t[i].num > 0
         PROVE  t[i].num - s[j].num >= i - j
    <3>1. CASE s[i].num # 0
      BY <2>8, <2>14, <3>1 DEF InOrder
    <3>2. CASE s[i].num = 0
      <4>1. above.num > 0 /\ t[i].num = above.num + 1
        BY <2>5, <2>8, <2>14, <3>2
      <4>2. above.num - s[j].num >= (i - 1) - j
        <5>1. CASE j = i - 1
          <6>1. s[j] = above /\ above.num \in Int /\ (i - 1) - j = 0
            BY <2>2, <2>4, <5>1 DEF RowOK
          <6> HIDE DEF above
          <6> QED BY <2>2, <6>1
        <5>2. CASE j # i - 1
          <6>1. j < i - 1
            BY <2>1, <2>14, <5>2
          <6> QED BY <2>2, <2>14, <4>1, <6>1 DEF InOrder
        <5> QED BY <5>1, <5>2
      <4> QED BY <2>1, <2>2, <2>4, <4>1, <4>2 DEF RowOK
    <3> QED BY <3>1, <3>2
  <2>15. ASSUME NEW j \in DOMAIN s, i < j, s[j].num > 0, t[i].num > 0
         PROVE  s[j].num - t[i].num >= j - i
    <3>1. CASE s[i].num # 0
      BY <2>8, <2>15, <3>1 DEF InOrder
    <3>2. CASE s[i].num = 0
      <4>1. above.num > 0 /\ t[i].num = above.num + 1
        BY <2>5, <2>8, <2>15, <3>2
      <4>2. i - 1 < j
        BY <2>1, <2>15
      <4>3. s[j].num - above.num >= j - (i - 1)
        BY <2>2, <2>15, <4>1, <4>2 DEF InOrder
      <4> QED BY <2>1, <2>2, <2>4, <4>1, <4>3 DEF RowOK
    <3> QED BY <3>1, <3>2
  <2>16. \A j, k \in DOMAIN t : j < k /\ t[j].num > 0 /\ t[k].num > 0 => t[k].num - t[j].num >= k - j
    BY <2>1, <2>6, <2>14, <2>15 DEF InOrder
  <2>17. InOrder(t)
    BY <2>6, <2>9, <2>11, <2>13, <2>16 DEF InOrder
  <2> QED BY <2>17 DEF t
<1> QED BY <1>1, <1>2


Left(s) == 10000 - SumFunction([j \in 1..(NBrands(s) - 1) |-> Percent(Amount(s[j]), SumTotals(s))])
SharePut(s, i) ==
  IF s[i].total = Unset THEN Unset
  ELSE IF SumTotals(s) = 0 THEN 0
  ELSE IF AtLast(s, i) THEN Left(s) ELSE Percent(Amount(s[i]), SumTotals(s))
LEMMA ShareOutIs ==
  ASSUME NEW s
  PROVE  ShareOut(s) = [i \in DOMAIN s |-> [s[i] EXCEPT !.share = SharePut(s, i)]]
BY DEF ShareOut, SharePut, Left

LEMMA EditedInOrder ==
  ASSUME NEW s, Sequence(s), InOrder(s), NEW i, NEW brand, NEW total \in Int
  PROVE  /\ InOrder([s EXCEPT ![i].brand = brand]) /\ InOrder(ShareOut(s)) /\ InOrder(Owned(s))
         /\ total >= Unset => InOrder([s EXCEPT ![i].total = total])
         /\ LET r == [s EXCEPT ![i].total = total] IN InOrder(Restored(r, i))
<1>0. \A j \in DOMAIN s : RowOK(s[j])
  BY DEF InOrder
<1>1. InOrder([s EXCEPT ![i].brand = brand])
  <2> DEFINE t == [s EXCEPT ![i].brand = brand]
  <2>1. DOMAIN t = DOMAIN s
    OBVIOUS
  <2>2. ASSUME NEW j \in DOMAIN s
        PROVE  RowOK(t[j]) /\ t[j].num = s[j].num /\ t[j].named = s[j].named /\ t[j].owner = s[j].owner
    <3>1. t[j] = s[j] \/ t[j] = [s[j] EXCEPT !.brand = brand]
      OBVIOUS
    <3> HIDE DEF t
    <3> QED BY <1>0, <3>1 DEF RowOK, RowFields
  <2> HIDE DEF t
  <2>3. InOrder(t)
    BY <2>1, <2>2, OrderKept
  <2> QED BY <2>3 DEF t
<1>2. InOrder(ShareOut(s))
  <2> DEFINE t == ShareOut(s)
  <2>1. DOMAIN t = DOMAIN s /\ \A j \in DOMAIN s : \E share : t[j] = [s[j] EXCEPT !.share = share]
    BY ShareOutIs
  <2> HIDE DEF t
  <2>2. ASSUME NEW j \in DOMAIN s
        PROVE  RowOK(t[j]) /\ t[j].num = s[j].num /\ t[j].named = s[j].named /\ t[j].owner = s[j].owner
    <3>1. PICK share : t[j] = [s[j] EXCEPT !.share = share]
      BY <2>1
    <3> QED BY <1>0, <3>1 DEF RowOK, RowFields
  <2>3. InOrder(t)
    BY <2>1, <2>2, OrderKept
  <2> QED BY <2>3 DEF t
<1>3. InOrder(Owned(s))
  <2> DEFINE t == Owned(s)
             raised(j) == j \in Named(s) /\ \A k \in 1..(j - 1) : ~Incomplete(s[k])
  <2>1. DOMAIN t = DOMAIN s
    BY DEF Owned
  <2>2. \A j \in DOMAIN s : t[j] = IF raised(j) THEN [s[j] EXCEPT !.owner = TRUE] ELSE s[j]
    BY DEF Owned
  <2>3. DOMAIN s = 1..Len(s) /\ Len(s) \in Nat
    BY SeqFacts
  <2>4. \A j \in DOMAIN s : 1..j \subseteq DOMAIN s /\ \A k \in 1..j : 1..k \subseteq 1..j /\ 1..(k - 1) \subseteq 1..(j - 1)
    BY <2>3
  <2>5. \A j \in DOMAIN s : raised(j) => s[j].named /\ \A k \in 1..j : raised(k)
    <3>1. \A j \in Named(s) : s[j].named /\ \A k \in 1..j : k \in Named(s)
      BY <2>3, <2>4 DEF Named
    <3> QED BY <2>4, <3>1
  <2> HIDE DEF t, raised
  <2>6. \A j \in DOMAIN s : /\ RowOK(t[j]) /\ t[j].num = s[j].num /\ t[j].named = s[j].named
                            /\ (t[j].owner <=> s[j].owner \/ raised(j))
    <3> SUFFICES ASSUME NEW j \in DOMAIN s
                 PROVE  /\ RowOK(t[j]) /\ t[j].num = s[j].num /\ t[j].named = s[j].named
                        /\ (t[j].owner <=> s[j].owner \/ raised(j))
      OBVIOUS
    <3>1. CASE raised(j)
      BY <1>0, <2>2, <3>1 DEF RowOK, RowFields
    <3>2. CASE ~raised(j)
      BY <1>0, <2>2, <3>2
    <3> QED BY <3>1, <3>2
  <2>7. \A j \in DOMAIN t : t[j].owner => t[j].named /\ \A k \in 1..j : t[k].owner
    BY <2>1, <2>4, <2>5, <2>6 DEF InOrder
  <2>8. InOrder(t)
    BY <2>1, <2>6, <2>7 DEF InOrder
  <2> QED BY <2>8 DEF t
<1> DEFINE r == [s EXCEPT ![i].total = total]
<1>4. DOMAIN r = DOMAIN s /\ \A j \in DOMAIN s : r[j] = s[j] \/ r[j] = [s[j] EXCEPT !.total = total]
  OBVIOUS
<1>5. \A j \in DOMAIN s : j # i => r[j] = s[j]
  OBVIOUS
<1> HIDE DEF r
<1>6. ASSUME total >= Unset PROVE InOrder(r)
  <2>1. \A j \in DOMAIN s : RowOK(r[j]) /\ r[j].num = s[j].num /\ r[j].named = s[j].named /\ r[j].owner = s[j].owner
    BY <1>0, <1>4, <1>6 DEF RowOK, RowFields
  <2> QED BY <1>4, <2>1, OrderKept
<1>7. InOrder(Restored(r, i))
  <2> DEFINE t == Restored(r, i)
             back == IF r[i].was = Unset THEN 0 ELSE r[i].was
             share == IF r[i].was = Unset THEN 0 ELSE r[i].wasShare
  <2>1. DOMAIN t = DOMAIN s
    BY <1>4 DEF Restored
  <2>2. \A j \in DOMAIN s : j # i => t[j] = s[j]
    BY <1>4, <1>5 DEF Restored
  <2>3. ASSUME i \in DOMAIN s
        PROVE  RowOK(t[i]) /\ t[i].num = s[i].num /\ t[i].named = s[i].named /\ t[i].owner = s[i].owner
    <3>1. RowOK(s[i]) /\ DOMAIN r[i] = RowFields /\ i \in DOMAIN r
      BY <1>0, <1>4, <2>3 DEF RowOK, RowFields
    <3>2. /\ r[i].was = s[i].was /\ r[i].num = s[i].num /\ r[i].named = s[i].named /\ r[i].owner = s[i].owner
      BY <1>4, <2>3, <3>1 DEF RowOK, RowFields
    <3>3. back \in Int /\ back >= Unset
      BY <3>1, <3>2 DEF RowOK, Unset
    <3>4. t[i] = [r[i] EXCEPT !.total = back, !.share = share]
      BY <3>1 DEF Restored
    <3> HIDE DEF t, back, share
    <3> QED BY <3>1, <3>2, <3>3, <3>4 DEF RowOK, RowFields
  <2> HIDE DEF t
  <2>4. \A j \in DOMAIN s : RowOK(t[j]) /\ t[j].num = s[j].num /\ t[j].named = s[j].named /\ t[j].owner = s[j].owner
    BY <1>0, <2>2, <2>3
  <2>5. InOrder(t)
    BY <2>1, <2>4, OrderKept
  <2> QED BY <2>5 DEF t
<1> QED BY <1>1, <1>2, <1>3, <1>6, <1>7 DEF r

LEMMA AppendedInOrder ==
  ASSUME NEW s, Sequence(s), InOrder(s), NEW i
  PROVE  InOrder(Append(s, BlankRow)) /\ InOrder(Grown(s, i))
<1> DEFINE t == Append(s, BlankRow)
           n == Len(s)
<1>1. DOMAIN s = 1..n /\ n \in Nat
  BY SeqFacts
<1>2. DOMAIN t = 1..(n + 1) /\ t[n + 1] = BlankRow /\ \A j \in DOMAIN s : t[j] = s[j]
  BY <1>1, AppendIs
<1> HIDE DEF t, n
<1>3. \A j \in DOMAIN t : j = n + 1 \/ j \in DOMAIN s
  BY <1>1, <1>2
<1>4. BlankRow.owner = FALSE /\ BlankRow.num = 0
  BY DEF BlankRow
<1>5. \A j \in DOMAIN t : RowOK(t[j])
  BY <1>2, <1>3, BlankOK DEF InOrder
<1>6. \A j \in DOMAIN t : t[j].owner \/ t[j].num > 0 => j \in DOMAIN s /\ t[j] = s[j] /\ 1..j \subseteq DOMAIN s
  BY <1>1, <1>2, <1>3, <1>4
<1>7. InOrder(t)
  BY <1>1, <1>2, <1>5, <1>6 DEF InOrder
<1>8. Grown(s, i) = t \/ Grown(s, i) = s
  BY DEF Grown, t
<1> QED BY <1>7, <1>8 DEF t


LEMMA ConcatHas ==
  ASSUME NEW s, NEW t, Sequence(s), Sequence(t)
  PROVE  /\ Sequence(s \o t) /\ DOMAIN (s \o t) = 1..(Len(s) + Len(t))
         /\ \A i \in 1..Len(s) : (s \o t)[i] = s[i]
         /\ \A i \in 1..(Len(s) + Len(t)) : i > Len(s) => i - Len(s) \in 1..Len(t) /\ (s \o t)[i] = t[i - Len(s)]
<1> DEFINE S == {s[i] : i \in DOMAIN s} \cup {t[i] : i \in DOMAIN t}
           c == s \o t
           m == Len(s)
           n == Len(t)
<1>1. s \in Seq(S) /\ t \in Seq(S) /\ m \in Nat /\ n \in Nat
  BY SeqFacts, SeqIn
<1> HIDE DEF S
<1>2. c \in Seq(S) /\ Len(c) = m + n /\ \A i \in 1..(m + n) : c[i] = IF i <= m THEN s[i] ELSE t[i - m]
  BY <1>1, ConcatProperties
<1>3. DOMAIN c = 1..(m + n) /\ Sequence(c)
  BY <1>2, SeqFacts, LenProperties
<1> HIDE DEF c, m, n
<1>4. \A i \in 1..m : i \in 1..(m + n) /\ i <= m
  BY <1>1
<1>5. \A i \in 1..(m + n) : i > m => ~(i <= m) /\ i - m \in 1..n
  BY <1>1
<1>6. /\ \A i \in 1..m : c[i] = s[i]
      /\ \A i \in 1..(m + n) : i > m => i - m \in 1..n /\ c[i] = t[i - m]
  BY <1>2, <1>4, <1>5
<1> QED BY <1>3, <1>6 DEF c, m, n

Covers(x, s, kids) ==
  /\ DOMAIN x = DOMAIN kids \cup {i \in DOMAIN s : i > Len(kids)}
  /\ \A i \in DOMAIN kids : x[i] = kids[i]
  /\ \A i \in DOMAIN s : i > Len(kids) => x[i] = s[i]

LEMMA ExistingHas == ASSUME NEW s, NEW kids, Sequence(s), Sequence(kids) PROVE Covers(Existing(s, kids), s, kids)
<1> DEFINE S == {s[i] : i \in DOMAIN s}
           m == Len(kids)
           n == Len(s)
           u == SubSeq(s, m + 1, n)
           t == kids \o u
<1>1. s \in Seq(S) /\ m \in Nat /\ n \in Nat /\ DOMAIN s = 1..n /\ DOMAIN kids = 1..m
  BY SeqFacts
<1> HIDE DEF S, m, n
<1>2. /\ u \in Seq(S) /\ Len(u) = (IF m + 1 <= n THEN n - (m + 1) + 1 ELSE 0)
      /\ \A i \in 1..(n - (m + 1) + 1) : u[i] = s[m + 1 + i - 1]
  <2>1. \A i \in (m + 1)..n : s[i] \in S
    BY <1>1, ElementOfSeq
  <2> QED BY <1>1, <2>1, SubSeqProperties
<1> HIDE DEF u
<1>3. /\ DOMAIN t = 1..(m + Len(u)) /\ \A i \in 1..m : t[i] = kids[i]
      /\ \A i \in 1..(m + Len(u)) : i > m => i - m \in 1..Len(u) /\ t[i] = u[i - m]
  <2>1. Sequence(u)
    BY <1>2, SeqFacts
  <2> QED BY <2>1, ConcatHas DEF m
<1> HIDE DEF t
<1>4. DOMAIN t = 1..m \cup {i \in 1..n : i > m}
  <2>1. CASE m + 1 <= n
    BY <1>1, <1>2, <1>3, <2>1
  <2>2. CASE ~(m + 1 <= n)
    BY <1>1, <1>2, <1>3, <2>2
  <2> QED BY <2>1, <2>2
<1>5. ASSUME NEW i \in 1..n, i > m PROVE t[i] = s[i]
  <2>1. i \in 1..(m + Len(u)) /\ i - m \in 1..(n - (m + 1) + 1) /\ m + 1 + (i - m) - 1 = i
    BY <1>1, <1>2, <1>5
  <2>2. t[i] = u[i - m]
    BY <1>3, <1>5, <2>1
  <2>3. u[i - m] = s[m + 1 + (i - m) - 1]
    BY <1>2, <2>1
  <2> QED BY <2>1, <2>2, <2>3
<1>6. Covers(t, s, kids)
  BY <1>1, <1>3, <1>4, <1>5 DEF Covers, m
<1> QED BY <1>6 DEF Existing, m, n, u, t

LEMMA ExistingInOrder ==
  ASSUME NEW s, NEW kids, Sequence(s), InOrder(s), Sequence(kids),
         \A i \in DOMAIN kids : RowOK(kids[i]) /\ kids[i].num = i /\ kids[i].owner
  PROVE  InOrder(Existing(s, kids))
<1> DEFINE t == Existing(s, kids)
           m == Len(kids)
           n == Len(s)
<1>1. m \in Nat /\ n \in Nat /\ DOMAIN s = 1..n /\ DOMAIN kids = 1..m
  BY SeqFacts
<1>2. /\ DOMAIN t = DOMAIN kids \cup {i \in DOMAIN s : i > m} /\ \A i \in DOMAIN kids : t[i] = kids[i]
      /\ \A i \in DOMAIN s : i > m => t[i] = s[i]
  <2>1. t = Existing(s, kids)
    OBVIOUS
  <2> HIDE DEF t
  <2>2. Covers(t, s, kids)
    BY <2>1, ExistingHas
  <2> QED BY <2>2 DEF Covers
<1> HIDE DEF t, m, n
<1>3. \A i \in DOMAIN t : \/ i \in 1..m /\ t[i] = kids[i] /\ t[i].num = i /\ t[i].owner /\ t[i].named
                          \/ i \in 1..n /\ i > m /\ t[i] = s[i]
  <2>1. \A i \in DOMAIN kids : kids[i].named
    BY <1>1 DEF RowOK
  <2> QED BY <1>1, <1>2, <2>1
<1>4. 1 \in DOMAIN t /\ \A i \in DOMAIN t : RowOK(t[i])
  <2>1. 1 \in DOMAIN t
    BY <1>1, <1>2 DEF InOrder
  <2> QED BY <1>1, <1>3, <2>1 DEF InOrder
<1>5. ASSUME NEW i \in DOMAIN t, t[i].owner PROVE t[i].named /\ \A j \in 1..i : t[j].owner
  <2>1. CASE i \in 1..m
    <3>1. \A j \in 1..i : j \in DOMAIN kids
      BY <1>1, <2>1
    <3>2. \A j \in DOMAIN kids : t[j].owner
      BY <1>2
    <3> QED BY <1>1, <1>3, <2>1, <3>1, <3>2
  <2>2. CASE i \in 1..n /\ i > m
    <3>1. s[i].owner /\ t[i] = s[i] /\ \A j \in 1..i : s[j].owner
      BY <1>1, <1>2, <1>5, <2>2 DEF InOrder
    <3>2. \A j \in 1..i : j \in DOMAIN kids \/ (j \in DOMAIN s /\ j > m)
      BY <1>1, <2>2
    <3> QED BY <1>1, <1>2, <2>2, <3>1, <3>2 DEF InOrder
  <2> QED BY <1>3, <2>1, <2>2
<1>6. \A i \in DOMAIN t : t[i].num > 0 => t[i].num >= i
  BY <1>1, <1>3 DEF InOrder
<1>7. ASSUME NEW i \in DOMAIN t, NEW j \in DOMAIN t, i < j, t[i].num > 0, t[j].num > 0
      PROVE  t[j].num - t[i].num >= j - i
  <2>1. CASE i \in 1..m /\ t[i].num = i
    BY <1>1, <1>3, <1>4, <1>6, <1>7, <2>1 DEF RowOK
  <2>2. CASE i \in 1..n /\ i > m /\ t[i] = s[i]
    <3>1. j \in 1..n /\ j > m /\ t[j] = s[j]
      BY <1>1, <1>3, <1>7, <2>2
    <3> QED BY <1>1, <1>7, <2>2, <3>1 DEF InOrder
  <2> QED BY <1>3, <2>1, <2>2
<1>8. InOrder(t)
  BY <1>4, <1>5, <1>6, <1>7 DEF InOrder
<1> QED BY <1>8 DEF t


\* The places of the numbers of a set among them.
UpTo(kept, i) == {j \in kept : j <= i}
Place(kept, i) == Cardinality(UpTo(kept, i))
LEMMA PlacesAre ==
  ASSUME NEW n \in Nat, NEW kept \in SUBSET (1..n)
  PROVE  /\ Cardinality(kept) \in Nat
         /\ \A i \in kept : Place(kept, i) \in 1..Cardinality(kept) /\ Place(kept, i) <= i
         /\ \A i, j \in kept :
              i < j => Place(kept, i) < Place(kept, j) /\ Place(kept, j) - Place(kept, i) <= j - i
         /\ \A m \in 1..Cardinality(kept) : \E i \in kept : Place(kept, i) = m
<1> DEFINE c == Cardinality(kept)
           place == [i \in kept |-> Place(kept, i)]
<1>0. \A i \in kept : i \in Nat /\ i >= 1 /\ i <= n
  OBVIOUS
<1>1. IsFiniteSet(1..n)
  BY FS_Interval
<1>2. IsFiniteSet(kept) /\ c \in Nat
  BY <1>1, FS_Subset, FS_CardinalityType
<1>3. ASSUME NEW i \in kept
      PROVE  /\ IsFiniteSet(UpTo(kept, i)) /\ place[i] = Cardinality(UpTo(kept, i))
             /\ place[i] \in 1..c /\ place[i] <= i /\ i \in 1..n
  <2> DEFINE u == UpTo(kept, i)
  <2>1. u \subseteq kept /\ i \in u /\ u \subseteq 1..i /\ i \in 1..n
    <3>1. i \in Nat /\ i <= n
      BY <1>0
    <3>2. i <= i
      BY <3>1
    <3>3. i \in u /\ u \subseteq kept
      BY <3>2 DEF UpTo
    <3>4. ASSUME NEW k \in u PROVE k \in 1..i
      BY <1>0, <3>1 DEF UpTo
    <3> QED BY <3>1, <3>3, <3>4
  <2>2. IsFiniteSet(1..i) /\ Cardinality(1..i) = i
    BY <2>1, FS_Interval
  <2>3. place[i] = Cardinality(u)
    BY DEF Place
  <2> HIDE DEF u
  <2>4. IsFiniteSet(u) /\ Cardinality(u) \in Nat /\ Cardinality(u) <= c /\ Cardinality(u) <= i
    BY <1>2, <2>1, <2>2, FS_Subset, FS_CardinalityType
  <2>5. Cardinality(u) # 0
    BY <2>1, <2>4, FS_EmptySet
  <2> QED BY <1>2, <2>1, <2>3, <2>4, <2>5 DEF u
<1>4. ASSUME NEW i \in kept, NEW j \in kept, i < j
      PROVE  place[i] < place[j] /\ place[j] - place[i] <= j - i
  <2> DEFINE u == UpTo(kept, i)
             v == UpTo(kept, j)
             w == (i + 1)..j
  <2>0. i \in Nat /\ j \in Nat
    BY <1>3
  <2>1. u \subseteq v /\ j \in v /\ j \notin u /\ v \subseteq u \cup w
    <3>1. ASSUME NEW k \in v PROVE k \in u \cup w
      BY <1>0, <1>4, <2>0 DEF UpTo
    <3>2. ASSUME NEW k \in u PROVE k \in v
      BY <1>0, <1>4, <2>0 DEF UpTo
    <3>3. j \in v /\ j \notin u
      BY <1>0, <1>4, <2>0 DEF UpTo
    <3> QED BY <3>1, <3>2, <3>3
  <2>2. IsFiniteSet(w) /\ Cardinality(w) = j - i
    BY <1>4, <2>0, FS_Interval
  <2>3. IsFiniteSet(u) /\ IsFiniteSet(v) /\ place[i] = Cardinality(u) /\ place[j] = Cardinality(v)
    BY <1>3
  <2> HIDE DEF u, v, w
  <2>4. Cardinality(u) \in Nat /\ Cardinality(v) \in Nat /\ Cardinality(u) <= Cardinality(v) /\ Cardinality(u) # Cardinality(v)
    BY <2>1, <2>3, FS_Subset, FS_CardinalityType
  <2>5. /\ IsFiniteSet(u \cup w) /\ Cardinality(u \cap w) \in Nat
        /\ Cardinality(u \cup w) = Cardinality(u) + Cardinality(w) - Cardinality(u \cap w)
    <3>1. IsFiniteSet(u \cap w)
      BY <2>3, FS_Subset
    <3> QED BY <2>2, <2>3, <3>1, FS_Union, FS_CardinalityType
  <2>6. Cardinality(v) <= Cardinality(u \cup w)
    BY <2>1, <2>5, FS_Subset
  <2> QED BY <2>0, <2>2, <2>3, <2>4, <2>5, <2>6
<1>5. \A m \in 1..c : \E i \in kept : place[i] = m
  <2>1. IsFiniteSet(1..c) /\ Cardinality(1..c) = c
    BY <1>2, FS_Interval
  <2>2. place \in Injection(kept, 1..c)
    <3>1. place \in [kept -> 1..c]
      BY <1>3
    <3>2. ASSUME NEW i \in kept, NEW j \in kept, place[i] = place[j] PROVE i = j
      <4>1. i \in Nat /\ j \in Nat /\ place[i] \in Nat /\ place[j] \in Nat
        BY <1>2, <1>3
      <4>2. ~(i < j) /\ ~(j < i)
        BY <1>4, <3>2, <4>1
      <4> QED BY <4>1, <4>2
    <3> QED BY <3>1, <3>2 DEF Injection, IsInjective
  <2> HIDE DEF c
  <2>3. Cardinality(kept) = Cardinality(1..c)
    BY <2>1 DEF c
  <2> HIDE DEF place
  <2>4. place \in Surjection(kept, 1..c)
    BY <1>2, <2>1, <2>2, <2>3, FS_Injection
  <2> QED BY <2>4 DEF Surjection
<1> QED BY <1>2, <1>3, <1>4, <1>5

\* What is left of rows keeps its order, and moves up.
MovedUp(s, t, n, from) ==
  /\ from \in [1..n -> DOMAIN s]
  /\ \A i \in 1..n : t[i] = s[from[i]] /\ from[i] >= i
  /\ \A i, j \in 1..n : i < j => from[j] - from[i] >= j - i
LEMMA WithoutHas ==
  ASSUME NEW s, Sequence(s), NEW gone \in SUBSET DOMAIN s
  PROVE  LET t == Without(s, gone)
             n == Cardinality(DOMAIN s \ gone)
         IN  /\ n \in Nat /\ DOMAIN t = 1..n /\ (gone # DOMAIN s => n >= 1)
             /\ \E from : MovedUp(s, t, n, from)
<1> DEFINE kept == DOMAIN s \ gone
           n == Cardinality(kept)
           place == [i \in kept |-> Place(kept, i)]
           t == Without(s, gone)
           from == [m \in 1..n |-> CHOOSE i \in kept : Place(kept, i) = m]
<1>1. DOMAIN s = 1..Len(s) /\ Len(s) \in Nat
  BY SeqFacts
<1>2. /\ n \in Nat
      /\ \A i \in kept : place[i] \in 1..n /\ place[i] <= i
      /\ \A i, j \in kept : i < j => place[i] < place[j] /\ place[j] - place[i] <= j - i
      /\ \A m \in 1..n : \E i \in kept : place[i] = m
  <2>1. Len(s) \in Nat /\ kept \in SUBSET (1..Len(s))
    BY <1>1
  <2> HIDE DEF kept
  <2> QED BY <2>1, PlacesAre
<1>3. t = [m \in 1..n |-> s[CHOOSE i \in kept : Place(kept, i) = m]]
  BY DEF Without, Place, UpTo
<1>4. kept \subseteq Int
  BY <1>1
<1>5. \A m \in 1..n : from[m] \in kept /\ place[from[m]] = m
  <2> SUFFICES ASSUME NEW m \in 1..n PROVE from[m] \in kept /\ place[from[m]] = m
    OBVIOUS
  <2>1. \E i \in kept : Place(kept, i) = m
    BY <1>2
  <2> HIDE DEF kept
  <2>2. from[m] \in kept /\ Place(kept, from[m]) = m
    BY <2>1
  <2> QED BY <2>2
<1> HIDE DEF kept, n, place, t
<1>6. DOMAIN t = 1..n /\ \A m \in 1..n : t[m] = s[from[m]]
  BY <1>3
<1>7. gone # DOMAIN s => n >= 1
  <2> SUFFICES ASSUME gone # DOMAIN s PROVE n >= 1
    OBVIOUS
  <2>1. PICK i : i \in kept
    BY DEF kept
  <2>2. Place(kept, i) \in 1..n
    BY <1>2, <2>1 DEF place
  <2> QED BY <1>2, <2>2
<1> HIDE DEF from
<1>8. from \in [1..n -> DOMAIN s]
  BY <1>5 DEF from, kept
<1>9. \A m \in 1..n : from[m] >= m
  BY <1>2, <1>5
<1>10. ASSUME NEW i \in 1..n, NEW j \in 1..n, i < j PROVE from[j] - from[i] >= j - i
  <2>1. /\ from[i] \in kept /\ from[j] \in kept /\ place[from[i]] = i /\ place[from[j]] = j
        /\ from[i] \in Int /\ from[j] \in Int
    BY <1>4, <1>5
  <2>2. from[i] < from[j]
    <3>1. CASE from[j] < from[i]
      BY <1>2, <1>10, <2>1, <3>1
    <3>2. CASE from[j] = from[i]
      BY <1>2, <1>10, <2>1, <3>2
    <3> QED BY <2>1, <3>1, <3>2
  <2>3. j - i <= from[j] - from[i]
    BY <1>2, <2>1, <2>2
  <2> QED BY <1>2, <2>1, <2>3
<1>11. MovedUp(s, t, n, from)
  BY <1>6, <1>8, <1>9, <1>10 DEF MovedUp
<1> QED BY <1>2, <1>6, <1>7, <1>11 DEF n, kept, t


LEMMA MovedUpInOrder ==
  ASSUME NEW s, Sequence(s), InOrder(s), NEW n \in Nat, NEW m \in Nat, n <= m, m >= 1, NEW t, DOMAIN t = 1..m,
         NEW from, MovedUp(s, t, n, from), \A i \in 1..m : i > n => t[i] = BlankRow
  PROVE  InOrder(t)
<1>1. DOMAIN s = 1..Len(s) /\ Len(s) \in Nat
  BY SeqFacts
<1>2. \A i \in DOMAIN s : i \in Int /\ RowOK(s[i])
  BY <1>1 DEF InOrder
<1>3. BlankRow.owner = FALSE /\ BlankRow.num = 0
  BY DEF BlankRow
<1>4. \A i \in DOMAIN t : i \in 1..n \/ (i > n /\ t[i] = BlankRow)
  OBVIOUS
<1>0. /\ from \in [1..n -> DOMAIN s] /\ \A i \in 1..n : t[i] = s[from[i]] /\ from[i] >= i
      /\ \A i, j \in 1..n : i < j => from[j] - from[i] >= j - i
  BY DEF MovedUp
<1>5. \A i \in DOMAIN t : t[i].owner \/ t[i].num > 0 => i \in 1..n /\ t[i] = s[from[i]] /\ from[i] \in DOMAIN s
  BY <1>0, <1>3, <1>4
<1>6. 1 \in DOMAIN t /\ \A i \in DOMAIN t : RowOK(t[i])
  BY <1>0, <1>2, <1>4, BlankOK
<1>7. ASSUME NEW i \in DOMAIN t, t[i].owner PROVE t[i].named /\ \A j \in 1..i : t[j].owner
  <2>1. i \in 1..n /\ t[i] = s[from[i]] /\ from[i] \in DOMAIN s
    BY <1>5, <1>7
  <2>2. t[i].named /\ \A j \in 1..from[i] : s[j].owner
    BY <1>7, <2>1 DEF InOrder
  <2>3. ASSUME NEW j \in 1..i PROVE t[j].owner
    <3>1. j \in 1..n /\ from[j] \in DOMAIN s /\ t[j] = s[from[j]]
      BY <1>0, <2>1
    <3>2. from[j] <= from[i]
      <4>1. from[j] \in Int /\ from[i] \in Int /\ i \in Int /\ j \in Int
        BY <1>2, <2>1, <3>1
      <4>2. CASE j = i
        BY <4>1, <4>2
      <4>3. CASE j < i
        <5>1. from[i] - from[j] >= i - j
          BY <1>0, <2>1, <3>1, <4>3
        <5> QED BY <4>1, <4>3, <5>1
      <4> QED BY <4>1, <4>2, <4>3
    <3>3. from[j] \in 1..from[i]
      BY <1>1, <2>1, <3>1, <3>2
    <3> QED BY <2>2, <3>1, <3>3
  <2> QED BY <2>2, <2>3
<1>8. ASSUME NEW i \in DOMAIN t, t[i].num > 0 PROVE t[i].num >= i
  <2>1. i \in 1..n /\ t[i] = s[from[i]] /\ from[i] \in DOMAIN s
    BY <1>5, <1>8
  <2>2. t[i].num >= from[i] /\ from[i] >= i /\ from[i] \in Int /\ t[i].num \in Int
    BY <1>0, <1>2, <1>8, <2>1 DEF InOrder, RowOK
  <2> QED BY <2>1, <2>2
<1>9. ASSUME NEW i \in DOMAIN t, NEW j \in DOMAIN t, i < j, t[i].num > 0, t[j].num > 0
      PROVE  t[j].num - t[i].num >= j - i
  <2>1. /\ i \in 1..n /\ t[i] = s[from[i]] /\ from[i] \in DOMAIN s
        /\ j \in 1..n /\ t[j] = s[from[j]] /\ from[j] \in DOMAIN s
    BY <1>5, <1>9
  <2>2. from[j] - from[i] >= j - i /\ from[i] \in Int /\ from[j] \in Int /\ t[i].num \in Int /\ t[j].num \in Int
    BY <1>0, <1>2, <1>9, <2>1 DEF RowOK
  <2>3. from[i] < from[j]
    BY <1>9, <2>1, <2>2
  <2>4. t[j].num - t[i].num >= from[j] - from[i]
    BY <1>9, <2>1, <2>3 DEF InOrder
  <2> QED BY <2>1, <2>2, <2>4
<1> QED BY <1>6, <1>7, <1>8, <1>9 DEF InOrder

LEMMA WithoutInOrder ==
  ASSUME NEW s, Sequence(s), InOrder(s), NEW gone \in SUBSET DOMAIN s, gone # DOMAIN s
  PROVE  InOrder(Without(s, gone))
<1> DEFINE t == Without(s, gone)
           n == Cardinality(DOMAIN s \ gone)
<1>1. n \in Nat /\ DOMAIN t = 1..n /\ n >= 1
  BY WithoutHas
<1>2. PICK from : MovedUp(s, t, n, from)
  BY WithoutHas
<1> HIDE DEF t, n
<1>3. \A i \in 1..n : ~(i > n)
  BY <1>1
<1>4. InOrder(t)
  BY <1>1, <1>2, <1>3, MovedUpInOrder
<1> QED BY <1>4 DEF t

LEMMA RenumberedInOrder ==
  ASSUME NEW s, Sequence(s), InOrder(s), NEW t, DOMAIN t = DOMAIN s,
         \A i \in DOMAIN s : RowOK(t[i]) /\ t[i].named = s[i].named /\ t[i].owner = s[i].owner
                             /\ t[i].num = IF s[i].named THEN i ELSE s[i].num
  PROVE  InOrder(t)
<1>1. DOMAIN s = 1..Len(s) /\ Len(s) \in Nat
  BY SeqFacts
<1>2. \A i \in DOMAIN s : 1..i \subseteq DOMAIN s /\ RowOK(s[i])
  BY <1>1 DEF InOrder
<1>3. \A i \in DOMAIN t : t[i].num > 0 => t[i].num = i
  BY <1>2 DEF RowOK
<1>4. \A i \in DOMAIN t : t[i].owner => t[i].named /\ \A j \in 1..i : t[j].owner
  BY <1>2 DEF InOrder
<1>5. \A i \in DOMAIN t : t[i].num > 0 => t[i].num >= i
  BY <1>1, <1>3
<1>6. \A i, j \in DOMAIN t : i < j /\ t[i].num > 0 /\ t[j].num > 0 => t[j].num - t[i].num >= j - i
  BY <1>1, <1>3
<1> QED BY <1>4, <1>5, <1>6 DEF InOrder

LEMMA DeleteInOrder ==
  ASSUME NEW s, Sequence(s), InOrder(s), NEW gone \in SUBSET DOMAIN s, NEW new
  PROVE  InOrder(Delete(s, gone, new))
<1> DEFINE blank == [i \in 1..Cardinality(gone) |-> BlankRow]
           some == Without(s, gone)
           left == some \o blank
           n == Cardinality(DOMAIN s \ gone)
           c == Cardinality(gone)
           sum == MapThenSumSet(LAMBDA i : left[i].total, Leading(left))
           done == [i \in DOMAIN left |->
                      [left[i] EXCEPT !.num = IF new /\ left[i].named THEN i ELSE @,
                                      !.share = IF i \in Leading(left) THEN Percent(left[i].total, sum) ELSE @]]
           end == [done EXCEPT ![1] = First(@)]
<1>1. Sequence(some) /\ c \in Nat
  BY WithoutIsSeq
<1>2. Sequence(blank) /\ Len(blank) = c
  <2>1. blank \in [1..c -> {BlankRow}]
    OBVIOUS
  <2> HIDE DEF blank
  <2> QED BY <1>1, <2>1, FunctionIsSeq
<1>3. PICK from : MovedUp(s, some, n, from)
  BY WithoutHas
<1>4. n \in Nat /\ DOMAIN some = 1..n /\ (gone # DOMAIN s => n >= 1)
  BY WithoutHas
<1>5. 1 \in DOMAIN s /\ (c = 0 => gone = {})
  <2>1. IsFiniteSet(DOMAIN s)
    <3>1. Len(s) \in Nat /\ DOMAIN s = 1..Len(s)
      BY SeqFacts
    <3> QED BY <3>1, FS_Interval
  <2>2. IsFiniteSet(gone)
    BY <2>1, FS_Subset
  <2> QED BY <2>2, FS_EmptySet DEF InOrder
<1>6. Delete(s, gone, new) = IF Amount(done[1]) = 0 THEN end ELSE done
  BY DEF Delete
<1>7. \A i \in 1..c : blank[i] = BlankRow
  OBVIOUS
<1> HIDE DEF blank, some, n, c
<1>8. Len(some) = n
  <2>1. Len(some) \in Nat /\ 1..Len(some) = 1..n
    BY <1>1, <1>4, SeqFacts
  <2> QED BY <1>4, <2>1
<1>9. /\ Sequence(left) /\ DOMAIN left = 1..(n + c)
      /\ \A i \in 1..n : left[i] = some[i]
      /\ \A i \in 1..(n + c) : i > n => i - n \in 1..c /\ left[i] = blank[i - n]
  BY <1>1, <1>2, <1>8, ConcatHas
<1> HIDE DEF left
<1>10. n + c >= 1
  <2>1. CASE c = 0
    <3>1. gone # DOMAIN s
      BY <1>5, <2>1
    <3> QED BY <1>1, <1>4, <3>1
  <2>2. CASE c # 0
    BY <1>1, <1>4, <2>2
  <2> QED BY <2>1, <2>2
<1>11. InOrder(left)
  <2>1. MovedUp(s, left, n, from)
    BY <1>3, <1>9 DEF MovedUp
  <2>2. \A i \in 1..(n + c) : i > n => left[i] = BlankRow
    BY <1>7, <1>9
  <2> DEFINE m == n + c
  <2>4. m \in Nat /\ n <= m /\ m >= 1
    BY <1>1, <1>4, <1>10
  <2>5. DOMAIN left = 1..m /\ \A i \in 1..m : i > n => left[i] = BlankRow
    BY <1>9, <2>2
  <2> HIDE DEF m
  <2> QED BY <1>4, <2>1, <2>4, <2>5, MovedUpInOrder
<1>12. \A i \in DOMAIN left : RowOK(left[i]) /\ i \in Nat /\ i >= 1
  BY <1>1, <1>4, <1>9, <1>11 DEF InOrder
<1> HIDE DEF sum
<1>13. DOMAIN done = DOMAIN left /\ done = [i \in DOMAIN left |-> done[i]]
  OBVIOUS
<1>14. \A i \in DOMAIN left : \E share :
         done[i] = [left[i] EXCEPT !.num = IF new /\ left[i].named THEN i ELSE @, !.share = share]
  OBVIOUS
<1> HIDE DEF done
<1>15. \A i \in DOMAIN left : /\ RowOK(done[i]) /\ done[i].named = left[i].named /\ done[i].owner = left[i].owner
                              /\ done[i].num = IF new /\ left[i].named THEN i ELSE left[i].num
  <2> SUFFICES ASSUME NEW i \in DOMAIN left
               PROVE  /\ RowOK(done[i]) /\ done[i].named = left[i].named /\ done[i].owner = left[i].owner
                      /\ done[i].num = IF new /\ left[i].named THEN i ELSE left[i].num
    OBVIOUS
  <2> DEFINE r == left[i]
             num == IF new /\ r.named THEN i ELSE r.num
  <2>1. PICK share : done[i] = [r EXCEPT !.num = num, !.share = share]
    BY <1>14
  <2>2. RowOK(r) /\ num \in Int /\ num >= NotANumber /\ (num # 0 => r.named)
    BY <1>12 DEF RowOK, NotANumber
  <2> HIDE DEF r, num
  <2>3. RowOK(done[i]) /\ done[i].named = r.named /\ done[i].owner = r.owner /\ done[i].num = num
    BY <2>1, <2>2 DEF RowOK, RowFields
  <2> QED BY <2>3 DEF r, num
<1>16. InOrder(done) /\ Sequence(done)
  <2>1. Sequence(done)
    BY <1>9, <1>13, MappedIsSeq
  <2>2. CASE new
    <3>1. \A i \in DOMAIN left : /\ RowOK(done[i]) /\ done[i].named = left[i].named /\ done[i].owner = left[i].owner
                                  /\ done[i].num = IF left[i].named THEN i ELSE left[i].num
      BY <1>15, <2>2
    <3> QED BY <1>9, <1>11, <1>13, <2>1, <3>1, RenumberedInOrder
  <2>3. CASE ~new
    <3>1. \A i \in DOMAIN left : /\ RowOK(done[i]) /\ done[i].named = left[i].named /\ done[i].owner = left[i].owner
                                  /\ done[i].num = left[i].num
      BY <1>15, <2>3
    <3> QED BY <1>9, <1>11, <1>13, <2>1, <3>1, OrderKept
  <2> QED BY <2>1, <2>2, <2>3
<1>17. InOrder(end)
  BY <1>16, SingleInOrder, 0 \in Int, Unset \in Int, 0 >= Unset DEF Unset
<1> QED BY <1>6, <1>16, <1>17


\* A sum over numbered things is that over the things.
LEMMA SumReindexed ==
  ASSUME NEW S, IsFiniteSet(S), NEW T, IsFiniteSet(T), NEW h, NEW f, NEW g,
         \A x \in S : h[x] \in T /\ f[x] = g[h[x]], \A x, y \in S : h[x] = h[y] => x = y,
         \A y \in T : g[y] \in Int /\ \E x \in S : h[x] = y
  PROVE  SumFunctionOnSet(f, S) = SumFunctionOnSet(g, T)
<1> DEFINE im(s) == {y \in T : \E x \in s : h[x] = y}
           F(s) == SumFunctionOnSet(f, s)
           H(s) == SumFunctionOnSet(g, s)
           G == {s \in SUBSET S : F(s) = H(im(s))}
<1>1. ASSUME NEW s \in SUBSET S, \A x \in s : s \ {x} \in G PROVE s \in G
  <2>1. CASE s = {}
    <3>1. im(s) = {}
      BY <2>1
    <3> QED BY <2>1, <3>1, SumEmpty
  <2>2. CASE s # {}
    <3>1. PICK x \in s : TRUE
      BY <2>2
    <3>2. im(s \ {x}) = im(s) \ {h[x]} /\ h[x] \in im(s) /\ im(s) \subseteq T
      OBVIOUS
    <3>3. F(s \ {x}) = H(im(s \ {x}))
      BY <1>1, <3>1
    <3> DEFINE u == im(s)
    <3>4. IsFiniteSet(s) /\ IsFiniteSet(u) /\ \A y \in u : g[y] \in Int
      BY <3>2, FS_Subset
    <3>5. \A y \in s : f[y] \in Int
      OBVIOUS
    <3> HIDE DEF im
    <3>6. H(u) = g[h[x]] + H(u \ {h[x]})
      <4> HIDE DEF u
      <4> QED BY <3>2, <3>4, SumRemove DEF u
    <3>7. F(s) = f[x] + F(s \ {x})
      BY <3>1, <3>4, <3>5, SumRemove
    <3>8. f[x] = g[h[x]]
      BY <3>1
    <3> HIDE DEF F, H
    <3> QED BY <3>2, <3>3, <3>6, <3>7, <3>8
  <2> QED BY <2>1, <2>2
<1> HIDE DEF G
<1>2. \A s \in SUBSET S : s \in G
  BY ONLY <1>1, IsFiniteSet(S), SetInduction
<1>3. im(S) = T
  OBVIOUS
<1> HIDE DEF im
<1> QED BY <1>2, <1>3 DEF G

-----------------------------------------------------------------------------
(* the shares of the popup *)

ShareIn(row) == IF row.total = Unset THEN 0 ELSE row.share
Shares(s) == SumFunction([i \in DOMAIN s |-> ShareIn(s[i])])

\* The shares of the rows that have a total make a hundred percent, unless there is no
\* total or one is missing.
Missing(s) == \E j \in DOMAIN s : s[j].brand # "" /\ s[j].total = Unset
Shared(s) ==
  /\ \A i \in DOMAIN s : ShareIn(s[i]) \in Int
  /\ Shares(s) = 10000 \/ SumTotals(s) = 0 \/ Missing(s)

LEMMA RowsFinite == ASSUME NEW s, Sequence(s) PROVE IsFiniteSet(DOMAIN s) /\ Len(s) \in Nat /\ DOMAIN s = 1..Len(s)
<1>1. Len(s) \in Nat /\ DOMAIN s = 1..Len(s)
  BY SeqFacts
<1>2. IsFiniteSet(1..Len(s))
  BY <1>1, FS_Interval
<1> QED BY <1>1, <1>2

LEMMA AmountsAre ==
  ASSUME NEW s, Sequence(s), InOrder(s)
  PROVE  /\ \A i \in DOMAIN s : Amount(s[i]) \in Nat /\ (s[i].total # Unset => Amount(s[i]) = s[i].total)
         /\ SumTotals(s) \in Nat
         /\ \A i \in DOMAIN s : Amount(s[i]) <= SumTotals(s)
         /\ SumTotals(s) # 0 => \E i \in DOMAIN s : Amount(s[i]) # 0
<1> DEFINE f == [i \in DOMAIN s |-> Amount(s[i])]
<1>1. \A i \in DOMAIN s : Amount(s[i]) \in Nat /\ (s[i].total # Unset => Amount(s[i]) = s[i].total)
  BY DEF InOrder, RowOK, Amount, Unset
<1>2. SumTotals(s) = SumFunctionOnSet(f, DOMAIN s)
  BY DEF SumTotals, SumFunction
<1>3. IsFiniteSet(DOMAIN s)
  BY RowsFinite
<1>4. \A i \in DOMAIN s : f[i] = Amount(s[i]) /\ f[i] \in Nat
  BY <1>1
<1> HIDE DEF f
<1>5. SumTotals(s) \in Nat
  BY <1>2, <1>3, <1>4, SumNat
<1>6. ASSUME NEW i \in DOMAIN s PROVE f[i] <= SumTotals(s)
  <2> DEFINE rest == SumFunctionOnSet(f, DOMAIN s \ {i})
  <2>1. SumTotals(s) = f[i] + rest
    BY <1>2, <1>3, <1>4, SumRemove
  <2>2. rest \in Nat
    BY <1>3, <1>4, SumNat
  <2> HIDE DEF rest
  <2> QED BY <1>4, <1>5, <2>1, <2>2
<1>7. SumTotals(s) # 0 => \E i \in DOMAIN s : f[i] # 0
  BY <1>2, <1>3, SumOfNothing
<1> QED BY <1>1, <1>4, <1>5, <1>6, <1>7

\* A row that is changed in what the shares do not look at.
LEMMA SharedKept ==
  ASSUME NEW s, Sequence(s), Shared(s), NEW t, DOMAIN t = DOMAIN s,
         \A i \in DOMAIN s : t[i].total = s[i].total /\ t[i].share = s[i].share /\ (s[i].brand # "" => t[i].brand # "")
  PROVE  Shared(t)
<1> DEFINE f == [i \in DOMAIN s |-> ShareIn(s[i])]
           g == [i \in DOMAIN t |-> ShareIn(t[i])]
           a == [i \in DOMAIN s |-> Amount(s[i])]
           b == [i \in DOMAIN t |-> Amount(t[i])]
<1>1. \A i \in DOMAIN s : ShareIn(t[i]) = ShareIn(s[i]) /\ Amount(t[i]) = Amount(s[i])
  BY DEF ShareIn, Amount
<1>2. f = g /\ a = b
  BY <1>1
<1>3. Shares(t) = Shares(s) /\ SumTotals(t) = SumTotals(s)
  BY <1>2 DEF Shares, SumTotals
<1> HIDE DEF f, g, a, b
<1>4. \A i \in DOMAIN t : ShareIn(t[i]) \in Int
  BY <1>1 DEF Shared
<1>5. Missing(s) => Missing(t)
  <2> SUFFICES ASSUME NEW j \in DOMAIN s, s[j].brand # "" /\ s[j].total = Unset PROVE Missing(t)
    BY DEF Missing
  <2>1. j \in DOMAIN t /\ t[j].brand # "" /\ t[j].total = Unset
    OBVIOUS
  <2> QED BY <2>1 DEF Missing
<1> QED BY ONLY Shared(s), <1>3, <1>4, <1>5 DEF Shared

LEMMA SharedAppended ==
  ASSUME NEW s, Sequence(s), InOrder(s), Shared(s), NEW i
  PROVE  Shared(Append(s, BlankRow)) /\ Shared(Grown(s, i))
<1> DEFINE n == Len(s)
           t == Append(s, BlankRow)
           f == [j \in DOMAIN s |-> ShareIn(s[j])]
           g == [j \in DOMAIN t |-> ShareIn(t[j])]
           a == [j \in DOMAIN s |-> Amount(s[j])]
           b == [j \in DOMAIN t |-> Amount(t[j])]
<1>1. n \in Nat /\ DOMAIN s = 1..n /\ IsFiniteSet(DOMAIN s)
  BY RowsFinite
<1>2. DOMAIN t = 1..(n + 1) /\ Sequence(t) /\ t[n + 1] = BlankRow /\ \A j \in 1..n : t[j] = s[j]
  BY AppendIs
<1>3. ShareIn(BlankRow) = 0 /\ Amount(BlankRow) = 0
  BY DEF ShareIn, Amount, BlankRow
<1>4. Shares(s) = SumFunctionOnSet(f, DOMAIN s) /\ SumTotals(s) = SumFunctionOnSet(a, DOMAIN s)
  BY DEF Shares, SumTotals, SumFunction
<1>5. Shares(t) = SumFunctionOnSet(g, DOMAIN t) /\ SumTotals(t) = SumFunctionOnSet(b, DOMAIN t)
  BY DEF Shares, SumTotals, SumFunction
<1>6. \A j \in DOMAIN s : f[j] \in Int /\ a[j] \in Int
  <2>1. \A j \in DOMAIN s : ShareIn(s[j]) \in Int
    BY DEF Shared
  <2>2. \A j \in DOMAIN s : Amount(s[j]) \in Int
    BY AmountsAre
  <2> QED BY <2>1, <2>2
<1> HIDE DEF t, n
<1>7. DOMAIN t \ {n + 1} = DOMAIN s /\ n + 1 \in DOMAIN t /\ IsFiniteSet(DOMAIN t)
  BY <1>1, <1>2, RowsFinite
<1>8. /\ \A j \in DOMAIN s : g[j] = f[j] /\ b[j] = a[j]
      /\ g[n + 1] = 0 /\ b[n + 1] = 0
  BY <1>1, <1>2, <1>3, <1>7
<1>9. \A j \in DOMAIN t : g[j] \in Int /\ b[j] \in Int /\ g[j] = ShareIn(t[j])
  <2>1. \A j \in DOMAIN t : g[j] = ShareIn(t[j])
    OBVIOUS
  <2>2. \A j \in DOMAIN t : j = n + 1 \/ j \in DOMAIN s
    BY <1>7
  <2> HIDE DEF f, g, a, b
  <2> QED BY <1>6, <1>8, <2>1, <2>2
<1> HIDE DEF f, g, a, b
<1>10. /\ SumFunctionOnSet(g, DOMAIN t) = 0 + SumFunctionOnSet(g, DOMAIN s)
       /\ SumFunctionOnSet(b, DOMAIN t) = 0 + SumFunctionOnSet(b, DOMAIN s)
  BY <1>7, <1>8, <1>9, SumRemove
<1>11. /\ SumFunctionOnSet(g, DOMAIN s) = SumFunctionOnSet(f, DOMAIN s)
       /\ SumFunctionOnSet(b, DOMAIN s) = SumFunctionOnSet(a, DOMAIN s)
  BY <1>1, <1>8, SumSame
<1>12. SumFunctionOnSet(f, DOMAIN s) \in Int /\ SumFunctionOnSet(a, DOMAIN s) \in Int
  BY <1>1, <1>6, SumInt
<1>13. Shares(t) = Shares(s) /\ SumTotals(t) = SumTotals(s)
  BY <1>4, <1>5, <1>10, <1>11, <1>12
<1>14. Shared(t)
  <2>1. \A j \in DOMAIN s : j \in DOMAIN t /\ t[j] = s[j]
    BY <1>1, <1>2
  <2>2. \A j \in DOMAIN t : ShareIn(t[j]) \in Int
    BY <1>9
  <2>3. Missing(s) => Missing(t)
    <3> SUFFICES ASSUME NEW j \in DOMAIN s, s[j].brand # "" /\ s[j].total = Unset PROVE Missing(t)
      BY DEF Missing
    <3>1. j \in DOMAIN t /\ t[j] = s[j]
      BY <2>1
    <3> QED BY <3>1 DEF Missing
  <2> QED BY <1>13, <2>2, <2>3 DEF Shared
<1>15. Grown(s, i) = t \/ Grown(s, i) = s
  BY DEF Grown, t
<1> QED BY <1>14, <1>15 DEF t


\* What the loop gives the rows, when it ends: all that have a total are at the front.
LEMMA LoopEnds ==
  ASSUME NEW s, Sequence(s), InOrder(s), ~Hangs(s), ~Missing(s), SumTotals(s) # 0,
         NEW W, W = {i \in DOMAIN s : s[i].total # Unset}
  PROVE  /\ LastBrand(s) \in W /\ W \ {LastBrand(s)} = 1..(NBrands(s) - 1)
         /\ \A i \in W : AtLast(s, i) <=> i = LastBrand(s)
<1> DEFINE B == {i \in DOMAIN s : s[i].brand # ""}
           b == NBrands(s)
           n == Len(s)
<1>1. IsFiniteSet(DOMAIN s) /\ n \in Nat /\ DOMAIN s = 1..n
  BY RowsFinite
<1>2. b = Cardinality(B)
  BY DEF NBrands, Quantify
<1>3. b \in Nat /\ IsFiniteSet(B)
  BY <1>1, <1>2, FS_Subset, FS_CardinalityType
<1>4. B \subseteq W
  BY DEF Missing
<1>9. b \in Nat
  BY <1>3
<1>5. SumTotals(s) > 0
  BY AmountsAre
<1>6. \A i \in W : i >= b => i <= LastBrand(s)
  <2>1. LastBrand(s) \in Int
    BY ONLY <1>9 DEF LastBrand
  <2>2. ASSUME NEW i \in W, i >= b PROVE ~(i > LastBrand(s))
    BY <1>5, <2>2 DEF Hangs, AtLast
  <2> QED BY <1>1, <2>1, <2>2
<1>7. CASE b = 0
  <2>1. LastBrand(s) = 1
    BY <1>7 DEF LastBrand
  <2>2. W \subseteq {1}
    BY <1>1, <1>6, <1>7, <2>1
  <2>3. PICK i \in DOMAIN s : Amount(s[i]) # 0
    BY AmountsAre
  <2>4. i \in W
    BY <2>3 DEF Amount
  <2>5. W = {1}
    BY <2>2, <2>4
  <2>6. 1..(b - 1) = {}
    BY <1>7
  <2>7. AtLast(s, 1)
    BY <1>5, <1>7, <2>5 DEF AtLast
  <2> QED BY <2>1, <2>5, <2>6, <2>7
<1>8. CASE b # 0
  <2>1. LastBrand(s) = b
    BY <1>8 DEF LastBrand
  <2>2. W \subseteq 1..b
    <3> SUFFICES ASSUME NEW i \in W PROVE i \in 1..b
      OBVIOUS
    <3>1. i \in Nat /\ i >= 1 /\ (i >= b => i <= b)
      BY <1>1, <1>6, <2>1
    <3> HIDE DEF b
    <3> QED BY <1>9, <3>1
  <2>3. IsFiniteSet(1..b) /\ Cardinality(1..b) = b
    <3> HIDE DEF b
    <3>1. b \in Nat /\ b >= 1
      BY <1>8, <1>9
    <3> QED BY <3>1, FS_Interval
  <2>4. B = 1..b
    <3>1. B \in SUBSET (1..b)
      BY <1>4, <2>2
    <3> HIDE DEF B, b
    <3> QED BY <1>2, <2>3, <3>1, FS_Subset
  <2>5. W = 1..b
    BY <1>4, <2>2, <2>4
  <2>6. \A i \in W : AtLast(s, i) <=> i >= b
    BY <1>5 DEF AtLast
  <2>7. 1..(b - 1) = (1..b) \ {b} /\ b \in 1..b /\ \A i \in 1..b : i >= b <=> i = b
    <3> HIDE DEF b
    <3> QED BY <1>8, <1>9
  <2> HIDE DEF b
  <2> QED BY <2>1, <2>5, <2>6, <2>7 DEF b
<1> QED BY <1>7, <1>8

\* Unless the loop never ends, what it writes is a division.
LEMMA ShareOutShared ==
  ASSUME NEW s, Sequence(s), InOrder(s), ~Hangs(s)
  PROVE  Shared(ShareOut(s))
<1> DEFINE t == ShareOut(s)
           D == DOMAIN s
           T == SumTotals(s)
           b == NBrands(s)
           p == [j \in 1..(b - 1) |-> Percent(Amount(s[j]), T)]
           f == [i \in D |-> Amount(s[i])]
           h == [i \in DOMAIN t |-> Amount(t[i])]
           g == [i \in DOMAIN t |-> ShareIn(t[i])]
<1>1. /\ DOMAIN t = D
      /\ \A i \in D : t[i].total = s[i].total /\ t[i].brand = s[i].brand /\ t[i].share = SharePut(s, i)
  <2>1. t = [i \in D |-> [s[i] EXCEPT !.share = SharePut(s, i)]]
    BY ShareOutIs
  <2> HIDE DEF t
  <2>2. ASSUME NEW i \in D PROVE t[i].total = s[i].total /\ t[i].brand = s[i].brand /\ t[i].share = SharePut(s, i)
    <3>1. DOMAIN s[i] = RowFields
      BY DEF InOrder, RowOK
    <3> QED BY <2>1, <3>1 DEF RowFields
  <2> QED BY <2>1, <2>2
<1> SUFFICES Shared(t)
  OBVIOUS
<1> HIDE DEF t
<1>2. \A i \in D : Amount(t[i]) = Amount(s[i]) /\ ShareIn(t[i]) = IF s[i].total = Unset THEN 0 ELSE SharePut(s, i)
  BY <1>1 DEF Amount, ShareIn
<1>3. SumTotals(t) = T
  <2>1. f = h
    BY <1>1, <1>2
  <2> QED BY <2>1 DEF SumTotals
<1>4. Missing(s) => Missing(t)
  BY <1>1 DEF Missing
<1>5. T \in Nat /\ \A i \in D : Amount(s[i]) \in Nat
  BY AmountsAre
<1>6. IsFiniteSet(D) /\ Len(s) \in Nat /\ D = 1..Len(s)
  BY RowsFinite
<1>7. CASE T = 0
  <2>1. \A i \in D : ShareIn(t[i]) = 0
    BY <1>2, <1>7 DEF SharePut
  <2> QED BY <1>1, <1>3, <1>7, <2>1 DEF Shared
<1>8. CASE T # 0
  <2>1. \A i \in D : Percent(Amount(s[i]), T) \in Int
    <3> SUFFICES ASSUME NEW i \in D PROVE Percent(Amount(s[i]), T) \in Int
      OBVIOUS
    <3> DEFINE a == Amount(s[i])
    <3>1. a \in Nat
      BY <1>5
    <3> HIDE DEF a, T
    <3>2. 20000 * a + T \in Nat /\ 2 * T \in Nat /\ 2 * T > 0
      BY <1>5, <1>8, <3>1
    <3>3. (20000 * a + T) \div (2 * T) \in Int
      BY <3>2
    <3> QED BY <3>3 DEF Percent, a
  <2>2. b \in Nat /\ 1..(b - 1) \subseteq D
    <3> DEFINE B == {i \in D : s[i].brand # ""}
    <3>1. b = Cardinality(B)
      BY DEF NBrands, Quantify
    <3>2. B \in SUBSET D
      OBVIOUS
    <3>3. IsFiniteSet(B) /\ Cardinality(B) <= Cardinality(D) /\ Cardinality(B) \in Nat
      <4> HIDE DEF B
      <4> QED BY <1>6, <3>2, FS_Subset, FS_CardinalityType
    <3>4. Cardinality(1..Len(s)) = IF 1 > Len(s) THEN 0 ELSE Len(s) - 1 + 1
      BY <1>6, FS_Interval
    <3>5. Cardinality(D) = Len(s)
      BY <1>6, <3>4
    <3> HIDE DEF B, b, D
    <3> QED BY <1>6, <3>1, <3>3, <3>5
  <2>3. IsFiniteSet(1..(b - 1)) /\ \A j \in 1..(b - 1) : p[j] \in Int
    <3>1. IsFiniteSet(1..(b - 1))
      BY <2>2, FS_Interval
    <3> QED BY <2>1, <2>2, <3>1
  <2>4. Left(s) = 10000 - SumFunctionOnSet(p, 1..(b - 1))
    BY DEF Left, SumFunction
  <2>5. Left(s) \in Int
    <3> HIDE DEF p, b
    <3>1. SumFunctionOnSet(p, 1..(b - 1)) \in Int
      BY <2>3, SumInt
    <3> QED BY <2>4, <3>1
  <2>6. \A i \in D : ShareIn(t[i]) \in Int
    BY <1>2, <1>8, <2>1, <2>5 DEF SharePut
  <2>7. CASE Missing(s)
    BY <1>1, <1>4, <2>6, <2>7 DEF Shared
  <2>8. CASE ~Missing(s)
    <3> DEFINE W == {i \in D : s[i].total # Unset}
               last == LastBrand(s)
    <3>1. /\ last \in W /\ W \ {last} = 1..(b - 1)
          /\ \A i \in W : AtLast(s, i) <=> i = last
      BY <1>8, <2>8, LoopEnds
    <3>2. \A i \in W : g[i] = IF i = last THEN Left(s) ELSE Percent(Amount(s[i]), T)
      BY <1>1, <1>2, <1>8, <3>1 DEF SharePut
    <3>3. \A i \in D \ W : g[i] = 0
      BY <1>1, <1>2
    <3>4. \A i \in D : g[i] \in Int
      BY <1>1, <2>6
    <3>5. W \in SUBSET D
      OBVIOUS
    <3>6. Shares(t) = SumFunctionOnSet(g, D)
      BY <1>1 DEF Shares, SumFunction
    <3> DEFINE P == 1..(b - 1)
    <3>7. \A j \in P : g[j] = p[j]
      <4> SUFFICES ASSUME NEW j \in P PROVE g[j] = p[j]
        OBVIOUS
      <4>1. j \in W /\ j # last
        BY <3>1
      <4>2. p[j] = Percent(Amount(s[j]), T)
        OBVIOUS
      <4> QED BY <3>2, <4>1, <4>2
    <3>71. \A i \in W : g[i] \in Int
      BY <3>4
    <3>72. P \subseteq W /\ P = W \ {last}
      BY <3>1
    <3>73. g[last] = Left(s)
      BY <3>1, <3>2
    <3>74. Left(s) = 10000 - SumFunctionOnSet(p, P)
      BY <2>4
    <3>75. IsFiniteSet(P)
      BY <2>3
    <3> HIDE DEF W, D, g, p, last, P, T, b
    <3>76. IsFiniteSet(D)
      BY <1>6
    <3>8. SumFunctionOnSet(g, D) = SumFunctionOnSet(g, W) + SumFunctionOnSet(g, D \ W)
      BY <3>76, <3>4, <3>5, SumSplit
    <3>9. SumFunctionOnSet(g, D \ W) = 0
      <4>1. IsFiniteSet(D \ W)
        BY <1>6, FS_Subset
      <4> QED BY <3>3, <4>1, SumOfNothing
    <3>10. IsFiniteSet(W)
      BY <1>6, <3>5, FS_Subset
    <3>11. SumFunctionOnSet(g, W) = Left(s) + SumFunctionOnSet(g, P)
      BY <3>1, <3>71, <3>72, <3>73, <3>10, SumRemove
    <3>12. SumFunctionOnSet(g, P) = SumFunctionOnSet(p, P)
      BY <3>7, <3>75, SumSame
    <3>13. SumFunctionOnSet(p, P) \in Int
      BY <2>3, <3>75, SumInt DEF P
    <3>14. Shares(t) = 10000
      BY <3>6, <3>8, <3>9, <3>11, <3>12, <3>13, <3>74
    <3> QED BY <1>1, <2>6, <3>14 DEF Shared, D
  <2> QED BY <2>7, <2>8
<1> QED BY <1>7, <1>8


\* The rows of a closed popup: what a cell left open may have put there.
Idle(s) ==
  \A i \in DOMAIN s : \/ s[i].total = Unset
                      \/ s[i].total = 0 /\ s[i].share = 0
                      \/ i = 1 /\ s[i].total > 0 /\ s[i].share = 10000

\* Only the first row has a share, of everything.
LEMMA OneShare ==
  ASSUME NEW s, Sequence(s), 1 \in DOMAIN s, ShareIn(s[1]) = 10000, \A i \in DOMAIN s : i # 1 => ShareIn(s[i]) = 0
  PROVE  Shared(s)
<1> DEFINE D == DOMAIN s
           g == [i \in D |-> ShareIn(s[i])]
<1>1. IsFiniteSet(D) /\ IsFiniteSet(D \ {1}) /\ 1 \in D
  BY RowsFinite, FS_Subset
<1>2. \A i \in D : g[i] \in Int
  OBVIOUS
<1>3. \A i \in D \ {1} : g[i] = 0
  OBVIOUS
<1>4. Shares(s) = SumFunctionOnSet(g, D) /\ g[1] = 10000
  BY DEF Shares, SumFunction
<1>5. \A i \in D : ShareIn(s[i]) \in Int
  OBVIOUS
<1> HIDE DEF g, D
<1>6. SumFunctionOnSet(g, D) = g[1] + SumFunctionOnSet(g, D \ {1})
  BY <1>1, <1>2, SumRemove
<1>7. SumFunctionOnSet(g, D \ {1}) = 0
  BY <1>1, <1>3, SumOfNothing
<1>8. Shares(s) = 10000
  BY <1>4, <1>6, <1>7
<1> QED BY <1>5, <1>8 DEF Shared, D

LEMMA IdleShared == ASSUME NEW s, Sequence(s), InOrder(s), Idle(s) PROVE Shared(s)
<1>1. \A i \in DOMAIN s : i # 1 => ShareIn(s[i]) = 0
  BY DEF ShareIn, Idle
<1>2. 1 \in DOMAIN s
  BY DEF InOrder
<1>3. CASE s[1].total > 0 /\ s[1].total # Unset
  <2>1. ShareIn(s[1]) = 10000
    BY <1>2, <1>3 DEF Idle, ShareIn
  <2> QED BY <1>1, <1>2, <2>1, OneShare
<1>4. CASE ~(s[1].total > 0 /\ s[1].total # Unset)
  <2> DEFINE f == [i \in DOMAIN s |-> Amount(s[i])]
  <2>1. \A i \in DOMAIN s : Amount(s[i]) = 0 /\ ShareIn(s[i]) = 0
    BY <1>4 DEF Idle, Amount, ShareIn, Unset
  <2>2. SumTotals(s) = SumFunctionOnSet(f, DOMAIN s)
    BY DEF SumTotals, SumFunction
  <2>3. \A i \in DOMAIN s : f[i] = 0
    BY <2>1
  <2> HIDE DEF f
  <2>4. SumTotals(s) = 0
    BY <2>2, <2>3, RowsFinite, SumOfNothing
  <2> QED BY <2>1, <2>4 DEF Shared
<1> QED BY <1>3, <1>4

LEMMA SingleShared ==
  ASSUME NEW s, Sequence(s), InOrder(s), Idle(s), NEW brand, NEW total \in Nat
  PROVE  Shared(Single(s, brand, total))
<1> DEFINE t == Single(s, brand, total)
<1>1. 1 \in DOMAIN s /\ DOMAIN s[1] = RowFields
  BY DEF InOrder, RowOK
<1>2. /\ DOMAIN t = DOMAIN s /\ t[1] = [First(s[1]) EXCEPT !.brand = brand, !.total = total, !.share = 10000]
      /\ \A i \in DOMAIN s : i # 1 => t[i] = s[i]
  BY <1>1 DEF Single
<1>3. Sequence(t)
  BY RowsEdited
<1> HIDE DEF t
<1>4. t[1].total = total /\ t[1].share = 10000
  <2> DEFINE r == s[1]
  <2>1. DOMAIN First(r) = RowFields
    BY <1>1 DEF First
  <2> QED BY <1>2, <2>1 DEF RowFields
<1>5. ShareIn(t[1]) = 10000
  BY <1>4 DEF ShareIn, Unset
<1>6. \A i \in DOMAIN t : i # 1 => ShareIn(t[i]) = 0
  BY <1>2 DEF ShareIn, Idle
<1>7. Shared(t)
  BY <1>1, <1>2, <1>3, <1>5, <1>6, OneShare
<1> QED BY <1>7 DEF t

LEMMA ExistingShared ==
  ASSUME NEW s, Sequence(s), InOrder(s), Idle(s), NEW kids, Sequence(kids),
         \A i \in DOMAIN kids : kids[i].total \in Nat /\ kids[i].share \in Int,
         Len(kids) = 0 \/ SumFunctionOnSet([i \in DOMAIN kids |-> kids[i].share], DOMAIN kids) = 10000
  PROVE  Shared(Existing(s, kids))
<1> DEFINE t == Existing(s, kids)
<1>01. /\ DOMAIN t = DOMAIN kids \cup {i \in DOMAIN s : i > Len(kids)} /\ \A i \in DOMAIN kids : t[i] = kids[i]
       /\ \A i \in DOMAIN s : i > Len(kids) => t[i] = s[i]
  <2>1. t = Existing(s, kids)
    OBVIOUS
  <2> HIDE DEF t
  <2>2. Covers(t, s, kids)
    BY <2>1, ExistingHas
  <2> QED BY <2>2 DEF Covers
<1>02. Sequence(t)
  BY ExistingIsSeq
<1> SUFFICES Shared(t)
  OBVIOUS
<1> HIDE DEF t
<1> DEFINE K == DOMAIN kids
           D == DOMAIN t
           h == [i \in K |-> kids[i].share]
           g == [i \in D |-> ShareIn(t[i])]
<1>1. /\ D = K \cup {i \in DOMAIN s : i > Len(kids)}
      /\ \A i \in K : t[i] = kids[i]
      /\ \A i \in DOMAIN s : i > Len(kids) => t[i] = s[i]
  BY <1>01
<1>2. Sequence(t)
  BY <1>02
<1>3. Len(kids) \in Nat /\ K = 1..Len(kids) /\ IsFiniteSet(K) /\ Len(s) \in Nat /\ DOMAIN s = 1..Len(s)
  BY RowsFinite
<1>4. CASE Len(kids) = 0
  <2>1. D = DOMAIN s /\ \A i \in D : t[i] = s[i]
    BY <1>1, <1>3, <1>4
  <2>2. Shared(s)
    BY IdleShared
  <2>3. /\ DOMAIN t = DOMAIN s
        /\ \A i \in DOMAIN s : t[i].total = s[i].total /\ t[i].share = s[i].share /\ (s[i].brand # "" => t[i].brand # "")
    BY ONLY <2>1
  <2> QED BY ONLY Sequence(s), <2>2, <2>3, SharedKept
<1>5. CASE Len(kids) # 0
  <2>1. SumFunctionOnSet(h, K) = 10000
    BY <1>5
  <2>2. \A i \in K : g[i] = h[i] /\ ShareIn(t[i]) \in Int
    <3> SUFFICES ASSUME NEW i \in K PROVE g[i] = h[i] /\ ShareIn(t[i]) \in Int
      OBVIOUS
    <3>1. i \in D /\ t[i] = kids[i] /\ kids[i].total # Unset /\ kids[i].share \in Int
      BY <1>1 DEF Unset
    <3> QED BY <3>1 DEF ShareIn
  <2>3. \A i \in D \ K : g[i] = 0 /\ ShareIn(t[i]) = 0
    <3> SUFFICES ASSUME NEW i \in D \ K PROVE g[i] = 0 /\ ShareIn(t[i]) = 0
      OBVIOUS
    <3>1. i \in DOMAIN s /\ i # 1 /\ t[i] = s[i]
      BY <1>1, <1>3, <1>5
    <3> QED BY <3>1 DEF ShareIn, Idle
  <2>4. Shares(t) = SumFunctionOnSet(g, D)
    BY DEF Shares, SumFunction
  <2>5. \A i \in D : ShareIn(t[i]) \in Int
    <3> SUFFICES ASSUME NEW i \in D PROVE ShareIn(t[i]) \in Int
      OBVIOUS
    <3> HIDE DEF g, h, K, D
    <3>1. i \in K \/ i \in D \ K
      OBVIOUS
    <3>2. i \in D \ K => ShareIn(t[i]) = 0
      BY <2>3
    <3>3. CASE i \in K
      BY <2>2, <3>3
    <3>4. CASE i \in D \ K
      BY <3>2, <3>4
    <3> QED BY <3>1, <3>3, <3>4
  <2>6. \A i \in D : g[i] \in Int
    BY <2>5
  <2>7. IsFiniteSet(D) /\ K \in SUBSET D
    BY <1>1, <1>2, RowsFinite
  <2>75. IsFiniteSet(D \ K)
    BY <2>7, FS_Subset
  <2> HIDE DEF g, h, D, K
  <2>8. SumFunctionOnSet(g, D) = SumFunctionOnSet(g, K) + SumFunctionOnSet(g, D \ K)
    BY <2>6, <2>7, SumSplit
  <2>9. SumFunctionOnSet(g, K) = SumFunctionOnSet(h, K)
    BY <1>3, <2>2, SumSame
  <2>10. SumFunctionOnSet(g, D \ K) = 0
    BY <2>3, <2>75, SumOfNothing
  <2>11. Shares(t) = 10000
    BY <2>1, <2>4, <2>8, <2>9, <2>10
  <2> QED BY <2>5, <2>11 DEF Shared, D
<1> QED BY <1>3, <1>4, <1>5

-----------------------------------------------------------------------------
(* the year of a project *)

LEMMA PostWithout == ASSUME NEW kind, NEW modal PROVE Post(kind, modal).parts = <<>> /\ Post(kind, modal).kind = kind
BY DEF Post

LEMMA RecalculatedData ==
  ASSUME NEW p, Fields(p)
  PROVE  Recalculated(p).data.val = p.data.val /\ Recalculated(p).data.multi = p.data.multi
<1> DEFINE c == CalculateTotal(p.data, p.radio)
           d == Refresh(c, p.query, p.radio)
<1>1. DOMAIN c = DOMAIN p.data /\ c.val = p.data.val /\ c.multi = p.data.multi /\ "val" \in DOMAIN c /\ "multi" \in DOMAIN c
  BY DEF CalculateTotal, Fields
<1> HIDE DEF c
<1>2. d.val = p.data.val /\ d.multi = p.data.multi
  BY <1>1 DEF Refresh
<1>3. Recalculated(p) = [p EXCEPT !.data = d, !.been.query = p.query, !.been.radio = p.radio]
  BY DEF Recalculated, Fields, c
<1> HIDE DEF d
<1> QED BY <1>2, <1>3 DEF Fields

\* The popup that opens on a project of one brand has its year before it.
LEMMA YearOpened ==
  ASSUME AmountsInv, NEW p \in Tops, ~page.data.multi[p], ~NegativeYear',
         page'.popup.open, page'.popup.for = [on |-> "project", id |-> p],
         page'.data.val = page.data.val, page'.data.multi = page.data.multi
  PROVE  page.data.val[Row(p, "F")][TotalCol] \in Nat
<1>1. page.data.val[Row(p, "F")][TotalCol] \in Int
  <2>1. RowsTyped(page.data.val)
    BY DEF AmountsInv, RowsOK
  <2>2. Row(p, "F") \in ProjectRows /\ TotalCol \in Columns
    BY RowsAre, MonthsAre DEF Types
  <2> QED BY <2>1, <2>2 DEF RowsTyped
<1> DEFINE v == page.data.val
           n == page'
<1>2. ~(n.data.val[Row(p, "F")][TotalCol] < 0)
  BY DEF NegativeYear
<1>3. v[Row(p, "F")][TotalCol] \in Int /\ ~(v[Row(p, "F")][TotalCol] < 0)
  BY <1>1, <1>2
<1> HIDE DEF v, n
<1>4. v[Row(p, "F")][TotalCol] \in Nat
  BY <1>3
<1> QED BY <1>4 DEF v

-----------------------------------------------------------------------------
(* the rows of sub-projects *)

\* The planned totals of the sub-projects a page is loaded with.
KidTotals == \A p \in Tops : \A k \in KidsOf(p) : KidTotal[k] \in Nat

\* No sub-project is listed twice.
LEMMA KidsDiffer ==
  ASSUME NEW p \in Tops
  PROVE  /\ Sequence(Kids[p]) /\ Len(Kids[p]) \in Nat /\ DOMAIN Kids[p] = 1..Len(Kids[p])
         /\ \A i, j \in DOMAIN Kids[p] : Kids[p][i] = Kids[p][j] => i = j
<1> DEFINE k == Kids[p]
           one == <<p>>
           f == one \o k
           n == Len(k)
<1>1. Sequence(k) /\ Sequence(one) /\ Len(one) = 1
  <2>1. k \in Seq(Ids) /\ one \in Seq({p}) /\ Len(one) = 1
    BY PageAssumption
  <2> HIDE DEF k, one
  <2> QED BY <2>1, SeqFacts
<1>2. f = Family(p)
  BY DEF Family
<1>3. IsInjective(Family(p))
  BY PageAssumption
<1> HIDE DEF k, one
<1>4. n \in Nat /\ DOMAIN k = 1..n
  BY <1>1, SeqFacts
<1>5. /\ DOMAIN f = 1..(1 + n)
      /\ \A i \in 1..(1 + n) : i > 1 => i - 1 \in 1..n /\ f[i] = k[i - 1]
  <2>1. /\ DOMAIN f = 1..(Len(one) + Len(k))
        /\ \A i \in 1..(Len(one) + Len(k)) : i > Len(one) => i - Len(one) \in 1..Len(k) /\ f[i] = k[i - Len(one)]
    BY <1>1, ConcatHas
  <2> HIDE DEF f
  <2> QED BY <1>1, <2>1
<1>6. \A a, b \in DOMAIN f : f[a] = f[b] => a = b
  BY <1>2, <1>3 DEF IsInjective
<1> HIDE DEF f, n
<1>7. ASSUME NEW i \in DOMAIN k, NEW j \in DOMAIN k, k[i] = k[j] PROVE i = j
  <2>1. i \in Nat /\ j \in Nat /\ i + 1 \in DOMAIN f /\ j + 1 \in DOMAIN f /\ i + 1 > 1 /\ j + 1 > 1
    BY <1>4, <1>5
  <2>2. f[i + 1] = k[(i + 1) - 1] /\ f[j + 1] = k[(j + 1) - 1]
    BY <1>5, <2>1
  <2>3. f[i + 1] = f[j + 1]
    BY <1>7, <2>1, <2>2
  <2>4. i + 1 = j + 1
    BY <1>6, <2>1, <2>3
  <2> QED BY <2>1, <2>4
<1> QED BY <1>1, <1>4, <1>7 DEF k, n

\* The rows of the sub-projects of a project, as a division of it.
LEMMA KidRowsAre ==
  ASSUME WholeShares, KidTotals, NEW p \in Tops
  PROVE  LET t == KidRows(p)
         IN  /\ Sequence(t)
             /\ \A i \in DOMAIN t : RowOK(t[i]) /\ t[i].num = i /\ t[i].owner /\ t[i].total \in Nat /\ t[i].share \in Int
             /\ Len(t) = 0 \/ SumFunctionOnSet([i \in DOMAIN t |-> t[i].share], DOMAIN t) = 10000
<1> DEFINE t == KidRows(p)
           k == Kids[p]
           D == DOMAIN k
           K == KidsOf(p)
           f == [i \in DOMAIN t |-> t[i].share]
<1>1. Sequence(k) /\ Len(k) \in Nat /\ D = 1..Len(k) /\ \A i, j \in D : k[i] = k[j] => i = j
  BY KidsDiffer
<1>2. /\ DOMAIN t = D
      /\ \A i \in D : t[i] = [First(BlankRow) EXCEPT !.brand = k[i], !.num = i, !.old = TRUE, !.total = KidTotal[k[i]],
                                                     !.share = Share[k[i]], !.was = KidTotal[k[i]], !.wasShare = Share[k[i]]]
  BY DEF KidRows
<1>3. Sequence(t)
  BY KidRowsIsSeq
<1>4. K = {k[i] : i \in D} /\ K \subseteq Ids /\ IsFiniteSet(K)
  BY FamilyIs DEF KidsOf, ToSet
<1> SUFFICES /\ Sequence(t)
             /\ \A i \in DOMAIN t : RowOK(t[i]) /\ t[i].num = i /\ t[i].owner /\ t[i].total \in Nat /\ t[i].share \in Int
             /\ Len(t) = 0 \/ SumFunctionOnSet(f, DOMAIN t) = 10000
  OBVIOUS
<1>5. \A i \in D : k[i] \in K /\ KidTotal[k[i]] \in Nat /\ Share[k[i]] \in Nat /\ i \in Nat \ {0}
  BY <1>1, <1>4, PageAssumption DEF KidTotals
<1>6. k # <<>> => SumFunctionOnSet(Share, K) = 10000
  BY DEF WholeShares, KidsOf
<1>65. Len(k) # 0 => k # <<>>
  OBVIOUS
<1> HIDE DEF t, k, K
<1>7. \A i \in D : RowOK(t[i]) /\ t[i].num = i /\ t[i].owner = TRUE /\ t[i].total \in Nat /\ t[i].share = Share[k[i]]
  <2> SUFFICES ASSUME NEW i \in D
               PROVE  RowOK(t[i]) /\ t[i].num = i /\ t[i].owner = TRUE /\ t[i].total \in Nat /\ t[i].share = Share[k[i]]
    OBVIOUS
  <2> DEFINE total == KidTotal[k[i]]
             share == Share[k[i]]
             one == k[i]
  <2>1. t[i] = [First(BlankRow) EXCEPT !.brand = one, !.num = i, !.old = TRUE, !.total = total,
                                       !.share = share, !.was = total, !.wasShare = share]
    BY <1>2
  <2>2. total \in Nat /\ share \in Nat /\ i \in Nat \ {0}
    BY <1>5
  <2> HIDE DEF total, share, one
  <2> DEFINE r == t[i]
             f0 == First(BlankRow)
  <2>3. DOMAIN f0 = RowFields /\ f0.named = TRUE /\ f0.owner = TRUE
    BY DEF First, BlankRow, RowFields
  <2>4. r = [f0 EXCEPT !.brand = one, !.num = i, !.old = TRUE, !.total = total, !.share = share, !.was = total, !.wasShare = share]
    BY <2>1
  <2> HIDE DEF f0, r
  <2>5. /\ DOMAIN r = RowFields /\ r.num = i /\ r.total = total /\ r.share = share /\ r.was = total
        /\ r.named = f0.named /\ r.owner = f0.owner
    BY <2>3, <2>4 DEF RowFields
  <2>6. RowOK(r) /\ r.num = i /\ r.owner = TRUE /\ r.total = total /\ r.share = share
    BY <2>2, <2>3, <2>5 DEF RowOK, Unset, NotANumber
  <2> QED BY <2>2, <2>6 DEF share, r
<1>8. Len(t) = Len(k)
  <2>1. Len(t) \in Nat /\ DOMAIN t = 1..Len(t) /\ DOMAIN t = 1..Len(k) /\ Len(k) \in Nat
    BY <1>1, <1>2, <1>3, RowsFinite
  <2> QED BY <2>1
<1>9. Len(t) = 0 \/ SumFunctionOnSet(f, DOMAIN t) = 10000
  <2>1. IsFiniteSet(D) /\ \A i \in D : f[i] = Share[k[i]]
    BY <1>1, <1>2, <1>7, RowsFinite
  <2>2. \A y \in K : Share[y] \in Int /\ \E x \in D : k[x] = y
    BY <1>4, PageAssumption
  <2>22. \A x \in D : k[x] \in K /\ f[x] = Share[k[x]]
    BY <1>5, <2>1
  <2>23. \A x, y \in D : k[x] = k[y] => x = y
    BY <1>1
  <2>24. IsFiniteSet(D) /\ IsFiniteSet(K)
    BY <1>4, <2>1
  <2> HIDE DEF f, D
  <2>3. SumFunctionOnSet(f, D) = SumFunctionOnSet(Share, K)
    BY ONLY <2>2, <2>22, <2>23, <2>24, SumReindexed
  <2>4. SumFunctionOnSet(f, DOMAIN t) = SumFunctionOnSet(f, D)
    BY <1>2
  <2> QED BY <1>6, <1>65, <1>8, <2>3, <2>4
<1>10. \A i \in D : t[i].share \in Int
  BY <1>5, <1>7
<1>11. \A i \in DOMAIN t : RowOK(t[i]) /\ t[i].num = i /\ t[i].owner /\ t[i].total \in Nat /\ t[i].share \in Int
  BY <1>2, <1>7, <1>10
<1> HIDE DEF f
<1> QED BY <1>3, <1>9, <1>11

-----------------------------------------------------------------------------
(* the popup's part of the page *)

Blank(s) == \A i \in DOMAIN s : s[i] = BlankRow
\* What makes a division of the rows of the popup, before and while they are edited.
\* While the popup is closed nothing is left in its rows but a total that was typed
\* as it closed.
DivisionInv(p) ==
  /\ InOrder(p.popup.rows) /\ \A k \in DOMAIN p.new : InOrder(p.new[k].rows)
  /\ p.cell.on = "brand" => p.cell.id \in Tops
  /\ p.popup.open \/ p.hung \/ Idle(p.popup.rows)
  /\ p.popup.open \/ p.cell.on # "popup" \/ Blank(p.popup.rows)
  /\ p.popup.open /\ p.popup.clean /\ ~p.hung /\ p.popup.for.on # "new" => Shared(p.popup.rows)

LEMMA BlankIsIdle == ASSUME NEW s, Blank(s) PROVE Idle(s)
<1>1. BlankRow.total = Unset
  BY DEF BlankRow
<1> QED BY <1>1 DEF Idle, Blank

\* What a step says of the cell.
CellFine(p, n) == n.cell = p.cell \/ n.cell.on \in {"none", "month", "po"} \/ (n.cell.on = "brand" /\ n.cell.id \in Tops)

LEMMA DivSame ==
  ASSUME NEW p, NEW n, DivisionInv(p), n.popup = p.popup, n.hung = p.hung, CellFine(p, n),
         \A k \in DOMAIN n.new : InOrder(n.new[k].rows)
  PROVE  DivisionInv(n)
BY DEF DivisionInv, CellFine

\* Pages that are the same to the popup.
Alike(p, n) == n.popup = p.popup /\ n.hung = p.hung /\ n.new = p.new /\ (n.cell = p.cell \/ n.cell = NoCell)
LEMMA AlikeAgain == ASSUME NEW p, NEW q, NEW n, Alike(p, q), Alike(q, n) PROVE Alike(p, n)
BY DEF Alike
LEMMA AlikeKeeps == ASSUME NEW p, NEW n, DivisionInv(p), Alike(p, n) PROVE DivisionInv(n)
<1>1. CellFine(p, n)
  BY DEF Alike, CellFine, NoCell
<1>2. \A k \in DOMAIN n.new : InOrder(n.new[k].rows)
  BY DEF Alike, DivisionInv
<1> QED BY <1>1, <1>2, DivSame DEF Alike
LEMMA UntouchedAlike ==
  ASSUME NEW p, Fields(p), NEW n, NEW fields, Untouched(p, n, fields),
         "popup" \notin fields, "hung" \notin fields, "new" \notin fields,
         "cell" \notin fields \/ n.cell = p.cell \/ n.cell = NoCell
  PROVE  Alike(p, n)
BY DEF Alike, Fields, Untouched

LEMMA RedrawAlike == ASSUME NEW p, Fields(p) PROVE Alike(p, Redraw(p)) /\ Fields(Redraw(p))
<1> DEFINE n == Redraw(p)
<1>1. Fields(n) /\ Untouched(p, n, {"cell", "button"}) /\ (n.cell = p.cell \/ n.cell = NoCell)
  BY RedrawIs
<1> HIDE DEF n
<1>2. Alike(p, n)
  BY <1>1, UntouchedAlike
<1> QED BY <1>1, <1>2 DEF n

LEMMA RecalculatedAlike == ASSUME NEW p, Fields(p) PROVE Alike(p, Recalculated(p)) /\ Fields(Recalculated(p))
<1> DEFINE n == Recalculated(p)
<1>1. Fields(n) /\ Untouched(p, n, {"data", "been"})
  BY RecalculatedIs
<1> HIDE DEF n
<1>2. Alike(p, n)
  BY <1>1, UntouchedAlike
<1> QED BY <1>1, <1>2 DEF n

\* The popup opens with rows in order, that are a division if it was closed.
LEMMA PopupForDiv ==
  ASSUME NEW p, Fields(p), DivisionInv(p), NEW c, NEW rows, InOrder(rows), c.on = "new" \/ p.popup.open \/ Shared(rows)
  PROVE  DivisionInv(PopupFor(p, c, rows)) /\ Fields(PopupFor(p, c, rows))
<1> DEFINE n == PopupFor(p, c, rows)
<1>1. /\ Fields(n) /\ Untouched(p, n, {"popup", "cell", "overlay", "been"}) /\ n.overlay = TRUE
      /\ n.popup.open = TRUE /\ n.popup.rows = rows
      /\ n.cell = IF p.cell.on = "popup" THEN p.cell ELSE NoCell
      /\ (n.been.loose <=> p.been.loose \/ p.overlay) /\ Untouched(p.been, n.been, {"loose"})
  BY PopupForIs
<1>2. n.popup.clean = ~p.popup.open /\ n.popup.for = c
  BY DEF PopupFor, Fields
<1> HIDE DEF n
<1>3. n.new = p.new /\ n.hung = p.hung
  BY <1>1 DEF Fields, Untouched
<1>4. n.cell.on = "brand" => n.cell.id \in Tops
  BY <1>1 DEF NoCell
<1>5. \A k \in DOMAIN n.new : InOrder(n.new[k].rows)
  BY <1>3 DEF DivisionInv
<1>6. n.popup.open /\ n.popup.clean /\ ~n.hung /\ n.popup.for.on # "new" => Shared(n.popup.rows)
  BY <1>1, <1>2
<1>7. DivisionInv(n)
  BY <1>1, <1>4, <1>5, <1>6 DEF DivisionInv
<1> QED BY <1>1, <1>7 DEF n

LEMMA PopupForOpens ==
  ASSUME NEW p, Fields(p), NEW c, NEW rows
  PROVE  LET n == PopupFor(p, c, rows) IN Fields(n) /\ n.popup.open /\ n.popup.for = c /\ n.data = p.data
<1> DEFINE n == PopupFor(p, c, rows)
<1>1. Fields(n) /\ n.popup.open = TRUE
  BY PopupForIs
<1>2. n.popup.for = c /\ n.data = p.data
  BY DEF PopupFor, Fields
<1> QED BY <1>1, <1>2

\* The rows change while the popup is open.
LEMMA OpenRowsDiv ==
  ASSUME NEW p, NEW n, DivisionInv(p), p.popup.open, n.popup.open = p.popup.open, n.new = p.new,
         InOrder(n.popup.rows), n.cell = p.cell \/ n.cell.on \in {"none", "popup"},
         n.popup.clean /\ ~n.hung /\ n.popup.for.on # "new" => Shared(n.popup.rows)
  PROVE  DivisionInv(n)
<1>1. \A k \in DOMAIN n.new : InOrder(n.new[k].rows)
  BY DEF DivisionInv
<1>2. n.cell.on = "brand" => n.cell.id \in Tops
  BY DEF DivisionInv
<1> QED BY <1>1, <1>2 DEF DivisionInv

\* ... or a cell of the popup is taken over after it was closed.
LEMMA ClosedRowsDiv ==
  ASSUME NEW p, NEW n, DivisionInv(p), ~p.popup.open, n.popup.open = p.popup.open, n.new = p.new, n.cell = NoCell,
         InOrder(n.popup.rows), n.hung \/ Idle(n.popup.rows)
  PROVE  DivisionInv(n)
<1>1. \A k \in DOMAIN n.new : InOrder(n.new[k].rows)
  BY DEF DivisionInv
<1>2. n.cell.on # "brand" /\ n.cell.on # "popup"
  BY DEF NoCell
<1> QED BY <1>1, <1>2 DEF DivisionInv

-----------------------------------------------------------------------------
(* the popup is edited *)

LEMMA RowsDiv == ASSUME PageInv, DivisionInv(page) PROVE Sequence(page.popup.rows) /\ InOrder(page.popup.rows) /\ Fields(page)
BY RowsAreSeq, PageFields DEF DivisionInv

\* Rows that are edited while the popup is open: in order, and still a division unless the
\* page says they need not be.
LEMMA EditedDiv ==
  ASSUME DivisionInv(page), page.popup.open, ~page.hung, NEW n, InOrder(n.popup.rows),
         n.popup.open = page.popup.open, n.popup.for = page.popup.for, n.hung = page.hung, n.new = page.new,
         n.cell = page.cell \/ n.cell.on \in {"none", "popup"},
         n.popup.clean => page.popup.clean /\ (Shared(page.popup.rows) => Shared(n.popup.rows))
  PROVE  DivisionInv(n)
<1>1. n.popup.clean /\ ~n.hung /\ n.popup.for.on # "new" => Shared(n.popup.rows)
  BY DEF DivisionInv
<1> QED BY <1>1, OpenRowsDiv

LEMMA EditedIs ==
  ASSUME Fields(page), NEW rows
  PROVE  LET n == Edited(rows)
         IN  /\ n.popup.rows = rows /\ n.popup.open = page.popup.open /\ n.popup.for = page.popup.for
             /\ n.popup.clean = page.popup.clean /\ n.cell = page.cell /\ n.hung = page.hung /\ n.new = page.new
             /\ DOMAIN n = DOMAIN page /\ DOMAIN n.popup = DOMAIN page.popup
BY DEF Edited, WithRows, Fields

\* Opening a row changes no share.
LEMMA OpenedShared ==
  ASSUME NEW s, Sequence(s), InOrder(s), Shared(s), NEW i \in DOMAIN s, NEW field
  PROVE  Shared(Opened(s, i, field))
<1> DEFINE t == Opened(s, i, field)
           above == s[i - 1]
           next == IF above.num \in {0, NotANumber} THEN NotANumber ELSE above.num + 1
           named == IF s[i].num = 0 THEN next ELSE s[i].num
           owner == s[i].owner \/ above.owner
<1>1. CASE field = "total" \/ i = 1
  BY <1>1 DEF Opened
<1>2. CASE ~(field = "total" \/ i = 1)
  <2>1. DOMAIN s[i] = RowFields
    BY DEF InOrder, RowOK
  <2>2. t = [s EXCEPT ![i].named = TRUE, ![i].num = named, ![i].owner = owner]
    BY <1>2 DEF Opened
  <2> HIDE DEF named, owner
  <2>3. DOMAIN t = DOMAIN s /\ \A j \in DOMAIN s : j # i => t[j] = s[j]
    BY <2>2
  <2>4. t[i] = [s[i] EXCEPT !.named = TRUE, !.num = named, !.owner = owner]
    BY <2>1, <2>2 DEF RowFields
  <2>5. t[i].total = s[i].total /\ t[i].share = s[i].share /\ t[i].brand = s[i].brand
    BY <2>1, <2>4 DEF RowFields
  <2> HIDE DEF t
  <2>6. Shared(t)
    BY <2>3, <2>5, SharedKept
  <2> QED BY <2>6 DEF t
<1> QED BY <1>1, <1>2

LEMMA OpenPopupCellDiv == ASSUME PageInv, DivisionInv(page), OpenPopupCell PROVE DivisionInv(page')
<1> DEFINE s == page.popup.rows
<1>1. PICK i \in DOMAIN s, field \in {"brand", "total"} :
        Shows([Edited(Opened(s, i, field)) EXCEPT !.cell = [on |-> "popup", row |-> i, field |-> field]])
  BY DEF OpenPopupCell
<1> DEFINE rows == Opened(s, i, field)
           cell == [on |-> "popup", row |-> i, field |-> field]
<1>2. Sequence(s) /\ InOrder(s) /\ Fields(page) /\ page.popup.open /\ ~page.hung
  BY RowsDiv DEF OpenPopupCell, MayEdit, InPopup
<1>3. InOrder(rows)
  BY <1>2, OpenedInOrder
<1>4. Shared(s) => Shared(rows)
  BY <1>2, OpenedShared
<1>5. cell.on = "popup"
  OBVIOUS
<1>6. page' = [Edited(rows) EXCEPT !.cell = cell]
  BY <1>1 DEF Shows, Becomes
<1> HIDE DEF rows, cell
<1> DEFINE n == page'
<1>7. /\ n.popup.rows = rows /\ n.popup.open = page.popup.open /\ n.popup.for = page.popup.for
      /\ n.popup.clean = page.popup.clean /\ n.cell = cell /\ n.hung = page.hung /\ n.new = page.new
  BY <1>2, <1>6 DEF Edited, WithRows, Fields
<1> HIDE DEF n
<1>8. DivisionInv(n)
  BY <1>2, <1>3, <1>4, <1>5, <1>7, EditedDiv
<1> QED BY <1>8 DEF n

LEMMA AddRowDiv == ASSUME PageInv, DivisionInv(page), AddRow PROVE DivisionInv(page')
<1> DEFINE s == page.popup.rows
           rows == Append(s, BlankRow)
           cell == IF page.cell.on = "popup" THEN NoCell ELSE page.cell
<1>1. page' = [Edited(rows) EXCEPT !.cell = IF @.on = "popup" THEN NoCell ELSE @]
  BY DEF AddRow, Shows, Becomes
<1>2. Sequence(s) /\ InOrder(s) /\ Fields(page) /\ page.popup.open /\ ~page.hung
  BY RowsDiv DEF AddRow, MayEdit, InPopup
<1>3. InOrder(rows) /\ (Shared(s) => Shared(rows))
  BY <1>2, AppendedInOrder, SharedAppended
<1>5. cell = page.cell \/ cell.on \in {"none", "popup"}
  BY DEF NoCell
<1> HIDE DEF rows
<1> DEFINE n == page'
<1>7. /\ n.popup.rows = rows /\ n.popup.open = page.popup.open /\ n.popup.for = page.popup.for
      /\ n.popup.clean = page.popup.clean /\ n.cell = cell /\ n.hung = page.hung /\ n.new = page.new
  BY <1>1, <1>2 DEF Edited, WithRows, Fields
<1> HIDE DEF cell, n
<1>8. DivisionInv(n)
  BY <1>2, <1>3, <1>5, <1>7, EditedDiv
<1> QED BY <1>8 DEF n

LEMMA DeleteRowsDiv == ASSUME PageInv, DivisionInv(page), DeleteRows PROVE DivisionInv(page')
<1> DEFINE s == page.popup.rows
<1>1. PICK gone \in SUBSET DOMAIN s :
        LET done == [Edited(Delete(s, gone, IsNew)) EXCEPT !.popup.clean = FALSE]
        IN  \/ Shows([done EXCEPT !.cell = IF @.on = "popup" THEN NoCell ELSE @])
            \/ gone # DOMAIN s /\ Shows([Edited(Without(s, gone)) EXCEPT !.popup.clean = FALSE])
  BY DEF DeleteRows
<1>2. Sequence(s) /\ InOrder(s) /\ Fields(page) /\ page.popup.open /\ ~page.hung
  BY RowsDiv DEF DeleteRows, MayEdit, InPopup
<1>3. CASE Shows([[Edited(Delete(s, gone, IsNew)) EXCEPT !.popup.clean = FALSE]
                    EXCEPT !.cell = IF @.on = "popup" THEN NoCell ELSE @])
  <2> DEFINE rows == Delete(s, gone, IsNew)
             cell == IF page.cell.on = "popup" THEN NoCell ELSE page.cell
  <2>1. InOrder(rows)
    BY <1>2, DeleteInOrder
  <2>2. page' = [[Edited(rows) EXCEPT !.popup.clean = FALSE] EXCEPT !.cell = IF @.on = "popup" THEN NoCell ELSE @]
    BY <1>3 DEF Shows, Becomes
  <2> HIDE DEF rows
  <2> DEFINE n == page'
  <2>3. /\ n.popup.rows = rows /\ n.popup.open = page.popup.open /\ n.popup.for = page.popup.for
        /\ n.popup.clean = FALSE /\ n.cell = cell /\ n.hung = page.hung /\ n.new = page.new
    BY <1>2, <2>2 DEF Edited, WithRows, Fields
  <2>4. cell = page.cell \/ cell.on \in {"none", "popup"}
    BY DEF NoCell
  <2> HIDE DEF cell, n
  <2>5. DivisionInv(n)
    BY <1>2, <2>1, <2>3, <2>4, EditedDiv
  <2> QED BY <2>5 DEF n
<1>4. CASE gone # DOMAIN s /\ Shows([Edited(Without(s, gone)) EXCEPT !.popup.clean = FALSE])
  <2> DEFINE rows == Without(s, gone)
             cell == page.cell
  <2>1. InOrder(rows)
    BY <1>2, <1>4, WithoutInOrder
  <2>2. page' = [Edited(rows) EXCEPT !.popup.clean = FALSE]
    BY <1>4 DEF Shows, Becomes
  <2> HIDE DEF rows
  <2> DEFINE n == page'
  <2>3. /\ n.popup.rows = rows /\ n.popup.open = page.popup.open /\ n.popup.for = page.popup.for
        /\ n.popup.clean = FALSE /\ n.cell = cell /\ n.hung = page.hung /\ n.new = page.new
    BY <1>2, <2>2 DEF Edited, WithRows, Fields
  <2>4. cell = page.cell
    OBVIOUS
  <2> HIDE DEF cell, n
  <2>5. DivisionInv(n)
    BY <1>2, <2>1, <2>3, <2>4, EditedDiv
  <2> QED BY <2>5 DEF n
<1> QED BY <1>1, <1>3, <1>4

-----------------------------------------------------------------------------
(* a cell of the popup is taken over *)

LEMMA CommitIs ==
  ASSUME Fields(page), NEW rows, NEW clean
  PROVE  LET n == [PopupCommit(rows) EXCEPT !.popup.clean = clean]
         IN  /\ n.popup.rows = rows /\ n.popup.open = page.popup.open /\ n.popup.for = page.popup.for
             /\ n.popup.clean = clean /\ n.cell = NoCell /\ n.hung = page.hung /\ n.new = page.new
BY DEF PopupCommit, WithRows, Fields

LEMMA CommittedDiv ==
  ASSUME PageInv, DivisionInv(page), ~page.hung, NEW rows, InOrder(rows), NEW clean,
         page.popup.open /\ clean => Shared(rows) \/ (page.popup.clean /\ (Shared(page.popup.rows) => Shared(rows))),
         page.popup.open \/ Idle(rows)
  PROVE  DivisionInv([PopupCommit(rows) EXCEPT !.popup.clean = clean])
<1> DEFINE n == [PopupCommit(rows) EXCEPT !.popup.clean = clean]
<1>1. Fields(page)
  BY PageFields
<1>2. /\ n.popup.rows = rows /\ n.popup.open = page.popup.open /\ n.popup.for = page.popup.for
      /\ n.popup.clean = clean /\ n.cell = NoCell /\ n.hung = page.hung /\ n.new = page.new
  BY <1>1, CommitIs
<1> HIDE DEF n
<1>3. CASE page.popup.open
  <2>1. n.popup.clean /\ ~n.hung /\ n.popup.for.on # "new" => Shared(n.popup.rows)
    BY <1>2, <1>3 DEF DivisionInv
  <2>2. n.cell.on \in {"none", "popup"}
    BY <1>2 DEF NoCell
  <2>3. DivisionInv(n)
    BY <1>2, <1>3, <2>1, <2>2, OpenRowsDiv
  <2> QED BY <2>3 DEF n
<1>4. CASE ~page.popup.open
  <2>1. DivisionInv(n)
    BY <1>2, <1>4, ClosedRowsDiv
  <2> QED BY <2>1 DEF n
<1> QED BY <1>3, <1>4

LEMMA CommitPopupBrandDiv == ASSUME PageInv, DivisionInv(page), CommitPopupBrand PROVE DivisionInv(page')
<1> DEFINE s == page.popup.rows
           i == page.cell.row
<1>1. PICK b : Shows([PopupCommit([s EXCEPT ![i].brand = b]) EXCEPT !.popup.clean = @ /\ b # ""])
  BY DEF CommitPopupBrand
<1> DEFINE t == [s EXCEPT ![i].brand = b]
           clean == page.popup.clean /\ b # ""
<1>2. Sequence(s) /\ InOrder(s) /\ Fields(page) /\ ~page.hung /\ page.cell.on = "popup" /\ i \in DOMAIN s
  BY RowsDiv DEF CommitPopupBrand, InCell
<1>3. InOrder(t)
  <2>1. 0 \in Int
    OBVIOUS
  <2> HIDE DEF s, i
  <2> QED BY <1>2, <2>1, EditedInOrder
<1>4. page' = [PopupCommit(t) EXCEPT !.popup.clean = @ /\ b # ""]
  BY <1>1 DEF Shows, Becomes
<1>5. DOMAIN t = DOMAIN s /\ \A j \in DOMAIN s : t[j].total = s[j].total /\ t[j].share = s[j].share /\ (t[j].brand = s[j].brand \/ t[j].brand = b)
  <2>1. \A j \in DOMAIN s : DOMAIN s[j] = RowFields
    BY <1>2 DEF InOrder, RowOK
  <2> HIDE DEF s, i
  <2>2. DOMAIN t = DOMAIN s
    OBVIOUS
  <2>3. \A j \in DOMAIN s : t[j] = s[j] \/ t[j] = [s[j] EXCEPT !.brand = b]
    OBVIOUS
  <2> HIDE DEF t
  <2> QED BY <2>1, <2>2, <2>3 DEF RowFields
<1> HIDE DEF t
<1>6. page' = [PopupCommit(t) EXCEPT !.popup.clean = clean]
  BY <1>2, <1>4 DEF PopupCommit, WithRows, Fields
<1>7. clean => page.popup.clean /\ (Shared(s) => Shared(t))
  <2> SUFFICES ASSUME page.popup.clean, b # "", Shared(s) PROVE Shared(t)
    OBVIOUS
  <2>1. \A j \in DOMAIN s : t[j].total = s[j].total /\ t[j].share = s[j].share /\ (s[j].brand # "" => t[j].brand # "")
    BY <1>5
  <2> HIDE DEF s
  <2> QED BY <1>2, <1>5, <2>1, SharedKept
<1>8. page.popup.open \/ Idle(t)
  <2> SUFFICES ASSUME ~page.popup.open PROVE Idle(t)
    OBVIOUS
  <2>1. Idle(s)
    BY <1>2 DEF DivisionInv
  <2> QED BY <1>5, <2>1 DEF Idle
<1> HIDE DEF clean
<1>9. DivisionInv([PopupCommit(t) EXCEPT !.popup.clean = clean])
  BY <1>2, <1>3, <1>7, <1>8, CommittedDiv
<1> QED BY <1>6, <1>9

\* The total typed into a popup that has been closed: it is kept with its share.
LEMMA BlankTotalIdle ==
  ASSUME NEW s, Sequence(s), InOrder(s), Blank(s), NEW i \in DOMAIN s, NEW total \in Nat,
         ~Hangs([s EXCEPT ![i].total = total])
  PROVE  Idle(ShareOut([s EXCEPT ![i].total = total]))
<1> DEFINE t == [s EXCEPT ![i].total = total]
<1>1. DOMAIN s = 1..Len(s) /\ Len(s) \in Nat /\ 1 \in DOMAIN s /\ \A j \in DOMAIN s : s[j] = BlankRow
  BY RowsFinite DEF InOrder, Blank
<1>2. DOMAIN t = DOMAIN s /\ Sequence(t)
  BY RowsEdited
<1>3. InOrder(t)
  <2>1. total \in Int /\ total >= Unset
    BY DEF Unset
  <2> QED BY <2>1, EditedInOrder
<1>4. /\ t[i] = [BlankRow EXCEPT !.total = total]
      /\ \A j \in DOMAIN s : j # i => t[j] = BlankRow
  BY <1>1
<1> HIDE DEF t
<1>5. /\ t[i].total = total /\ t[i].brand = ""
      /\ \A j \in DOMAIN t : j # i => t[j].total = Unset /\ t[j].brand = ""
  <2>1. {"total", "brand"} \subseteq DOMAIN BlankRow /\ BlankRow.total = Unset /\ BlankRow.brand = ""
    BY DEF BlankRow
  <2>2. t[i].total = total /\ t[i].brand = ""
    BY <1>4, <2>1
  <2> QED BY <1>2, <1>4, <2>1, <2>2
<1>6. NBrands(t) = 0
  <2>1. {j \in DOMAIN t : t[j].brand # ""} = {}
    BY <1>5
  <2>2. NBrands(t) = Cardinality({j \in DOMAIN t : t[j].brand # ""})
    BY DEF NBrands, Quantify
  <2> QED BY <2>1, <2>2, FS_EmptySet
<1>7. total # Unset
  BY DEF Unset
<1>8. /\ SumTotals(t) \in Nat /\ Amount(t[i]) = total /\ total <= SumTotals(t)
      /\ SumTotals(t) # 0 => total # 0
  <2>1. /\ \A j \in DOMAIN t : Amount(t[j]) \in Nat /\ (t[j].total # Unset => Amount(t[j]) = t[j].total)
        /\ SumTotals(t) \in Nat
        /\ \A j \in DOMAIN t : Amount(t[j]) <= SumTotals(t)
        /\ SumTotals(t) # 0 => \E j \in DOMAIN t : Amount(t[j]) # 0
    BY <1>2, <1>3, AmountsAre
  <2>2. \A j \in DOMAIN t : j # i => Amount(t[j]) = 0
    BY <1>5 DEF Amount
  <2> QED BY <1>2, <1>5, <1>7, <2>1, <2>2
<1>9. \A j \in DOMAIN t : ShareOut(t)[j].total = t[j].total /\ ShareOut(t)[j].share = SharePut(t, j)
  <2>1. ShareOut(t) = [j \in DOMAIN t |-> [t[j] EXCEPT !.share = SharePut(t, j)]]
    BY ShareOutIs
  <2>2. \A j \in DOMAIN t : DOMAIN t[j] = RowFields
    BY <1>3 DEF InOrder, RowOK
  <2> QED BY <2>1, <2>2 DEF RowFields
<1>10. DOMAIN ShareOut(t) = DOMAIN t
  BY ShareOutIs
<1>11. \A j \in DOMAIN t : j # i => ShareOut(t)[j].total = Unset
  BY <1>5, <1>9
<1>12. CASE total = 0
  <2>1. SharePut(t, i) = 0
    BY <1>5, <1>7, <1>8, <1>12 DEF SharePut
  <2>2. ShareOut(t)[i].total = 0 /\ ShareOut(t)[i].share = 0
    BY <1>2, <1>5, <1>9, <1>12, <2>1
  <2>3. Idle(ShareOut(t))
    BY <1>10, <1>11, <2>2 DEF Idle
  <2> QED BY <2>3 DEF t
<1>13. CASE total # 0
  <2>1. AtLast(t, i) /\ LastBrand(t) = 1 /\ SumTotals(t) # 0
    <3>1. i \in Nat
      BY <1>1
    <3>2. SumTotals(t) > 0 /\ i >= NBrands(t) /\ t[i].total # Unset
      <4>1. total > 0
        BY <1>13
      <4>2. SumTotals(t) > 0
        BY <1>8, <4>1
      <4>3. i >= NBrands(t)
        BY <1>6, <3>1
      <4>4. t[i].total # Unset
        BY <1>5, <1>7
      <4> QED BY <4>2, <4>3, <4>4
    <3>3. LastBrand(t) = 1
      BY <1>6 DEF LastBrand
    <3> QED BY <1>8, <3>2, <3>3 DEF AtLast
  <2>2. i = 1
    <3>1. ~(i > LastBrand(t))
      BY <1>2, <2>1 DEF Hangs, t
    <3> QED BY <1>1, <2>1, <3>1
  <2>3. Left(t) = 10000
    <3> DEFINE f == [j \in 1..(NBrands(t) - 1) |-> Percent(Amount(t[j]), SumTotals(t))]
    <3>1. DOMAIN f = {}
      BY <1>6
    <3>2. SumFunction(f) = SumFunctionOnSet(f, DOMAIN f)
      BY DEF SumFunction
    <3>3. \A j \in DOMAIN f : f[j] = 0
      BY <3>1
    <3>4. Left(t) = 10000 - SumFunction(f)
      BY DEF Left
    <3> HIDE DEF f
    <3>5. SumFunctionOnSet(f, DOMAIN f) = 0
      BY <3>1, <3>3, FS_EmptySet, SumOfNothing
    <3> QED BY <3>2, <3>4, <3>5
  <2>4. SharePut(t, i) = 10000
    <3>1. t[i].total # Unset
      BY <1>5, <1>7
    <3> QED BY <2>1, <2>3, <3>1 DEF SharePut
  <2>5. ShareOut(t)[i].total > 0 /\ ShareOut(t)[i].share = 10000
    <3>1. ShareOut(t)[i].total = t[i].total /\ ShareOut(t)[i].share = SharePut(t, i)
      BY <1>2, <1>9
    <3>2. total > 0
      BY <1>13
    <3>3. t[i].total = total
      BY <1>5
    <3> QED BY ONLY <2>4, <3>1, <3>2, <3>3
  <2>6. Idle(ShareOut(t))
    BY <1>10, <1>11, <2>2, <2>5 DEF Idle
  <2> QED BY <2>6 DEF t
<1> QED BY <1>12, <1>13

LEMMA IdleGrown == ASSUME NEW s, Sequence(s), Idle(s), NEW i PROVE Idle(Grown(s, i))
<1>1. CASE Grown(s, i) = s
  BY <1>1
<1>2. CASE Grown(s, i) = Append(s, BlankRow)
  <2> DEFINE t == Grown(s, i)
  <2>1. /\ DOMAIN s = 1..Len(s) /\ Len(s) \in Nat
    BY RowsFinite
  <2>2. DOMAIN t = 1..(Len(s) + 1) /\ \A j \in 1..(Len(s) + 1) : t[j] = IF j = Len(s) + 1 THEN BlankRow ELSE s[j]
    BY <1>2, <2>1, AppendIs
  <2> HIDE DEF t
  <2>3. \A j \in DOMAIN t : t[j] = BlankRow \/ (j \in DOMAIN s /\ t[j] = s[j])
    BY <2>1, <2>2
  <2>4. BlankRow.total = Unset
    BY DEF BlankRow
  <2>5. Idle(t)
    BY <2>3, <2>4 DEF Idle
  <2> QED BY <2>5 DEF t
<1>3. Grown(s, i) = s \/ Grown(s, i) = Append(s, BlankRow)
  BY DEF Grown
<1> QED BY <1>1, <1>2, <1>3

LEMMA BlankRestoredIdle ==
  ASSUME NEW s, Blank(s), NEW i \in DOMAIN s, NEW total
  PROVE  LET t == [s EXCEPT ![i].total = total] IN Idle(Restored(t, i))
<1> DEFINE t == [s EXCEPT ![i].total = total]
           u == Restored(t, i)
<1>1. \A j \in DOMAIN s : s[j] = BlankRow
  BY DEF Blank
<1>2. DOMAIN t = DOMAIN s /\ t[i] = [BlankRow EXCEPT !.total = total] /\ \A j \in DOMAIN s : j # i => t[j] = BlankRow
  BY <1>1
<1> HIDE DEF t
<1>3. t[i].was = Unset /\ {"total", "share"} \subseteq DOMAIN t[i]
  BY <1>2 DEF BlankRow
<1>4. u = [t EXCEPT ![i].total = 0, ![i].share = 0]
  BY <1>3 DEF Restored
<1>5. DOMAIN u = DOMAIN s /\ (\A j \in DOMAIN s : j # i => u[j] = BlankRow) /\ u[i] = [t[i] EXCEPT !.total = 0, !.share = 0]
  BY <1>2, <1>4
<1> HIDE DEF u
<1>6. u[i].total = 0 /\ u[i].share = 0 /\ BlankRow.total = Unset
  BY <1>3, <1>5 DEF BlankRow
<1>7. Idle(u)
  <2>1. \A j \in DOMAIN u : j # i => u[j].total = Unset
    BY <1>5, <1>6
  <2> QED BY <1>6, <2>1 DEF Idle
<1> QED BY <1>7 DEF u, t

LEMMA CommitPopupTotalDiv ==
  ASSUME PageInv, DivisionInv(page), CommitPopupTotal, Totals \subseteq Int
  PROVE  DivisionInv(page')
<1> DEFINE s == page.popup.rows
           i == page.cell.row
<1>1. PICK total \in Totals :
        LET rows == [s EXCEPT ![i].total = total]
        IN  Shows(IF total < 0 THEN [PopupCommit(Restored(rows, i)) EXCEPT !.popup.clean = FALSE]
                  ELSE IF Hangs(rows) THEN [PopupCommit(rows) EXCEPT !.hung = TRUE]
                  ELSE [PopupCommit(Grown(ShareOut(rows), i)) EXCEPT !.popup.clean = TRUE])
  BY DEF CommitPopupTotal
<1> DEFINE t == [s EXCEPT ![i].total = total]
<1>2. Sequence(s) /\ InOrder(s) /\ Fields(page) /\ ~page.hung /\ page.cell.on = "popup" /\ i \in DOMAIN s
  BY RowsDiv DEF CommitPopupTotal, InCell
<1>3. total \in Int
  OBVIOUS
<1>4. page.popup.open \/ Blank(s)
  BY <1>2 DEF DivisionInv
<1>5. page' = IF total < 0 THEN [PopupCommit(Restored(t, i)) EXCEPT !.popup.clean = FALSE]
              ELSE IF Hangs(t) THEN [PopupCommit(t) EXCEPT !.hung = TRUE]
              ELSE [PopupCommit(Grown(ShareOut(t), i)) EXCEPT !.popup.clean = TRUE]
  BY <1>1 DEF Shows, Becomes
<1>6. /\ total >= Unset => InOrder(t)
      /\ LET r == [s EXCEPT ![i].total = total] IN InOrder(Restored(r, i))
  <2> HIDE DEF s, i
  <2> QED BY <1>2, <1>3, EditedInOrder
<1>7. Sequence(t)
  <2> HIDE DEF s, i
  <2> QED BY <1>2, RowsEdited
<1>8. CASE total < 0
  <2> DEFINE u == Restored(t, i)
  <2>1. InOrder(u)
    BY <1>6
  <2>2. page.popup.open \/ Idle(u)
    <3> HIDE DEF s, i
    <3> QED BY <1>2, <1>4, BlankRestoredIdle
  <2>3. page' = [PopupCommit(u) EXCEPT !.popup.clean = FALSE]
    BY <1>5, <1>8
  <2> HIDE DEF u, t, s, i
  <2>4. DivisionInv([PopupCommit(u) EXCEPT !.popup.clean = FALSE])
    BY <1>2, <2>1, <2>2, CommittedDiv
  <2> QED BY <2>3, <2>4
<1>9. CASE ~(total < 0) /\ Hangs(t)
  <2> DEFINE n == page'
  <2>1. InOrder(t)
    BY <1>3, <1>6, <1>9 DEF Unset
  <2>2. page' = [PopupCommit(t) EXCEPT !.hung = TRUE]
    BY <1>5, <1>9
  <2> HIDE DEF t
  <2>3. /\ n.popup.rows = t /\ n.popup.open = page.popup.open /\ n.new = page.new /\ n.hung = TRUE /\ n.cell = NoCell
    BY <1>2, <2>2 DEF PopupCommit, WithRows, Fields
  <2> HIDE DEF n
  <2>4. n.cell.on = "none"
    BY <2>3 DEF NoCell
  <2>5. DivisionInv(n)
    BY <2>1, <2>3, <2>4, OpenRowsDiv, ClosedRowsDiv
  <2> QED BY <2>5 DEF n
<1>10. CASE ~(total < 0) /\ ~Hangs(t)
  <2> DEFINE v == ShareOut(t)
             u == Grown(v, i)
  <2>1. InOrder(t) /\ total \in Nat
    BY <1>3, <1>6, <1>10 DEF Unset
  <2>2. InOrder(v) /\ Sequence(v)
    <3>1. 0 \in Int
      OBVIOUS
    <3>2. InOrder(v)
      <4> HIDE DEF t
      <4> QED BY <1>7, <2>1, <3>1, EditedInOrder
    <3>5. Sequence(v)
      <4> HIDE DEF t, i
      <4> QED BY <1>7, RowsEdited
    <3> QED BY <3>2, <3>5
  <2>3. Shared(v)
    BY <1>7, <1>10, <2>1, ShareOutShared
  <2>4. page.popup.open \/ Idle(v)
    <3> HIDE DEF s, i
    <3> QED BY <1>2, <1>4, <1>10, <2>1, BlankTotalIdle
  <2> HIDE DEF v
  <2>5. InOrder(u) /\ Shared(u) /\ (page.popup.open \/ Idle(u))
    <3> HIDE DEF i
    <3> QED BY <2>2, <2>3, <2>4, AppendedInOrder, SharedAppended, IdleGrown
  <2>6. page' = [PopupCommit(u) EXCEPT !.popup.clean = TRUE]
    BY <1>5, <1>10 DEF v
  <2> HIDE DEF u, t, s, i
  <2>7. DivisionInv([PopupCommit(u) EXCEPT !.popup.clean = TRUE])
    BY <1>2, <2>5, CommittedDiv
  <2> QED BY <2>6, <2>7
<1> QED BY <1>8, <1>9, <1>10

-----------------------------------------------------------------------------
(* the handlers that leave the popup alone *)

LEMMA AlikeStep == ASSUME DivisionInv(page), Alike(page, page') PROVE DivisionInv(page')
<1> DEFINE n == page'
<1>1. Alike(page, n)
  OBVIOUS
<1> HIDE DEF n
<1>2. DivisionInv(n)
  BY <1>1, AlikeKeeps
<1> QED BY <1>2 DEF n

\* The cells of the grid that are taken over touch the popup no more than by closing an editor.
LEMMA GridAlike ==
  ASSUME Fields(page), EscapeKey \/ Rejected \/ CommitMonth \/ CommitPO
  PROVE  Alike(page, page')
<1>1. CASE EscapeKey
  BY <1>1 DEF EscapeKey, Shows, Becomes, Alike, Fields
<1>2. CASE Rejected
  BY <1>2 DEF Rejected, Redraw, Shows, Becomes, Alike, Fields
<1>3. CASE CommitMonth
  <2> DEFINE p == page.cell.id
             m == page.cell.month
  <2>1. PICK amount : \/ Rejected
                      \/ Becomes([Recalculated([Redraw(page) EXCEPT !.data = EditMonth(@, p, m, amount)])
                              EXCEPT !.saving = TRUE])
    BY <1>3 DEF CommitMonth
  <2> DEFINE q == [Redraw(page) EXCEPT !.data = EditMonth(@, p, m, amount)]
             r == Recalculated(q)
  <2>2. q.popup = page.popup /\ q.hung = page.hung /\ q.new = page.new /\ (q.cell = page.cell \/ q.cell = NoCell)
    BY DEF Redraw, Fields
  <2> HIDE DEF q
  <2>3. r.popup = q.popup /\ r.hung = q.hung /\ r.new = q.new /\ r.cell = q.cell
    BY DEF Recalculated
  <2>4. CASE Becomes([r EXCEPT !.saving = TRUE])
    <3> HIDE DEF r
    <3> QED BY <2>2, <2>3, <2>4 DEF Becomes, Alike
  <2> QED BY <1>2, <2>1, <2>4 DEF q
<1>4. CASE CommitPO
  <2> DEFINE r == Recalculated(Redraw(page))
  <2>1. Alike(page, r)
    <3> DEFINE q == Redraw(page)
    <3>1. Alike(page, q) /\ Fields(q)
      BY RedrawAlike
    <3> HIDE DEF q
    <3>2. Alike(q, Recalculated(q))
      BY <3>1, RecalculatedAlike
    <3>3. Alike(page, Recalculated(q))
      BY <3>1, <3>2, AlikeAgain
    <3> QED BY <3>3 DEF q
  <2> HIDE DEF r
  <2>2. CASE Shows([page EXCEPT !.saving = FALSE, !.button = TRUE])
    BY <2>2 DEF Shows, Becomes, Alike, Fields
  <2>3. CASE Becomes([r EXCEPT !.saving = TRUE, !.overlay = TRUE, !.been.loose = @ \/ page.overlay])
    BY <2>1, <2>3 DEF Becomes, Alike
  <2> QED BY <1>4, <2>2, <2>3 DEF CommitPO, r
<1> QED BY <1>1, <1>2, <1>3, <1>4

LEMMA WindowsAlike ==
  ASSUME Fields(page), SubmitProjects \/ PostProject \/ OpenWindow \/ CloseWindow \/ Narrow \/ Widen
  PROVE  Alike(page, page')
<1>1. CASE SubmitProjects
  <2>1. PICK b : \/ Becomes([page EXCEPT !.rejected = FALSE])
                 \/ Becomes([page EXCEPT !.button = FALSE, !.overlay = TRUE])
                 \/ Becomes([page EXCEPT !.button = b])
    BY <1>1 DEF SubmitProjects, Shows
  <2> QED BY <2>1 DEF Becomes, Alike, Fields
<1>2. CASE PostProject
  BY <1>2 DEF PostProject, Becomes, Alike, Fields
<1>3. CASE OpenWindow \/ CloseWindow
  BY <1>3 DEF OpenWindow, CloseWindow, Shows, Becomes, Alike, Fields
<1>4. CASE Narrow \/ Widen
  BY <1>4 DEF Narrow, Widen, Shows, Becomes, Alike, Fields
<1> QED BY <1>1, <1>2, <1>3, <1>4

LEMMA SearchAlike == ASSUME Fields(page), Search \/ RadioButton PROVE Alike(page, page')
<1>1. CASE Search
  <2>1. PICK q : LET p == [page EXCEPT !.cell = NoCell, !.query = q,
                                       !.data = Refresh([@ EXCEPT !.map = {}], q, page.radio)]
                 IN Shows(Recalculated(p))
    BY <1>1 DEF Search
  <2> DEFINE p == [page EXCEPT !.cell = NoCell, !.query = q, !.data = Refresh([@ EXCEPT !.map = {}], q, page.radio)]
             r == Recalculated(p)
  <2>2. p.popup = page.popup /\ p.hung = page.hung /\ p.new = page.new /\ p.cell = NoCell
    BY DEF Fields
  <2> HIDE DEF p
  <2>3. r.popup = p.popup /\ r.hung = p.hung /\ r.new = p.new /\ r.cell = p.cell
    BY DEF Recalculated
  <2>4. page' = r
    BY <2>1 DEF Shows, Becomes, p
  <2> HIDE DEF r
  <2> QED BY <2>2, <2>3, <2>4 DEF Alike
<1>2. CASE RadioButton
  <2>1. PICK radio : Shows([page EXCEPT !.cell = NoCell, !.radio = radio, !.data = Refresh(@, page.query, radio)])
    BY <1>2 DEF RadioButton
  <2> QED BY <2>1 DEF Shows, Becomes, Alike, Fields
<1> QED BY <1>1, <1>2

\* A page that is loaded has a blank popup.
LEMMA LoadedDiv ==
  ASSUME NEW s, NEW active, NEW n, n.popup = LoadedPage(s, active).popup, n.hung = LoadedPage(s, active).hung,
         n.cell = LoadedPage(s, active).cell, n.new = LoadedPage(s, active).new
  PROVE  DivisionInv(n)
<1> DEFINE rows == BlankRows
<1>1. n.popup = ClosedPopup /\ n.cell = NoCell /\ n.new = <<>> /\ n.hung = FALSE
  BY DEF LoadedPage
<1>2. n.popup.rows = rows /\ ~n.popup.open /\ n.cell.on = "none"
  BY <1>1 DEF ClosedPopup, NoCell
<1>3. 1 \in DOMAIN rows /\ \A i \in DOMAIN rows : rows[i] = BlankRow
  BY PopupAssumption DEF BlankRows
<1> HIDE DEF rows
<1>4. InOrder(rows) /\ Idle(rows)
  BY <1>3, BlankInOrder, BlankIsIdle DEF Blank
<1>5. DOMAIN n.new = {}
  BY <1>1
<1> QED BY <1>2, <1>4, <1>5 DEF DivisionInv

LEMMA ReloadDiv == ASSUME NEW s, Reload(s) PROVE DivisionInv(page')
<1> DEFINE l == LoadedPage(s, page.data.active)
           n == page'
           failed == InFlight({"save"}) # {}
<1>1. n = [l EXCEPT !.been.failed = failed, !.been.single = page.been.single]
  BY DEF Reload
<1>2. DOMAIN l = {"data", "query", "radio", "cell", "brand", "kept", "popup", "guard", "toSingle", "new", "overlay",
                  "saving", "window", "narrow", "button", "rejected", "hung", "edits", "been"}
  BY DEF LoadedPage
<1> HIDE DEF l, failed
<1>3. n.popup = l.popup /\ n.hung = l.hung /\ n.cell = l.cell /\ n.new = l.new
  BY <1>1, <1>2
<1> HIDE DEF n
<1>4. DivisionInv(n)
  BY <1>3, LoadedDiv DEF l
<1> QED BY <1>4 DEF n

LEMMA InitDiv == Init => DivisionInv(page)
<1> SUFFICES ASSUME Init PROVE DivisionInv(page)
  OBVIOUS
<1> DEFINE active == IF "active" \in doing THEN Tops ELSE {}
<1>1. page = LoadedPage(stored, active)
  BY DEF Init
<1> QED BY <1>1, LoadedDiv

LEMMA AnswersDiv ==
  ASSUME Fields(page), DivisionInv(page), (\E kind \in Kinds : AnswerTo(kind)) \/ LeavePage
  PROVE  DivisionInv(page')
<1>1. CASE LeavePage
  BY <1>1, ReloadDiv DEF LeavePage
<1>2. CASE \E kind \in Kinds : AnswerTo(kind)
  <2>1. PICK k : SaveAnswered(k) \/ SaveFails(k) \/ PostAnswered(k) \/ StoreFails(k) \/ PostRefused(k)
    BY <1>2 DEF AnswerTo
  <2>2. CASE Reload(stored') \/ Reload(stored)
    BY <2>2, ReloadDiv
  <2>3. CASE page' = [page EXCEPT !.saving = FALSE]
    BY <2>3, AlikeStep DEF Alike, Fields
  <2>4. CASE SaveFails(k)
    <3> DEFINE r == Redraw(page)
               modal == posts[k].modal
    <3>1. page' = [r EXCEPT !.saving = FALSE, !.been.failed = TRUE, !.been.poFailed = @ \/ modal]
      BY <2>4 DEF SaveFails
    <3>2. Alike(page, r) /\ Fields(r)
      BY RedrawAlike
    <3> HIDE DEF r, modal
    <3>3. Alike(page, page')
      BY <3>1, <3>2 DEF Alike
    <3> QED BY <3>3, AlikeStep
  <2>5. CASE StoreFails(k) \/ PostRefused(k)
    BY <2>5, AlikeStep DEF StoreFails, PostRefused, Answered, Alike, Fields
  <2> QED BY <2>1, <2>2, <2>3, <2>4, <2>5 DEF SaveAnswered, PostAnswered
<1> QED BY <1>1, <1>2

-----------------------------------------------------------------------------
(* the cells of the grid *)

LEMMA OpenCellDiv == ASSUME PageInv, DivisionInv(page), OpenCell PROVE DivisionInv(page')
<1>1. PICK c \in Cells : Shows([page EXCEPT !.cell = c])
  BY DEF OpenCell
<1>2. Fields(page)
  BY PageFields
<1> DEFINE n == page'
<1>3. n.popup = page.popup /\ n.hung = page.hung /\ n.new = page.new /\ n.cell = c
  BY <1>1, <1>2 DEF Shows, Becomes, Fields
<1>4. CellFine(page, n)
  BY <1>3 DEF Cells, CellFine
<1> HIDE DEF n
<1>5. \A k \in DOMAIN n.new : InOrder(n.new[k].rows)
  BY <1>3 DEF DivisionInv
<1>6. DivisionInv(n)
  BY <1>3, <1>4, <1>5, DivSame
<1> QED BY <1>6 DEF n

\* The rows of a project that gets its first sub-projects.
LEMMA SingleRowsDiv ==
  ASSUME PageInv, DivisionInv(page), ~page.hung, NEW p \in Tops, page.data.val[Row(p, "F")][TotalCol] \in Nat
  PROVE  InOrder(SingleRows(p)) /\ (page.popup.open \/ Shared(SingleRows(p)))
<1> DEFINE s == page.popup.rows
           brand == page.brand[p]
           total == page.data.val[Row(p, "F")][TotalCol]
<1>1. Sequence(s) /\ InOrder(s) /\ Fields(page)
  BY RowsDiv
<1>2. total \in Nat
  OBVIOUS
<1>3. SingleRows(p) = Single(s, brand, total)
  BY DEF SingleRows
<1>4. page.popup.open \/ Idle(s)
  BY DEF DivisionInv
<1>5. total \in Int /\ total >= Unset
  BY <1>2 DEF Unset
<1> HIDE DEF s, brand, total
<1>6. InOrder(Single(s, brand, total))
  BY <1>1, <1>5, SingleInOrder
<1>7. Idle(s) => Shared(Single(s, brand, total))
  BY <1>1, <1>2, SingleShared
<1> QED BY <1>3, <1>4, <1>6, <1>7

\* The rows of sub-projects that exist.
LEMMA KidRowsDiv ==
  ASSUME WholeShares, KidTotals, PageInv, DivisionInv(page), ~page.hung, NEW p \in Tops
  PROVE  LET rows == Existing(page.popup.rows, KidRows(p)) IN InOrder(rows) /\ (page.popup.open \/ Shared(rows))
<1> DEFINE s == page.popup.rows
           t == KidRows(p)
           rows == Existing(s, t)
<1>1. Sequence(s) /\ InOrder(s) /\ Fields(page)
  BY RowsDiv
<1>2. page.popup.open \/ Idle(s)
  BY DEF DivisionInv
<1>3. /\ Sequence(t)
      /\ \A i \in DOMAIN t : RowOK(t[i]) /\ t[i].num = i /\ t[i].owner /\ t[i].total \in Nat /\ t[i].share \in Int
      /\ Len(t) = 0 \/ SumFunctionOnSet([i \in DOMAIN t |-> t[i].share], DOMAIN t) = 10000
  BY KidRowsAre
<1> SUFFICES InOrder(rows) /\ (page.popup.open \/ Shared(rows))
  OBVIOUS
<1> HIDE DEF s, t
<1>4. InOrder(rows)
  BY <1>1, <1>3, ExistingInOrder
<1>5. Idle(s) => Shared(rows)
  BY <1>1, <1>3, ExistingShared
<1> QED BY <1>2, <1>4, <1>5

LEMMA CommitBrandDiv ==
  ASSUME PageInv, AmountsInv, DivisionInv(page), CommitBrand, ~NegativeYear'
  PROVE  DivisionInv(page')
<1> DEFINE p == page.cell.id
           rows == SingleRows(p)
           c == [on |-> "project", id |-> p]
<1>1. Fields(page) /\ ~page.hung /\ page.cell.on = "brand" /\ p \in Tops
  BY RowsDiv DEF CommitBrand, DivisionInv
<1>2. \/ Rejected
      \/ \E b \in Brands \ {page.brand[p]} :
           Becomes([Recalculated([Redraw(page) EXCEPT !.brand[p] = b, !.kept[p] = b]) EXCEPT !.saving = TRUE])
      \/ Shows(Recalculated([Redraw(page) EXCEPT !.brand[p] = Smart]))
      \/ ~page.data.multi[p] /\ Shows(Recalculated(PopupFor([Redraw(page) EXCEPT !.brand[p] = Smart], c, rows)))
  BY DEF CommitBrand
<1> HIDE DEF rows
<1>4. CASE Rejected
  BY <1>1, <1>4, GridAlike, AlikeStep
<1>5. Alike(page, Redraw(page)) /\ Fields(Redraw(page))
  BY <1>1, RedrawAlike
<1>6. ASSUME NEW b, Becomes([Recalculated([Redraw(page) EXCEPT !.brand[p] = b, !.kept[p] = b]) EXCEPT !.saving = TRUE])
      PROVE  DivisionInv(page')
  <2> DEFINE r == Redraw(page)
             q == [r EXCEPT !.brand[p] = b, !.kept[p] = b]
             u == Recalculated(q)
  <2>1. Alike(page, r) /\ Fields(r)
    BY <1>5
  <2> HIDE DEF r, p
  <2>2. Alike(page, q) /\ Fields(q)
    BY <2>1 DEF Alike, Fields
  <2>3. page' = [u EXCEPT !.saving = TRUE]
    BY <1>6 DEF Becomes, r, p
  <2> HIDE DEF q
  <2>4. Alike(page, u) /\ Fields(u)
    BY <2>2, RecalculatedAlike, AlikeAgain
  <2> HIDE DEF u
  <2>5. Alike(page, page')
    BY <2>3, <2>4 DEF Alike, Fields
  <2> QED BY <2>5, AlikeStep
<1> DEFINE r == Redraw(page)
           q == [r EXCEPT !.brand[p] = Smart]
<1>7. Alike(page, q) /\ Fields(q) /\ q.data = page.data
  <2>1. r.data = page.data
    BY <1>1 DEF Redraw, Fields
  <2> HIDE DEF r, p
  <2> QED BY <1>5, <2>1 DEF Alike, Fields, r
<1>8. CASE Shows(Recalculated(q))
  <2>1. page' = Recalculated(q)
    BY <1>8 DEF Shows, Becomes
  <2> HIDE DEF q
  <2>2. Alike(page, Recalculated(q))
    BY <1>7, RecalculatedAlike, AlikeAgain
  <2> QED BY <2>1, <2>2, AlikeStep
<1>9. CASE ~page.data.multi[p] /\ Shows(Recalculated(PopupFor(q, c, rows)))
  <2> DEFINE o == PopupFor(q, c, rows)
  <2>1. page' = Recalculated(o)
    BY <1>9 DEF Shows, Becomes
  <2>2. c = [on |-> "project", id |-> p]
    OBVIOUS
  <2> HIDE DEF q, c
  <2>3. Fields(o) /\ o.popup.open /\ o.popup.for = c /\ o.data = q.data
    BY <1>7, PopupForOpens
  <2>4. DivisionInv(q) /\ q.popup.open = page.popup.open
    BY <1>7, AlikeKeeps DEF Alike
  <2> HIDE DEF o
  <2>5. /\ page'.popup = o.popup /\ page'.data.val = page.data.val /\ page'.data.multi = page.data.multi
    BY <1>7, <2>1, <2>3, RecalculatedAlike, RecalculatedData DEF Alike
  <2>6. page.data.val[Row(p, "F")][TotalCol] \in Nat
    BY <1>1, <1>9, <2>2, <2>3, <2>5, YearOpened
  <2>7. InOrder(rows) /\ (page.popup.open \/ Shared(rows))
    BY <1>1, <2>6, SingleRowsDiv DEF rows
  <2>8. DivisionInv(o)
    BY <1>7, <2>4, <2>7, PopupForDiv DEF o
  <2>9. DivisionInv(Recalculated(o))
    BY <2>3, <2>8, RecalculatedAlike, AlikeKeeps
  <2> QED BY <2>1, <2>9
<1> QED BY <1>2, <1>4, <1>6, <1>8, <1>9

LEMMA ClickBrandDiv ==
  ASSUME WholeShares, KidTotals, PageInv, AmountsInv, DivisionInv(page), ClickBrand, ~NegativeYear'
  PROVE  DivisionInv(page')
<1>1. Fields(page) /\ ~page.hung
  BY RowsDiv DEF ClickBrand, Clickable
<1>2. PICK p \in Tops :
        \/ LET rows == IF page.data.multi[p] THEN Existing(page.popup.rows, KidRows(p)) ELSE SingleRows(p)
           IN  Shows([PopupFor(page, [on |-> "project", id |-> p], rows) EXCEPT !.guard = TRUE])
        \/ Shows([page EXCEPT !.toSingle = TRUE, !.data.multi[p] = FALSE, !.been.single = TRUE,
                              !.cell = IF page.saving THEN @ ELSE [on |-> "brand", id |-> p]])
  BY DEF ClickBrand
<1> DEFINE rows == IF page.data.multi[p] THEN Existing(page.popup.rows, KidRows(p)) ELSE SingleRows(p)
           c == [on |-> "project", id |-> p]
<1>35. c = [on |-> "project", id |-> p]
  OBVIOUS
<1> HIDE DEF rows, c
<1>4. CASE Shows([PopupFor(page, c, rows) EXCEPT !.guard = TRUE])
  <2> DEFINE o == PopupFor(page, c, rows)
  <2>02. page' = [o EXCEPT !.guard = TRUE]
    BY <1>4 DEF Shows, Becomes
  <2>03. Fields(o) /\ o.popup.open /\ o.popup.for = c /\ o.data = page.data
    BY <1>1, PopupForOpens
  <2>04. ASSUME page.data.multi[p] PROVE InOrder(rows) /\ (page.popup.open \/ Shared(rows))
    <3>1. rows = Existing(page.popup.rows, KidRows(p))
      BY <2>04 DEF rows
    <3> QED BY <1>1, <3>1, KidRowsDiv
  <2>05. ASSUME ~page.data.multi[p] PROVE InOrder(rows) /\ (page.popup.open \/ Shared(rows))
    <3>1. rows = SingleRows(p)
      BY <2>05 DEF rows
    <3> HIDE DEF o
    <3>2. page'.popup = o.popup /\ page'.data = page.data
      BY <2>02, <2>03 DEF Fields
    <3>3. page.data.val[Row(p, "F")][TotalCol] \in Nat
      BY <1>35, <2>03, <2>05, <3>2, YearOpened
    <3> QED BY <1>1, <3>1, <3>3, SingleRowsDiv
  <2>1. DivisionInv(o) /\ Fields(o)
    BY <1>1, <2>04, <2>05, PopupForDiv
  <2>2. page' = [o EXCEPT !.guard = TRUE]
    BY <2>02
  <2> HIDE DEF o
  <2>3. Alike(o, page')
    BY <2>1, <2>2 DEF Alike, Fields
  <2> DEFINE n == page'
  <2> HIDE DEF n
  <2>4. DivisionInv(n)
    BY <2>1, <2>3, AlikeKeeps DEF n
  <2> QED BY <2>4 DEF n
<1>5. CASE Shows([page EXCEPT !.toSingle = TRUE, !.data.multi[p] = FALSE, !.been.single = TRUE,
                              !.cell = IF page.saving THEN @ ELSE [on |-> "brand", id |-> p]])
  <2> DEFINE n == page'
  <2>1. n.popup = page.popup /\ n.hung = page.hung /\ n.new = page.new
        /\ (n.cell = page.cell \/ n.cell = [on |-> "brand", id |-> p])
    BY <1>1, <1>5 DEF Shows, Becomes, Fields
  <2>2. CellFine(page, n)
    BY <2>1 DEF CellFine
  <2> HIDE DEF n
  <2>3. \A k \in DOMAIN n.new : InOrder(n.new[k].rows)
    BY <2>1 DEF DivisionInv
  <2>4. DivisionInv(n)
    BY <2>1, <2>2, <2>3, DivSame
  <2> QED BY <2>4 DEF n
<1> QED BY <1>2, <1>4, <1>5 DEF rows, c

-----------------------------------------------------------------------------
(* the popup is closed *)

LEMMA HiddenDiv ==
  ASSUME PageInv, DivisionInv(page), NEW n, ~n.popup.open, n.popup.rows = [i \in DOMAIN page.popup.rows |-> BlankRow],
         n.cell = page.cell \/ n.cell = NoCell, \A k \in DOMAIN n.new : InOrder(n.new[k].rows)
  PROVE  DivisionInv(n)
<1> DEFINE t == [i \in DOMAIN page.popup.rows |-> BlankRow]
<1>1. 1 \in DOMAIN t /\ \A i \in DOMAIN t : t[i] = BlankRow
  BY DEF DivisionInv, InOrder
<1>2. n.popup.rows = t
  OBVIOUS
<1> HIDE DEF t
<1>3. InOrder(t) /\ Idle(t) /\ Blank(t)
  BY <1>1, BlankInOrder, BlankIsIdle DEF Blank
<1>4. n.cell.on = "brand" => n.cell.id \in Tops
  BY DEF DivisionInv, NoCell
<1> QED BY <1>2, <1>3, <1>4 DEF DivisionInv

LEMMA HiddenParts ==
  ASSUME Fields(page)
  PROVE  LET h == Hidden(page)
         IN  /\ ~h.popup.open /\ h.popup.rows = [i \in DOMAIN page.popup.rows |-> BlankRow]
             /\ h.cell = page.cell \/ h.cell = NoCell
             /\ h.new = page.new /\ h.hung = page.hung /\ Fields(h)
BY DEF Hidden, Redraw, Fields, ClosedPopup

\* Save & Close changes no more of the rows than their owners.
LEMMA OwnedIs ==
  ASSUME NEW s, Sequence(s), InOrder(s)
  PROVE  LET t == Owned(s)
         IN  /\ Sequence(t) /\ InOrder(t) /\ DOMAIN t = DOMAIN s /\ (Shared(s) => Shared(t))
             /\ \A i \in DOMAIN s : /\ t[i].total = s[i].total /\ t[i].share = s[i].share /\ t[i].brand = s[i].brand
                                    /\ t[i].num = s[i].num /\ t[i].named = s[i].named
<1> DEFINE t == Owned(s)
<1>1. 0 \in Int
  OBVIOUS
<1>2. InOrder(t)
  BY <1>1, EditedInOrder
<1>3. Sequence(t)
  BY RowsEdited
<1>4. DOMAIN t = DOMAIN s /\ \A i \in DOMAIN s : t[i] = s[i] \/ t[i] = [s[i] EXCEPT !.owner = TRUE]
  BY DEF Owned
<1> HIDE DEF t
<1>5. \A i \in DOMAIN s : DOMAIN s[i] = RowFields
  BY DEF InOrder, RowOK
<1>6. \A i \in DOMAIN s : /\ t[i].total = s[i].total /\ t[i].share = s[i].share /\ t[i].brand = s[i].brand
                          /\ t[i].num = s[i].num /\ t[i].named = s[i].named
  BY <1>4, <1>5 DEF RowFields
<1>7. Shared(s) => Shared(t)
  <2>1. \A i \in DOMAIN s : t[i].total = s[i].total /\ t[i].share = s[i].share /\ (s[i].brand # "" => t[i].brand # "")
    BY <1>6
  <2> QED BY <1>4, <2>1, SharedKept
<1> QED BY <1>2, <1>3, <1>4, <1>6, <1>7 DEF t

LEMMA SaveAndCloseDiv == ASSUME PageInv, DivisionInv(page), SaveAndClose PROVE DivisionInv(page')
<1> DEFINE s == page.popup.rows
           rows == Owned(s)
           for == page.popup.for
           h == Hidden(page)
           total == PlannedTotal(rows)
<1>1. Sequence(s) /\ InOrder(s) /\ Fields(page) /\ ~page.hung /\ page.popup.open /\ ListsInv(page)
  <2>1. ListsInv(page)
    BY DEF PageInv, PageInvOf, PopupInv
  <2> QED BY <2>1, RowsDiv DEF SaveAndClose, InPopup
<1>2. InOrder(rows) /\ (Shared(s) => Shared(rows))
  <2> HIDE DEF s
  <2> QED BY <1>1, OwnedIs
<1>3. /\ ~h.popup.open /\ h.popup.rows = [i \in DOMAIN page.popup.rows |-> BlankRow]
      /\ h.cell = page.cell \/ h.cell = NoCell
      /\ h.new = page.new /\ h.hung = page.hung /\ Fields(h)
  BY <1>1, HiddenParts
<1> DEFINE n == page'
<1>4. \/ n = WithRows(rows)
      \/ n = [h EXCEPT !.new[for.id].multi = TRUE, !.new[for.id].rows = rows]
      \/ n = [h EXCEPT !.data = ClearMonths(@, for.id, total), !.overlay = page.guard, !.been.cleared = TRUE,
                       !.been.loose = @ \/ ~page.guard]
  BY DEF SaveAndClose, Shows, Becomes
<1> HIDE DEF rows, h, total, for
<1>5. CASE n = WithRows(rows)
  <2>1. /\ n.popup.rows = rows /\ n.popup.open = page.popup.open /\ n.popup.for = page.popup.for
        /\ n.popup.clean = page.popup.clean /\ n.cell = page.cell /\ n.hung = page.hung /\ n.new = page.new
    BY <1>1, <1>5 DEF WithRows, Fields
  <2> HIDE DEF n
  <2>2. DivisionInv(n)
    BY <1>1, <1>2, <2>1, EditedDiv
  <2> QED BY <2>2 DEF n
<1>6. CASE n = [h EXCEPT !.new[for.id].multi = TRUE, !.new[for.id].rows = rows]
  <2> DEFINE x == for.id
  <2> HIDE DEF n, x
  <2>1. /\ n.popup = h.popup /\ n.cell = h.cell
        /\ n.new = [page.new EXCEPT ![x].multi = TRUE, ![x].rows = rows]
    BY <1>3, <1>6 DEF Fields, x
  <2>2. \A k \in DOMAIN page.new : {"multi", "rows"} \subseteq DOMAIN page.new[k] /\ InOrder(page.new[k].rows)
    BY <1>1 DEF ListsInv, NewRecord, DivisionInv
  <2>3. \A k \in DOMAIN n.new : k \in DOMAIN page.new /\ (n.new[k].rows = rows \/ n.new[k].rows = page.new[k].rows)
    BY <2>1, <2>2
  <2>4. \A k \in DOMAIN n.new : InOrder(n.new[k].rows)
    BY <1>2, <2>2, <2>3
  <2>5. DivisionInv(n)
    BY <1>3, <2>1, <2>4, HiddenDiv
  <2> QED BY <2>5 DEF n
<1>7. CASE n = [h EXCEPT !.data = ClearMonths(@, for.id, total), !.overlay = page.guard, !.been.cleared = TRUE,
                       !.been.loose = @ \/ ~page.guard]
  <2> HIDE DEF n
  <2>1. n.popup = h.popup /\ n.cell = h.cell /\ n.new = page.new
    BY <1>3, <1>7 DEF Fields
  <2>2. \A k \in DOMAIN n.new : InOrder(n.new[k].rows)
    BY <2>1 DEF DivisionInv
  <2>3. DivisionInv(n)
    BY <1>3, <2>1, <2>2, HiddenDiv
  <2> QED BY <2>3 DEF n
<1> QED BY <1>4, <1>5, <1>6, <1>7

LEMMA CloseWithoutSaveDiv == ASSUME PageInv, DivisionInv(page), CloseWithoutSave PROVE DivisionInv(page')
<1> DEFINE x == page.popup.for.id
           h == Hidden(page)
           n == page'
<1>1. Fields(page) /\ ListsInv(page)
  BY PageFields DEF PageInv, PageInvOf, PopupInv
<1>2. /\ ~h.popup.open /\ h.popup.rows = [i \in DOMAIN page.popup.rows |-> BlankRow]
      /\ h.cell = page.cell \/ h.cell = NoCell
      /\ h.new = page.new /\ h.hung = page.hung /\ Fields(h)
  BY <1>1, HiddenParts
<1>3. n = [h EXCEPT !.new[x].brand = ""] \/ n = h \/ n = [h EXCEPT !.brand[x] = page.kept[x]]
  BY DEF CloseWithoutSave, Shows, Becomes
<1> HIDE DEF n, h, x
<1>4. n.popup = h.popup /\ n.cell = h.cell /\ (n.new = page.new \/ n.new = [page.new EXCEPT ![x].brand = ""])
  <2>1. CASE n = [h EXCEPT !.new[x].brand = ""]
    BY <1>2, <2>1 DEF Fields
  <2>2. CASE n = h
    BY <1>2, <2>2
  <2>3. CASE n = [h EXCEPT !.brand[x] = page.kept[x]]
    BY <1>2, <2>3 DEF Fields
  <2> QED BY <1>3, <2>1, <2>2, <2>3
<1>5. \A k \in DOMAIN page.new : {"brand", "rows"} \subseteq DOMAIN page.new[k] /\ InOrder(page.new[k].rows)
  BY <1>1 DEF ListsInv, NewRecord, DivisionInv
<1>6. \A k \in DOMAIN n.new : k \in DOMAIN page.new /\ n.new[k].rows = page.new[k].rows
  <2>1. CASE n.new = page.new
    BY <2>1
  <2>2. CASE n.new = [page.new EXCEPT ![x].brand = ""]
    BY <1>5, <2>2
  <2> QED BY <1>4, <2>1, <2>2
<1>7. \A k \in DOMAIN n.new : InOrder(n.new[k].rows)
  BY <1>5, <1>6
<1>8. DivisionInv(n)
  BY <1>2, <1>4, <1>7, HiddenDiv
<1> QED BY <1>8 DEF n

-----------------------------------------------------------------------------
(* projects that are being created *)

LEMMA CreateProjectDiv == ASSUME PageInv, DivisionInv(page), CreateProject PROVE DivisionInv(page')
<1> DEFINE n == page'
<1>1. Fields(page) /\ ListsInv(page)
  BY PageFields DEF PageInv, PageInvOf, PopupInv
<1>2. n = [page EXCEPT !.new = Append(@, NewProject), !.query = NoQuery, !.data = Refresh(@, NoQuery, page.radio)]
  BY DEF CreateProject, Shows, Becomes
<1> HIDE DEF n
<1>3. n.popup = page.popup /\ n.hung = page.hung /\ n.cell = page.cell /\ n.new = Append(page.new, NewProject)
  BY <1>1, <1>2 DEF Fields
<1>4. InOrder(NewProject.rows)
  <2> DEFINE rows == BlankRows
  <2>1. 1 \in DOMAIN rows /\ \A i \in DOMAIN rows : rows[i] = BlankRow
    BY PopupAssumption DEF BlankRows
  <2>2. NewProject.rows = rows
    BY DEF NewProject
  <2> HIDE DEF rows
  <2> QED BY <2>1, <2>2, BlankInOrder
<1>5. \A k \in DOMAIN n.new : InOrder(n.new[k].rows)
  <2> DEFINE s == page.new
             x == NewProject
             t == Append(s, x)
  <2>1. Sequence(s) /\ Len(s) \in Nat /\ DOMAIN s = 1..Len(s)
    BY <1>1, RowsFinite DEF ListsInv
  <2>2. \A k \in DOMAIN s : InOrder(s[k].rows)
    BY DEF DivisionInv
  <2> HIDE DEF s, x
  <2>3. DOMAIN t = 1..(Len(s) + 1) /\ t[Len(s) + 1] = x /\ \A k \in 1..Len(s) : t[k] = s[k]
    BY <2>1, AppendIs
  <2> HIDE DEF t
  <2>4. \A k \in DOMAIN t : InOrder(t[k].rows)
    <3> SUFFICES ASSUME NEW k \in DOMAIN t PROVE InOrder(t[k].rows)
      OBVIOUS
    <3>1. CASE k = Len(s) + 1
      BY <1>4, <2>3, <3>1 DEF x
    <3>2. CASE k \in 1..Len(s)
      BY <2>1, <2>2, <2>3, <3>2
    <3> QED BY <2>1, <2>3, <3>1, <3>2
  <2> QED BY <1>3, <2>4 DEF t, s, x
<1>6. CellFine(page, n)
  BY <1>3 DEF CellFine
<1>7. DivisionInv(n)
  BY <1>3, <1>5, <1>6, DivSame
<1> QED BY <1>7 DEF n

\* The fields of a new project change, its rows do not.
LEMMA NewSetDiv ==
  ASSUME PageInv, DivisionInv(page), NEW n, Fields(n), NEW k, NEW m, n.popup = page.popup, n.hung = page.hung,
         n.new = [page.new EXCEPT ![k] = m], n.cell = page.cell \/ n.cell = NoCell,
         k \in DOMAIN page.new => m.rows = page.new[k].rows
  PROVE  DivisionInv(n)
<1>1. CellFine(page, n)
  BY DEF CellFine, NoCell
<1>2. \A j \in DOMAIN n.new : InOrder(n.new[j].rows)
  BY DEF DivisionInv
<1> QED BY <1>1, <1>2, DivSame

LEMMA RedrawnNewDiv ==
  ASSUME PageInv, DivisionInv(page), NEW k \in DOMAIN page.new, NEW m, m.rows = page.new[k].rows
  PROVE  LET n == [Redraw(page) EXCEPT !.new[k] = m]
         IN  DivisionInv(n) /\ Fields(n) /\ n.popup = page.popup /\ n.new = [page.new EXCEPT ![k] = m]
<1> DEFINE r == Redraw(page)
           n == [r EXCEPT !.new[k] = m]
<1>1. Alike(page, r) /\ Fields(r)
  BY PageFields, RedrawAlike
<1> HIDE DEF r
<1>2. /\ n.popup = page.popup /\ n.hung = page.hung /\ (n.cell = page.cell \/ n.cell = NoCell)
      /\ n.new = [page.new EXCEPT ![k] = m] /\ Fields(n)
  BY <1>1 DEF Alike, Fields
<1> HIDE DEF n
<1>3. DivisionInv(n)
  BY <1>2, NewSetDiv
<1> QED BY <1>2, <1>3 DEF n, r

LEMMA NewPopupDiv ==
  ASSUME PageInv, DivisionInv(page), NEW k \in DOMAIN page.new
  PROVE  DivisionInv(NewPopup(k))
<1> DEFINE n == page.new[k]
           m == [n EXCEPT !.brand = Smart]
           q == [Redraw(page) EXCEPT !.new[k] = m]
           s == page.popup.rows
           rows == IF n.multi THEN n.rows ELSE [s EXCEPT ![1] = First(@)]
           c == [on |-> "new", id |-> k]
           o == PopupFor(q, c, rows)
<1>1. Sequence(s) /\ InOrder(s) /\ Fields(page) /\ ListsInv(page) /\ InOrder(n.rows)
  <2>1. ListsInv(page) /\ InOrder(n.rows)
    BY DEF PageInv, PageInvOf, PopupInv, DivisionInv
  <2> QED BY <2>1, RowsDiv
<1>2. NewPopup(k) = o
  BY <1>1, SetNewBrand DEF NewPopup
<1>3. m.rows = n.rows
  BY <1>1 DEF ListsInv, NewRecord
<1>4. InOrder(rows)
  <2>1. 0 \in Int /\ 0 >= Unset
    BY DEF Unset
  <2>2. InOrder([s EXCEPT ![1] = First(@)])
    <3> HIDE DEF s
    <3> QED BY <1>1, <2>1, SingleInOrder
  <2> QED BY <1>1, <2>2
<1>5. DivisionInv(q) /\ Fields(q)
  <2> HIDE DEF m
  <2> QED BY <1>3, RedrawnNewDiv
<1>6. c.on = "new"
  OBVIOUS
<1> HIDE DEF q, rows, c
<1>7. DivisionInv(o)
  BY <1>4, <1>5, <1>6, PopupForDiv
<1> QED BY <1>2, <1>7

LEMMA EditNewDiv == ASSUME PageInv, DivisionInv(page), EditNew PROVE DivisionInv(page')
<1>1. Fields(page) /\ ListsInv(page)
  BY PageFields DEF PageInv, PageInvOf, PopupInv
<1>2. PICK k \in DOMAIN page.new :
        LET n == page.new[k]
            Set(m) == Shows([Redraw(page) EXCEPT !.new[k] = m])
        IN  \/ \E named \in BOOLEAN : Set([n EXCEPT !.named = named])
            \/ \E po \in {0, 1} : Set([n EXCEPT !.po = po])
            \/ \E b \in Brands \cup {Smart} : Set([n EXCEPT !.brand = b])
            \/ Rejected
            \/ IF n.named THEN Shows(NewPopup(k)) ELSE Set([n EXCEPT !.brand = ""])
  BY DEF EditNew
<1> DEFINE n == page.new[k]
<1>3. DOMAIN n = {"named", "po", "brand", "multi", "rows"}
  BY <1>1 DEF ListsInv, NewRecord
<1>4. ASSUME NEW m, m.rows = n.rows, Shows([Redraw(page) EXCEPT !.new[k] = m]) PROVE DivisionInv(page')
  <2>1. page' = [Redraw(page) EXCEPT !.new[k] = m]
    BY <1>4 DEF Shows, Becomes
  <2>2. DivisionInv([Redraw(page) EXCEPT !.new[k] = m])
    BY <1>4, RedrawnNewDiv
  <2> QED BY <2>1, <2>2
<1> HIDE DEF n
<1>5. \A x : [n EXCEPT !.named = x].rows = n.rows /\ [n EXCEPT !.po = x].rows = n.rows /\ [n EXCEPT !.brand = x].rows = n.rows
  BY <1>3
<1>6. CASE \E named \in BOOLEAN : Shows([Redraw(page) EXCEPT !.new[k] = [n EXCEPT !.named = named]])
  <2>1. PICK x : Shows([Redraw(page) EXCEPT !.new[k] = [n EXCEPT !.named = x]])
    BY <1>6
  <2> DEFINE m == [n EXCEPT !.named = x]
  <2>2. m.rows = n.rows /\ Shows([Redraw(page) EXCEPT !.new[k] = m])
    BY <1>5, <2>1
  <2> HIDE DEF m
  <2> QED BY <1>4, <2>2
<1>7. CASE \E po \in {0, 1} : Shows([Redraw(page) EXCEPT !.new[k] = [n EXCEPT !.po = po]])
  <2>1. PICK x : Shows([Redraw(page) EXCEPT !.new[k] = [n EXCEPT !.po = x]])
    BY <1>7
  <2> DEFINE m == [n EXCEPT !.po = x]
  <2>2. m.rows = n.rows /\ Shows([Redraw(page) EXCEPT !.new[k] = m])
    BY <1>5, <2>1
  <2> HIDE DEF m
  <2> QED BY <1>4, <2>2
<1>8. CASE \E b \in Brands \cup {Smart} : Shows([Redraw(page) EXCEPT !.new[k] = [n EXCEPT !.brand = b]])
  <2>1. PICK x : Shows([Redraw(page) EXCEPT !.new[k] = [n EXCEPT !.brand = x]])
    BY <1>8
  <2> DEFINE m == [n EXCEPT !.brand = x]
  <2>2. m.rows = n.rows /\ Shows([Redraw(page) EXCEPT !.new[k] = m])
    BY <1>5, <2>1
  <2> HIDE DEF m
  <2> QED BY <1>4, <2>2
<1>9. CASE Rejected
  BY <1>1, <1>9, GridAlike, AlikeStep
<1>10. CASE Shows(NewPopup(k))
  BY <1>10, NewPopupDiv DEF Shows, Becomes
<1>11. CASE Shows([Redraw(page) EXCEPT !.new[k] = [n EXCEPT !.brand = ""]])
  <2> DEFINE m == [n EXCEPT !.brand = ""]
  <2>1. m.rows = n.rows /\ Shows([Redraw(page) EXCEPT !.new[k] = m])
    BY <1>5, <1>11
  <2> HIDE DEF m
  <2> QED BY <1>4, <2>1
<1> QED BY <1>2, <1>6, <1>7, <1>8, <1>9, <1>10, <1>11 DEF n

LEMMA ClickNewBrandDiv == ASSUME PageInv, DivisionInv(page), ClickNewBrand PROVE DivisionInv(page')
<1>1. Fields(page) /\ ListsInv(page)
  BY PageFields DEF PageInv, PageInvOf, PopupInv
<1>2. PICK k \in DOMAIN page.new :
        \/ Shows(IF page.new[k].named THEN NewPopup(k) ELSE [Redraw(page) EXCEPT !.new[k].brand = ""])
        \/ Shows([page EXCEPT !.new[k].multi = FALSE, !.toSingle = TRUE])
  BY DEF ClickNewBrand
<1> DEFINE n == page.new[k]
<1>3. DOMAIN n = {"named", "po", "brand", "multi", "rows"}
  BY <1>1 DEF ListsInv, NewRecord
<1>4. CASE Shows(NewPopup(k))
  BY <1>4, NewPopupDiv DEF Shows, Becomes
<1>5. CASE Shows([Redraw(page) EXCEPT !.new[k].brand = ""])
  <2> DEFINE m == [n EXCEPT !.brand = ""]
  <2>1. m.rows = n.rows
    BY <1>3
  <2>2. page' = [Redraw(page) EXCEPT !.new[k] = m]
    BY <1>1, <1>5, SetNewBrand DEF Shows, Becomes
  <2> HIDE DEF m
  <2>3. DivisionInv([Redraw(page) EXCEPT !.new[k] = m])
    BY <2>1, RedrawnNewDiv
  <2> QED BY <2>2, <2>3
<1>6. CASE Shows([page EXCEPT !.new[k].multi = FALSE, !.toSingle = TRUE])
  <2> DEFINE m == [n EXCEPT !.multi = FALSE]
             o == page'
  <2>1. m.rows = n.rows
    BY <1>3
  <2>2. /\ o.popup = page.popup /\ o.hung = page.hung /\ o.cell = page.cell /\ o.new = [page.new EXCEPT ![k] = m]
        /\ Fields(o)
    BY <1>1, <1>6 DEF Shows, Becomes, Fields
  <2> HIDE DEF m, o
  <2>3. DivisionInv(o)
    BY <2>1, <2>2, NewSetDiv
  <2> QED BY <2>3 DEF o
<1> QED BY <1>2, <1>4, <1>5, <1>6

\* Every step keeps the division, one lemma for each handler.
LEMMA NextDiv ==
  ASSUME WholeShares, KidTotals, Totals \subseteq Int
  PROVE  PageInv /\ AmountsInv /\ DivisionInv(page) /\ [Next]_vars /\ ~NegativeYear' => DivisionInv(page')
<1> SUFFICES ASSUME PageInv, AmountsInv, DivisionInv(page), [Next]_vars, ~NegativeYear' PROVE DivisionInv(page')
  OBVIOUS
<1>1. Fields(page)
  BY PageFields
<1>2. CASE UNCHANGED vars
  BY <1>2 DEF vars
<1>3. CASE EscapeKey \/ CommitMonth \/ CommitPO
  BY <1>1, <1>3, GridAlike, AlikeStep
<1>4. CASE OpenCell \/ CommitBrand \/ ClickBrand
  BY <1>4, OpenCellDiv, CommitBrandDiv, ClickBrandDiv
<1>5. CASE OpenPopupCell \/ CommitPopupBrand \/ CommitPopupTotal \/ AddRow \/ DeleteRows
  BY <1>5, OpenPopupCellDiv, CommitPopupBrandDiv, CommitPopupTotalDiv, AddRowDiv, DeleteRowsDiv
<1>6. CASE SaveAndClose \/ CloseWithoutSave
  BY <1>6, SaveAndCloseDiv, CloseWithoutSaveDiv
<1>7. CASE CreateProject \/ EditNew \/ ClickNewBrand
  BY <1>7, CreateProjectDiv, EditNewDiv, ClickNewBrandDiv
<1>8. CASE SubmitProjects \/ PostProject \/ OpenWindow \/ CloseWindow \/ Narrow \/ Widen
  BY <1>1, <1>8, WindowsAlike, AlikeStep
<1>9. CASE Search \/ RadioButton
  BY <1>1, <1>9, SearchAlike, AlikeStep
<1>10. CASE (\E kind \in Kinds : AnswerTo(kind)) \/ LeavePage
  BY <1>1, <1>10, AnswersDiv
<1> QED BY <1>2, <1>3, <1>4, <1>5, <1>6, <1>7, <1>8, <1>9, <1>10 DEF Next

-----------------------------------------------------------------------------
(* what Save & Close posts *)

OtherPosts ==
  \/ posts' = posts \/ posts' = <<>>
  \/ \E post : posts' = Append(posts, post) /\ post.kind # "brands"
  \/ \E k \in DOMAIN posts : posts' = RemoveAt(posts, k)

\* Every other handler leaves no new post of sub-projects at the end.
LEMMA OthersSubmitNothing == ASSUME PageInv, OtherPosts PROVE ~SubmitsRows
<1>1. Sequence(posts) /\ Len(posts) \in Nat /\ DOMAIN posts = 1..Len(posts)
  BY RowsFinite DEF PageInv, PageInvOf, PostsInv
<1>2. CASE posts' = posts
  BY <1>1, <1>2 DEF SubmitsRows
<1>3. CASE posts' = <<>>
  <2>1. Len(posts') = 0
    BY <1>3
  <2> QED BY <1>1, <2>1 DEF SubmitsRows
<1>4. ASSUME NEW post, posts' = Append(posts, post), post.kind # "brands" PROVE ~SubmitsRows
  <2>1. Len(posts') = Len(posts) + 1 /\ posts'[Len(posts) + 1] = post
    BY <1>1, <1>4, AppendIs
  <2>2. Last(posts') = post
    BY <2>1 DEF Last
  <2> QED BY <1>4, <2>2 DEF SubmitsRows
<1>5. ASSUME NEW k \in DOMAIN posts, posts' = RemoveAt(posts, k) PROVE ~SubmitsRows
  <2> DEFINE t == RemoveAt(posts, k)
  <2>1. Sequence(t) /\ DOMAIN t = 1..(Len(posts) - 1)
    BY <1>1, RemoveAtIs
  <2> HIDE DEF t
  <2>2. Len(t) \in Nat /\ DOMAIN t = 1..Len(t)
    BY <2>1, RowsFinite
  <2>3. ~(Len(t) > Len(posts))
    BY <1>1, <2>1, <2>2
  <2> QED BY <1>5, <2>3 DEF SubmitsRows, t
<1> QED BY <1>2, <1>3, <1>4, <1>5 DEF OtherPosts

\* Only a Save & Close that is not refused posts sub-projects.
LEMMA SubmitsIs ==
  ASSUME PageInv, [Next]_vars, SubmitsRows
  PROVE  page.popup.open /\ ~page.hung /\ page.popup.for.on # "new" /\ ~SaveRefused(Owned(page.popup.rows))
<1>1. CASE SaveAndClose
  <2>1. \/ Shows(WithRows(Owned(page.popup.rows))) \/ \E p : Shows(p)
        \/ ~SaveRefused(Owned(page.popup.rows)) /\ ~IsNew
    BY <1>1 DEF SaveAndClose
  <2>2. (\E p : Shows(p)) => OtherPosts
    BY DEF Shows, OtherPosts
  <2>3. ~OtherPosts
    BY OthersSubmitNothing
  <2> QED BY <1>1, <2>1, <2>2, <2>3 DEF SaveAndClose, InPopup, IsNew
<1>2. CASE ~SaveAndClose
  <2>1. OtherPosts
    <3>0. \A kind, modal : Post(kind, modal).kind = kind
      BY PostWithout
    <3>1. CASE UNCHANGED vars
      BY <3>1 DEF vars, OtherPosts
    <3>2. CASE OpenCell \/ EscapeKey \/ ClickBrand \/ OpenPopupCell \/ CommitPopupBrand \/ CommitPopupTotal
      BY <3>2 DEF OpenCell, EscapeKey, ClickBrand, OpenPopupCell, CommitPopupBrand, CommitPopupTotal, Shows, OtherPosts
    <3>3. CASE AddRow \/ DeleteRows \/ CloseWithoutSave \/ CreateProject \/ ClickNewBrand
      BY <3>3 DEF AddRow, DeleteRows, CloseWithoutSave, CreateProject, ClickNewBrand, Shows, OtherPosts
    <3>4. CASE EditNew
      BY <3>4 DEF EditNew, Rejected, Shows, OtherPosts
    <3>5. CASE OpenWindow \/ CloseWindow \/ Narrow \/ Widen \/ Search \/ RadioButton
      <4>1. \E p : Shows(p)
        BY <3>5 DEF OpenWindow, CloseWindow, Narrow, Widen, Search, RadioButton
      <4> QED BY <4>1 DEF Shows, OtherPosts
    <3>6. CASE CommitMonth
      <4>1. PICK parts, m : posts' = posts \/ posts' = Append(posts, [Post("save", FALSE) EXCEPT !.month = m, !.parts = parts])
        BY <3>6 DEF CommitMonth, Rejected, Shows, Sends
      <4>2. [Post("save", FALSE) EXCEPT !.month = m, !.parts = parts].kind # "brands"
        BY DEF Post
      <4> QED BY <4>1, <4>2 DEF OtherPosts
    <3>7. CASE CommitPO \/ CommitBrand
      <4>1. PICK modal, reload : posts' = posts \/ posts' = Append(posts, [Post("save", modal) EXCEPT !.reload = reload])
        BY <3>7 DEF CommitPO, CommitBrand, Rejected, Shows, Sends
      <4>2. [Post("save", modal) EXCEPT !.reload = reload].kind # "brands"
        BY DEF Post
      <4> QED BY <4>1, <4>2 DEF OtherPosts
    <3>8. CASE SubmitProjects
      <4>1. posts' = posts \/ posts' = Append(posts, Post("store", TRUE))
        BY <3>8 DEF SubmitProjects, Shows, Sends
      <4>2. Post("store", TRUE).kind # "brands"
        BY DEF Post
      <4> QED BY <4>1, <4>2 DEF OtherPosts
    <3>9. CASE PostProject
      <4>1. PICK kind \in {"initiate", "disable"} : posts' = Append(posts, Post(kind, TRUE))
        BY <3>9 DEF PostProject, Sends
      <4>2. Post(kind, TRUE).kind # "brands"
        BY <3>0
      <4> QED BY <4>1, <4>2 DEF OtherPosts
    <3>10. CASE LeavePage
      BY <3>10 DEF LeavePage, Reload, OtherPosts
    <3>11. CASE \E kind \in Kinds : AnswerTo(kind)
      <4>1. PICK k \in DOMAIN posts : SaveAnswered(k) \/ SaveFails(k) \/ PostAnswered(k) \/ StoreFails(k) \/ PostRefused(k)
        BY <3>11 DEF AnswerTo, InFlight
      <4>2. posts' = <<>> \/ posts' = RemoveAt(posts, k)
        BY <4>1 DEF SaveAnswered, SaveFails, PostAnswered, StoreFails, PostRefused, Answered, Reload
      <4> QED BY <4>2 DEF OtherPosts
    <3> QED BY <1>2, <3>1, <3>2, <3>3, <3>4, <3>5, <3>6, <3>7, <3>8, <3>9, <3>10, <3>11 DEF Next
  <2> QED BY <2>1, OthersSubmitNothing
<1> QED BY <1>1, <1>2

LEMMA Positive == \A x \in Nat : x \in Int /\ (x # 0 => x > 0)
OBVIOUS

LEMMA NotBoth == \A x : x = 0 => ~(x > 0)
OBVIOUS

LEMMA NumbersGrow ==
  ASSUME NEW i \in Int, NEW j \in Int, i < j, NEW m \in Int, NEW n \in Int, m >= -1, n >= -1, m # 0, n # 0,
         m > 0 /\ n > 0 => n - m >= j - i
  PROVE  m < n \/ m = -1 \/ n = -1
OBVIOUS

\* The places in front of one in a sequence.
LEMMA InFront ==
  ASSUME NEW s, Sequence(s), NEW i \in DOMAIN s
  PROVE  i \in Nat /\ i \in 1..i /\ \A j \in 1..i : j \in DOMAIN s /\ \A k \in 1..j : k \in 1..i
<1> DEFINE n == Len(s)
<1>1. n \in Nat /\ DOMAIN s = 1..n
  BY RowsFinite
<1> HIDE DEF n
<1>2. i \in 1..n
  BY <1>1
<1>3. i \in Nat /\ i \in 1..i
  BY <1>1, <1>2
<1>4. ASSUME NEW j \in 1..i PROVE j \in 1..n /\ \A k \in 1..j : k \in 1..i
  BY <1>1, <1>2
<1> QED BY <1>1, <1>3, <1>4

\* A row with a brand is named and owned, as all rows above it are, and they are complete.
LEMMA BrandedIsChecked ==
  ASSUME NEW s, Sequence(s), InOrder(s), ~SaveRefused(Owned(s)), NEW i \in DOMAIN s, s[i].brand # ""
  PROVE  \A j \in 1..i : j \in DOMAIN s /\ Owned(s)[j].owner /\ s[j].brand # "" /\ s[j].num # 0 /\ Amount(s[j]) > 0
<1> DEFINE t == Owned(s)
<1>1. /\ Sequence(t) /\ InOrder(t) /\ DOMAIN t = DOMAIN s
      /\ \A j \in DOMAIN s : t[j].total = s[j].total /\ t[j].brand = s[j].brand /\ t[j].num = s[j].num /\ t[j].named = s[j].named
  BY OwnedIs
<1>2. /\ \A j \in Named(t) : ~Incomplete(t[j])
      /\ \A j \in DOMAIN t : t[j].brand # "" => t[j].owner
  BY DEF SaveRefused
<1> HIDE DEF t
<1>4. \A j \in 1..i : j \in DOMAIN t /\ \A k \in 1..j : k \in 1..i
  BY <1>1, InFront
<1>5. \A j \in 1..i : t[j].owner
  BY <1>1, <1>2 DEF InOrder
<1>6. \A j \in 1..i : t[j].named
  BY <1>1, <1>4, <1>5 DEF InOrder
<1>7. \A j \in 1..i : j \in Named(t)
  BY <1>4, <1>6 DEF Named
<1>8. \A j \in 1..i : t[j].num # 0 /\ t[j].brand # "" /\ Amount(t[j]) # 0
  BY <1>2, <1>7 DEF Incomplete
<1>9. \A j \in DOMAIN s : Amount(t[j]) = Amount(s[j]) /\ Amount(s[j]) \in Nat
  BY <1>1, AmountsAre DEF Amount
<1>10. \A j \in 1..i : j \in DOMAIN s /\ t[j].owner /\ s[j].brand # "" /\ s[j].num # 0 /\ Amount(s[j]) > 0
  <2> SUFFICES ASSUME NEW j \in 1..i PROVE j \in DOMAIN s /\ t[j].owner /\ s[j].brand # "" /\ s[j].num # 0 /\ Amount(s[j]) > 0
    OBVIOUS
  <2>1. j \in DOMAIN s
    BY <1>1, <1>4
  <2>2. t[j].owner /\ s[j].brand # "" /\ s[j].num # 0 /\ Amount(s[j]) # 0 /\ Amount(s[j]) \in Nat
    BY <1>1, <1>5, <1>8, <1>9, <2>1
  <2> QED BY <2>1, <2>2, Positive
<1> QED BY <1>10 DEF t

\* What Save & Close does not refuse has brands, totals and numbers.
LEMMA SavedComplete ==
  ASSUME Sequence(page.popup.rows), InOrder(page.popup.rows), ~SaveRefused(Owned(page.popup.rows))
  PROVE  BrandsComplete
<1> DEFINE s == page.popup.rows
           t == Owned(s)
           posted == {i \in DOMAIN s : s[i].brand # ""}
           f == [i \in DOMAIN t |-> t[i].brand]
           full == {i \in DOMAIN t : \A j \in 1..i : t[j].owner /\ t[j].brand # ""}
<1>1. DOMAIN t = DOMAIN s /\ \A i \in DOMAIN s : t[i].brand = s[i].brand
  BY OwnedIs
<1>2. IsInjective(Restrict(f, full))
  BY DEF SaveRefused, SameBrand
<1>3. \A i \in posted : /\ i \in DOMAIN s /\ 1..i \subseteq DOMAIN s
                        /\ \A j \in 1..i : t[j].owner /\ s[j].brand # ""
                        /\ s[i].num # 0 /\ Amount(s[i]) > 0
  <2> SUFFICES ASSUME NEW i \in posted
               PROVE  /\ i \in DOMAIN s /\ 1..i \subseteq DOMAIN s
                      /\ \A j \in 1..i : t[j].owner /\ s[j].brand # ""
                      /\ s[i].num # 0 /\ Amount(s[i]) > 0
    OBVIOUS
  <2>1. \A j \in 1..i : j \in DOMAIN s /\ t[j].owner /\ s[j].brand # "" /\ s[j].num # 0 /\ Amount(s[j]) > 0
    BY BrandedIsChecked
  <2>2. i \in DOMAIN s /\ i \in 1..i
    BY InFront
  <2> QED BY <2>1, <2>2
<1> HIDE DEF s, t
<1>4. posted \subseteq full
  <2> SUFFICES ASSUME NEW i \in posted PROVE i \in full
    OBVIOUS
  <2>1. \A j \in 1..i : t[j].owner /\ t[j].brand # ""
    BY <1>1, <1>3
  <2> QED BY <1>1, <1>3, <2>1
<1>5. ASSUME NEW a \in posted, NEW b \in posted, s[a].brand = s[b].brand PROVE a = b
  <2>1. a \in full /\ b \in full /\ f[a] = f[b]
    BY <1>1, <1>4, <1>5
  <2> HIDE DEF f, full, posted
  <2> QED BY <1>2, <2>1 DEF IsInjective, Restrict
<1>6. IsInjective([i \in posted |-> s[i].brand])
  BY <1>5 DEF IsInjective
<1>7. \A i \in posted : Amount(s[i]) > 0
  BY <1>3
<1>8. \A i, j \in posted : i < j => s[i].num < s[j].num \/ NotANumber \in {s[i].num, s[j].num}
  <2> SUFFICES ASSUME NEW i \in posted, NEW j \in posted, i < j
               PROVE  s[i].num < s[j].num \/ NotANumber \in {s[i].num, s[j].num}
    OBVIOUS
  <2>1. /\ s[i].num \in Int /\ s[i].num >= NotANumber /\ s[i].num # 0 /\ i \in Int
        /\ s[j].num \in Int /\ s[j].num >= NotANumber /\ s[j].num # 0 /\ j \in Int
    <3>1. \A k \in DOMAIN s : s[k].num \in Int /\ s[k].num >= NotANumber
      BY DEF InOrder, RowOK, s
    <3>3. \A k \in DOMAIN s : k \in Int
      <4>1. Sequence(s)
        BY DEF s
      <4>2. \A k \in DOMAIN s : k \in Nat
        BY <4>1, InFront
      <4> QED BY <4>2, Positive
    <3> QED BY <1>3, <3>1, <3>3
  <2>2. s[i].num > 0 /\ s[j].num > 0 => s[j].num - s[i].num >= j - i
    BY <1>3 DEF InOrder, s
  <2> DEFINE m == s[i].num
             n == s[j].num
  <2>3. m \in Int /\ n \in Int /\ m >= -1 /\ n >= -1 /\ m # 0 /\ n # 0 /\ i \in Int /\ j \in Int
    BY <2>1 DEF NotANumber
  <2>4. m > 0 /\ n > 0 => n - m >= j - i
    BY <2>2
  <2> HIDE DEF m, n
  <2>5. m < n \/ m = -1 \/ n = -1
    BY <2>3, <2>4, NumbersGrow
  <2> QED BY <2>5 DEF NotANumber, m, n
<1> HIDE DEF posted
<1> QED BY <1>6, <1>7, <1>8 DEF BrandsComplete, posted, s

\* ... and shares that make a hundred percent, when the page has kept them right.
LEMMA SavedShared ==
  ASSUME Sequence(page.popup.rows), InOrder(page.popup.rows), ~SaveRefused(Owned(page.popup.rows)),
         page.popup.clean => Shared(page.popup.rows)
  PROVE  SharesAddUp
<1> DEFINE s == page.popup.rows
           t == Owned(s)
<1> SUFFICES ASSUME page.popup.clean, Named(s) # {} PROVE Shares(s) = 10000
  BY DEF SharesAddUp, Shares, ShareIn
<1>1. /\ DOMAIN t = DOMAIN s /\ DOMAIN s = 1..Len(s) /\ Len(s) \in Nat
      /\ \A j \in DOMAIN s : t[j].total = s[j].total /\ t[j].named = s[j].named
  BY OwnedIs, RowsFinite
<1>2. \A j \in Named(t) : ~Incomplete(t[j])
  BY DEF SaveRefused
<1> HIDE DEF t
<1>3. 1 \in DOMAIN s /\ 1 \in Named(t)
  <2>1. PICK i \in DOMAIN s : \A j \in 1..i : s[j].named
    BY DEF Named
  <2>2. 1 \in DOMAIN s /\ 1 \in 1..i /\ 1..1 = {1}
    BY <1>1
  <2>3. t[1].named
    BY <1>1, <2>1, <2>2
  <2> QED BY <1>1, <2>2, <2>3 DEF Named
<1>4. Amount(s[1]) # 0
  BY <1>1, <1>2, <1>3 DEF Incomplete, Amount
<1>5. SumTotals(s) # 0
  <2>1. Amount(s[1]) \in Nat /\ SumTotals(s) \in Nat /\ Amount(s[1]) <= SumTotals(s)
    BY <1>3, AmountsAre
  <2> QED BY <1>4, <2>1
<1>6. ~Missing(s)
  <2> SUFFICES ASSUME NEW j \in DOMAIN s, s[j].brand # "", s[j].total = Unset PROVE FALSE
    BY DEF Missing
  <2>1. j \in 1..j
    BY InFront
  <2>2. Amount(s[j]) > 0
    BY <2>1, BrandedIsChecked
  <2>3. Amount(s[j]) = 0
    BY DEF Amount
  <2> QED BY <2>2, <2>3, NotBoth
<1> QED BY <1>5, <1>6 DEF Shared

\* Whatever was typed, undone, added and deleted before, the sub-projects that are posted
\* have each a brand of its own, a number and a total, and their shares make a hundred
\* percent (SaveAndClose of the popup, editProjects.js).  Months may be negative: only a
\* popup that opens on a project whose year comes to less than nothing is excepted, as its
\* negative total passes the check.  The sub-projects that exist have totals that are not
\* negative and shares that make a hundred percent.
THEOREM DivisionIsPosted ==
  ASSUME WholeShares, KidTotals, Totals \subseteq Int
  PROVE  Spec => ([]~NegativeYear => DivisionPosted)
<1> DEFINE D == DivisionInv(page)
           Saved == SubmitsRows => BrandsComplete /\ SharesAddUp
<1>1. Init => D
  BY InitDiv
<1>2. PageInv /\ AmountsInv /\ D /\ [Next]_vars /\ ~NegativeYear' => D'
  <2>1. PageInv /\ AmountsInv /\ DivisionInv(page) /\ [Next]_vars /\ ~NegativeYear' => DivisionInv(page')
    BY NextDiv
  <2> QED BY <2>1 DEF DivisionInv
<1>3. PageInv /\ D /\ [Next]_vars => Saved
  <2> SUFFICES ASSUME PageInv, D, [Next]_vars, SubmitsRows PROVE BrandsComplete /\ SharesAddUp
    OBVIOUS
  <2>1. page.popup.open /\ ~page.hung /\ page.popup.for.on # "new" /\ ~SaveRefused(Owned(page.popup.rows))
    BY SubmitsIs
  <2>2. Sequence(page.popup.rows) /\ InOrder(page.popup.rows)
    BY RowsDiv
  <2>3. page.popup.clean => Shared(page.popup.rows)
    BY <2>1 DEF DivisionInv
  <2> QED BY <2>1, <2>2, <2>3, SavedComplete, SavedShared
<1>4. Spec => ([]~NegativeYear => [][Saved]_vars)
  BY <1>1, <1>2, <1>3, PageInvAlways, AmountsInvAlways, PTL DEF Spec
<1> QED BY <1>4 DEF DivisionPosted

-----------------------------------------------------------------------------
(* the type of the page, and the bounds *)

Small(s) == DOMAIN s \subseteq 1..MaxRows
CellTyped(c) == c \in Cells \cup {NoCell} \/ c.on = "popup"

\* No list outgrows its bound, whichever way its rows came.
SizesInv(p) ==
  /\ Small(p.popup.rows) /\ CellTyped(p.cell)
  /\ DOMAIN p.new \subseteq 1..MaxNew /\ \A k \in DOMAIN p.new : Small(p.new[k].rows)

LEMMA SizesStep ==
  ASSUME NEW p, NEW n, SizesInv(p), Small(n.popup.rows), n.cell = p.cell \/ CellTyped(n.cell), n.new = p.new
  PROVE  SizesInv(n)
BY DEF SizesInv

LEMMA SizesAlike == ASSUME NEW p, NEW n, SizesInv(p), Alike(p, n) PROVE SizesInv(n)
BY DEF SizesInv, Alike, CellTyped

LEMMA AlikeSized == ASSUME SizesInv(page), Alike(page, page') PROVE SizesInv(page')
<1> DEFINE n == page'
<1>1. Alike(page, n)
  OBVIOUS
<1> HIDE DEF n
<1>2. SizesInv(n)
  BY <1>1, SizesAlike
<1> QED BY <1>2 DEF n

LEMMA BlankSmall == Small(BlankRows)
BY PopupAssumption DEF Small, BlankRows

\* Editing the rows adds one at most, and only while there is room.
LEMMA EditedSmall ==
  ASSUME NEW s, Sequence(s), Small(s), NEW i, NEW field, NEW x, NEW y
  PROVE  /\ Small(Opened(s, i, field)) /\ Small([s EXCEPT ![i].brand = x]) /\ Small([s EXCEPT ![i].total = x])
         /\ Small(ShareOut(s)) /\ Small(Restored(s, i)) /\ Small(Owned(s)) /\ Small([s EXCEPT ![1] = First(@)])
         /\ Small(Single(s, x, y)) /\ Small([j \in DOMAIN s |-> BlankRow]) /\ Small(Grown(s, i))
<1>1. Small(Opened(s, i, field)) /\ Small([s EXCEPT ![i].brand = x]) /\ Small([s EXCEPT ![i].total = x])
  BY DEF Small, Opened
<1>2. Small(ShareOut(s)) /\ Small(Restored(s, i)) /\ Small(Owned(s)) /\ Small([s EXCEPT ![1] = First(@)])
  BY DEF Small, ShareOut, Restored, Owned
<1>3. Small(Single(s, x, y)) /\ Small([j \in DOMAIN s |-> BlankRow])
  BY DEF Small, Single
<1>4. Small(Grown(s, i))
  <2>1. CASE i = Len(s) /\ i >= PopupRows /\ i < MaxRows
    <3>1. Len(s) \in Nat
      BY SeqFacts
    <3>2. DOMAIN Append(s, BlankRow) = 1..(Len(s) + 1)
      BY AppendIs
    <3>3. 1..(Len(s) + 1) \subseteq 1..MaxRows
      BY <2>1, <3>1, PopupAssumption
    <3> QED BY <2>1, <3>2, <3>3 DEF Small, Grown
  <2>2. CASE ~(i = Len(s) /\ i >= PopupRows /\ i < MaxRows)
    BY <2>2 DEF Grown
  <2> QED BY <2>1, <2>2
<1> QED BY <1>1, <1>2, <1>3, <1>4

\* The rows that are left and as many blank ones as were deleted are as many as before.
LEMMA DeletedSmall ==
  ASSUME NEW s, Sequence(s), Small(s), NEW gone \in SUBSET DOMAIN s, NEW new
  PROVE  Small(Without(s, gone)) /\ Small(Delete(s, gone, new))
<1> DEFINE blank == [i \in 1..Cardinality(gone) |-> BlankRow]
           some == Without(s, gone)
           left == some \o blank
           n == Cardinality(DOMAIN s \ gone)
           c == Cardinality(gone)
           sum == MapThenSumSet(LAMBDA i : left[i].total, Leading(left))
           done == [i \in DOMAIN left |->
                      [left[i] EXCEPT !.num = IF new /\ left[i].named THEN i ELSE @,
                                      !.share = IF i \in Leading(left) THEN Percent(left[i].total, sum) ELSE @]]
           end == [done EXCEPT ![1] = First(@)]
<1>1. Sequence(some) /\ c \in Nat
  BY WithoutIsSeq
<1>2. Sequence(blank) /\ Len(blank) = c
  <2>1. blank \in [1..c -> {BlankRow}]
    OBVIOUS
  <2> HIDE DEF blank
  <2> QED BY <1>1, <2>1, FunctionIsSeq
<1>3. n \in Nat /\ DOMAIN some = 1..n
  BY WithoutHas
<1>4. Delete(s, gone, new) = IF Amount(done[1]) = 0 THEN end ELSE done
  BY DEF Delete
<1>5. Len(s) \in Nat /\ DOMAIN s = 1..Len(s) /\ n + c = Len(s)
  <2>1. Len(s) \in Nat /\ DOMAIN s = 1..Len(s) /\ IsFiniteSet(DOMAIN s)
    BY RowsFinite
  <2>2. Cardinality(DOMAIN s) = Len(s)
    <3>1. Cardinality(1..Len(s)) = IF 1 > Len(s) THEN 0 ELSE Len(s) - 1 + 1
      BY <2>1, FS_Interval
    <3> QED BY <2>1, <3>1
  <2>3. Cardinality(DOMAIN s \ gone) = Cardinality(DOMAIN s) - Cardinality(DOMAIN s \cap gone)
    BY <2>1, FS_Difference
  <2>4. DOMAIN s \cap gone = gone
    OBVIOUS
  <2>5. n = Len(s) - c
    BY <2>2, <2>3, <2>4
  <2> DEFINE l == Len(s)
  <2> HIDE DEF n, c, l
  <2>6. l \in Nat => n + c = l
    BY <1>1, <2>5 DEF l
  <2> QED BY <2>1, <2>6 DEF l
<1> HIDE DEF blank, some, n, c
<1>6. Len(some) = n
  <2>1. Len(some) \in Nat /\ 1..Len(some) = 1..n
    BY <1>1, <1>3, SeqFacts
  <2> QED BY <1>3, <2>1
<1>7. DOMAIN left = 1..(n + c)
  BY <1>1, <1>2, <1>6, ConcatHas
<1> HIDE DEF left, sum
<1>8. DOMAIN done = DOMAIN s /\ DOMAIN end = DOMAIN s
  BY <1>5, <1>7
<1>9. 1..n \subseteq DOMAIN s
  BY <1>1, <1>3, <1>5
<1> HIDE DEF done, end
<1>10. Small(Delete(s, gone, new))
  BY <1>4, <1>8 DEF Small
<1>11. Small(some)
  BY <1>3, <1>9 DEF Small
<1> QED BY <1>10, <1>11 DEF some

LEMMA ExistingPlaces ==
  ASSUME NEW s, NEW kids, Sequence(s), Sequence(kids)
  PROVE  DOMAIN Existing(s, kids) \subseteq DOMAIN kids \cup DOMAIN s
<1> DEFINE x == Existing(s, kids)
<1>1. x = Existing(s, kids)
  OBVIOUS
<1> HIDE DEF x
<1>2. Covers(x, s, kids)
  BY <1>1, ExistingHas
<1>3. DOMAIN x \subseteq DOMAIN kids \cup DOMAIN s
  BY <1>2 DEF Covers
<1> QED BY <1>1, <1>3

LEMMA ExistingSmall ==
  ASSUME NEW s, Sequence(s), Small(s), NEW p \in Tops
  PROVE  Small(Existing(s, KidRows(p)))
<1> DEFINE t == KidRows(p)
           k == Kids[p]
           x == Existing(s, t)
<1>1. Sequence(t)
  BY KidRowsIsSeq
<1>2. Sequence(k) /\ DOMAIN t = DOMAIN k
  <2>1. DOMAIN t = DOMAIN k
    BY DEF KidRows
  <2>2. k \in Seq(Ids)
    BY PageAssumption
  <2> HIDE DEF k
  <2>3. Sequence(k)
    BY <2>2, SeqFacts
  <2> QED BY <2>1, <2>3
<1>3. Len(k) \in Nat /\ DOMAIN k = 1..Len(k) /\ Len(k) <= MaxRows
  BY <1>2, RowsFinite, BoundsAssumption
<1> HIDE DEF t, k
<1>4. DOMAIN x \subseteq DOMAIN t \cup DOMAIN s
  BY <1>1, ExistingPlaces
<1> HIDE DEF x
<1>5. DOMAIN k \subseteq 1..MaxRows
  BY <1>3, PopupAssumption
<1> QED BY <1>2, <1>4, <1>5 DEF Small, x, t

-----------------------------------------------------------------------------
(* one lemma for each handler *)

LEMMA RowsSized == ASSUME PageInv, SizesInv(page) PROVE Sequence(page.popup.rows) /\ Small(page.popup.rows) /\ Fields(page)
BY RowsAreSeq, PageFields DEF SizesInv

LEMMA PopupForSized ==
  ASSUME NEW p, Fields(p), SizesInv(p), NEW c, NEW rows, Small(rows)
  PROVE  SizesInv(PopupFor(p, c, rows)) /\ Fields(PopupFor(p, c, rows))
<1> DEFINE n == PopupFor(p, c, rows)
<1>1. /\ Fields(n) /\ Untouched(p, n, {"popup", "cell", "overlay", "been"}) /\ n.overlay = TRUE
      /\ n.popup.open = TRUE /\ n.popup.rows = rows
      /\ n.cell = IF p.cell.on = "popup" THEN p.cell ELSE NoCell
      /\ (n.been.loose <=> p.been.loose \/ p.overlay) /\ Untouched(p.been, n.been, {"loose"})
  BY PopupForIs
<1> HIDE DEF n
<1>2. n.new = p.new
  BY <1>1 DEF Fields, Untouched
<1>3. n.cell = p.cell \/ CellTyped(n.cell)
  BY <1>1 DEF CellTyped
<1>4. SizesInv(n)
  BY <1>1, <1>2, <1>3, SizesStep
<1> QED BY <1>1, <1>4 DEF n

LEMMA OpenCellSized == ASSUME PageInv, SizesInv(page), OpenCell PROVE SizesInv(page')
<1>1. PICK c \in Cells : Shows([page EXCEPT !.cell = c])
  BY DEF OpenCell
<1> DEFINE n == page'
<1>2. n.popup = page.popup /\ n.new = page.new /\ n.cell = c
  BY <1>1, PageFields DEF Shows, Becomes, Fields
<1> HIDE DEF n
<1>3. CellTyped(n.cell) /\ Small(n.popup.rows)
  BY <1>2 DEF CellTyped, SizesInv
<1>4. SizesInv(n)
  BY <1>2, <1>3, SizesStep
<1> QED BY <1>4 DEF n

LEMMA PopupCellsSized == ASSUME PageInv, SizesInv(page), OpenPopupCell \/ AddRow \/ DeleteRows PROVE SizesInv(page')
<1> DEFINE s == page.popup.rows
           n == page'
<1>1. Sequence(s) /\ Small(s) /\ Fields(page)
  BY RowsSized
<1>2. ASSUME NEW rows, NEW m, Small(rows), m.popup.rows = rows, m.new = page.new,
             m.cell = page.cell \/ m.cell = NoCell \/ m.cell.on = "popup"
      PROVE  SizesInv(m)
  BY <1>2, SizesStep DEF CellTyped
<1>3. CASE OpenPopupCell
  <2>1. PICK i, field : n = [Edited(Opened(s, i, field)) EXCEPT !.cell = [on |-> "popup", row |-> i, field |-> field]]
    BY <1>3 DEF OpenPopupCell, Shows, Becomes
  <2> DEFINE rows == Opened(s, i, field)
             cell == [on |-> "popup", row |-> i, field |-> field]
  <2>2. cell.on = "popup"
    OBVIOUS
  <2>3. Small(rows)
    <3> HIDE DEF s
    <3> QED BY <1>1, EditedSmall
  <2> HIDE DEF rows, cell
  <2>4. n.popup.rows = rows /\ n.new = page.new /\ n.cell = cell
    BY <1>1, <2>1 DEF Edited, WithRows, Fields, rows, cell
  <2> HIDE DEF n
  <2>5. SizesInv(n)
    BY <1>2, <2>2, <2>3, <2>4
  <2> QED BY <2>5 DEF n
<1>4. CASE AddRow
  <2>1. Len(s) < MaxRows /\ n = [Edited(Append(s, BlankRow)) EXCEPT !.cell = IF @.on = "popup" THEN NoCell ELSE @]
    BY <1>4 DEF AddRow, Shows, Becomes
  <2> DEFINE rows == Append(s, BlankRow)
  <2>2. Small(rows)
    <3>1. Len(s) \in Nat
      BY <1>1, SeqFacts
    <3> HIDE DEF s
    <3>2. DOMAIN rows = 1..(Len(s) + 1)
      BY <1>1, AppendIs
    <3>3. 1..(Len(s) + 1) \subseteq 1..MaxRows
      BY <2>1, <3>1, PopupAssumption
    <3> QED BY <3>2, <3>3 DEF Small
  <2> HIDE DEF rows
  <2>3. n.popup.rows = rows /\ n.new = page.new /\ (n.cell = page.cell \/ n.cell = NoCell)
    BY <1>1, <2>1 DEF Edited, WithRows, Fields, rows
  <2> HIDE DEF n
  <2>4. SizesInv(n)
    BY <1>2, <2>2, <2>3
  <2> QED BY <2>4 DEF n
<1>5. CASE DeleteRows
  <2>1. PICK gone \in SUBSET DOMAIN s :
          \/ n = [[Edited(Delete(s, gone, IsNew)) EXCEPT !.popup.clean = FALSE]
                    EXCEPT !.cell = IF @.on = "popup" THEN NoCell ELSE @]
          \/ n = [Edited(Without(s, gone)) EXCEPT !.popup.clean = FALSE]
    BY <1>5 DEF DeleteRows, Shows, Becomes
  <2> DEFINE rows == Delete(s, gone, IsNew)
             some == Without(s, gone)
  <2>2. Small(rows) /\ Small(some)
    <3> HIDE DEF s
    <3> QED BY <1>1, DeletedSmall
  <2> HIDE DEF rows, some
  <2>3. n.popup.rows \in {rows, some} /\ n.new = page.new /\ (n.cell = page.cell \/ n.cell = NoCell)
    <3>1. CASE n = [[Edited(rows) EXCEPT !.popup.clean = FALSE]
                      EXCEPT !.cell = IF @.on = "popup" THEN NoCell ELSE @]
      BY <1>1, <3>1 DEF Edited, WithRows, Fields
    <3>2. CASE n = [Edited(some) EXCEPT !.popup.clean = FALSE]
      BY <1>1, <3>2 DEF Edited, WithRows, Fields
    <3> QED BY <2>1, <3>1, <3>2 DEF rows, some
  <2> HIDE DEF n
  <2>4. SizesInv(n)
    BY <1>2, <2>2, <2>3
  <2> QED BY <2>4 DEF n
<1> QED BY <1>3, <1>4, <1>5

LEMMA CommitPopupSized ==
  ASSUME PageInv, SizesInv(page), CommitPopupBrand \/ CommitPopupTotal
  PROVE  SizesInv(page')
<1> DEFINE s == page.popup.rows
           i == page.cell.row
           n == page'
<1>1. Sequence(s) /\ Small(s) /\ Fields(page)
  BY RowsSized
<1>2. \E rows : Small(rows) /\ n.popup.rows = rows /\ n.new = page.new /\ n.cell = NoCell
  <2>1. CASE CommitPopupBrand
    <3>1. PICK b : n = [PopupCommit([s EXCEPT ![i].brand = b]) EXCEPT !.popup.clean = @ /\ b # ""]
      BY <2>1 DEF CommitPopupBrand, Shows, Becomes
    <3> DEFINE rows == [s EXCEPT ![i].brand = b]
    <3>2. Small(rows)
      <4> HIDE DEF s, i
      <4> QED BY <1>1, EditedSmall
    <3> HIDE DEF rows
    <3>3. n.popup.rows = rows /\ n.new = page.new /\ n.cell = NoCell
      BY <1>1, <3>1 DEF PopupCommit, WithRows, Fields, rows
    <3> QED BY <3>2, <3>3
  <2>2. CASE CommitPopupTotal
    <3>1. PICK total :
            LET rows == [s EXCEPT ![i].total = total]
            IN  n = IF total < 0 THEN [PopupCommit(Restored(rows, i)) EXCEPT !.popup.clean = FALSE]
                    ELSE IF Hangs(rows) THEN [PopupCommit(rows) EXCEPT !.hung = TRUE]
                    ELSE [PopupCommit(Grown(ShareOut(rows), i)) EXCEPT !.popup.clean = TRUE]
      BY <2>2 DEF CommitPopupTotal, Shows, Becomes
    <3> DEFINE t == [s EXCEPT ![i].total = total]
               u == Restored(t, i)
               v == Grown(ShareOut(t), i)
    <3>2. Sequence(t) /\ Small(t)
      <4> HIDE DEF s, i
      <4> QED BY <1>1, EditedSmall, RowsEdited
    <3>3. n = IF total < 0 THEN [PopupCommit(u) EXCEPT !.popup.clean = FALSE]
              ELSE IF Hangs(t) THEN [PopupCommit(t) EXCEPT !.hung = TRUE]
              ELSE [PopupCommit(v) EXCEPT !.popup.clean = TRUE]
      BY <3>1
    <3> HIDE DEF t, i
    <3>4. Small(u) /\ Small(v)
      <4> DEFINE w == ShareOut(t)
      <4>1. Small(u) /\ Small(w) /\ Sequence(w)
        BY <3>2, EditedSmall, RowsEdited
      <4> HIDE DEF w
      <4>2. Small(Grown(w, i))
        BY <4>1, EditedSmall
      <4> QED BY <4>1, <4>2 DEF w
    <3> HIDE DEF u, v, n
    <3>5. n.popup.rows \in {t, u, v} /\ n.new = page.new /\ n.cell = NoCell
      <4>1. CASE total < 0
        BY <1>1, <3>3, <4>1 DEF PopupCommit, WithRows, Fields
      <4>2. CASE ~(total < 0) /\ Hangs(t)
        BY <1>1, <3>3, <4>2 DEF PopupCommit, WithRows, Fields
      <4>3. CASE ~(total < 0) /\ ~Hangs(t)
        BY <1>1, <3>3, <4>3 DEF PopupCommit, WithRows, Fields
      <4> QED BY <4>1, <4>2, <4>3
    <3> QED BY <3>2, <3>4, <3>5
  <2> QED BY <2>1, <2>2
<1> HIDE DEF n
<1>3. SizesInv(n)
  BY <1>2, SizesStep DEF CellTyped
<1> QED BY <1>3 DEF n

LEMMA ReloadSized == ASSUME NEW s, Reload(s) PROVE SizesInv(page') /\ posts' = <<>>
<1> DEFINE l == LoadedPage(s, page.data.active)
           n == page'
           failed == InFlight({"save"}) # {}
<1>1. n = [l EXCEPT !.been.failed = failed, !.been.single = page.been.single] /\ posts' = <<>>
  BY DEF Reload
<1>2. DOMAIN l = {"data", "query", "radio", "cell", "brand", "kept", "popup", "guard", "toSingle", "new", "overlay",
                  "saving", "window", "narrow", "button", "rejected", "hung", "edits", "been"}
      /\ l.popup = ClosedPopup /\ l.cell = NoCell /\ l.new = <<>>
  BY DEF LoadedPage
<1> HIDE DEF l, failed
<1>3. n.popup = ClosedPopup /\ n.cell = NoCell /\ n.new = <<>>
  BY <1>1, <1>2
<1> HIDE DEF n
<1>4. SizesInv(n)
  BY <1>3, BlankSmall DEF SizesInv, CellTyped, ClosedPopup
<1> QED BY <1>1, <1>4 DEF n

LEMMA InitSized == Init => SizesInv(page) /\ Len(posts) <= MaxPosts
<1> SUFFICES ASSUME Init PROVE SizesInv(page) /\ Len(posts) <= MaxPosts
  OBVIOUS
<1> DEFINE active == IF "active" \in doing THEN Tops ELSE {}
           n == page
<1>1. n = LoadedPage(stored, active) /\ posts = <<>>
  BY DEF Init
<1>2. n.popup = ClosedPopup /\ n.cell = NoCell /\ n.new = <<>>
  BY <1>1 DEF LoadedPage
<1> HIDE DEF n
<1>3. SizesInv(n)
  BY <1>2, BlankSmall DEF SizesInv, CellTyped, ClosedPopup
<1>4. Len(posts) = 0
  BY <1>1
<1> QED BY <1>3, <1>4, BoundsAssumption DEF n

LEMMA AnswersSized ==
  ASSUME Fields(page), SizesInv(page), (\E kind \in Kinds : AnswerTo(kind)) \/ LeavePage
  PROVE  SizesInv(page')
<1>1. CASE LeavePage
  BY <1>1, ReloadSized DEF LeavePage
<1>2. CASE \E kind \in Kinds : AnswerTo(kind)
  <2>1. PICK k : SaveAnswered(k) \/ SaveFails(k) \/ PostAnswered(k) \/ StoreFails(k) \/ PostRefused(k)
    BY <1>2 DEF AnswerTo
  <2>2. CASE Reload(stored') \/ Reload(stored)
    BY <2>2, ReloadSized
  <2>3. CASE page' = [page EXCEPT !.saving = FALSE]
    BY <2>3, AlikeSized DEF Alike, Fields
  <2>4. CASE SaveFails(k)
    <3> DEFINE r == Redraw(page)
               modal == posts[k].modal
    <3>1. page' = [r EXCEPT !.saving = FALSE, !.been.failed = TRUE, !.been.poFailed = @ \/ modal]
      BY <2>4 DEF SaveFails
    <3>2. Alike(page, r) /\ Fields(r)
      BY RedrawAlike
    <3> HIDE DEF r, modal
    <3>3. Alike(page, page')
      BY <3>1, <3>2 DEF Alike
    <3> QED BY <3>3, AlikeSized
  <2>5. CASE StoreFails(k) \/ PostRefused(k)
    BY <2>5, AlikeSized DEF StoreFails, PostRefused, Answered, Alike, Fields
  <2> QED BY <2>1, <2>2, <2>3, <2>4, <2>5 DEF SaveAnswered, PostAnswered
<1> QED BY <1>1, <1>2

LEMMA SingleRowsSmall == ASSUME PageInv, SizesInv(page), NEW p PROVE Small(SingleRows(p))
<1> DEFINE s == page.popup.rows
           brand == page.brand[p]
           total == page.data.val[Row(p, "F")][TotalCol]
<1>1. Sequence(s) /\ Small(s)
  BY RowsSized
<1>2. SingleRows(p) = Single(s, brand, total)
  BY DEF SingleRows
<1> HIDE DEF s, brand, total
<1>3. Small(Single(s, brand, total))
  BY <1>1, EditedSmall
<1> QED BY <1>2, <1>3

LEMMA CommitBrandSized == ASSUME PageInv, SizesInv(page), CommitBrand PROVE SizesInv(page')
<1> DEFINE p == page.cell.id
           rows == SingleRows(p)
           c == [on |-> "project", id |-> p]
<1>1. Fields(page) /\ Small(rows)
  BY RowsSized, SingleRowsSmall
<1>2. \/ Rejected
      \/ \E b : Becomes([Recalculated([Redraw(page) EXCEPT !.brand[p] = b, !.kept[p] = b]) EXCEPT !.saving = TRUE])
      \/ Shows(Recalculated([Redraw(page) EXCEPT !.brand[p] = Smart]))
      \/ Shows(Recalculated(PopupFor([Redraw(page) EXCEPT !.brand[p] = Smart], c, rows)))
  BY DEF CommitBrand
<1> HIDE DEF rows
<1>4. CASE Rejected
  BY <1>1, <1>4, GridAlike, AlikeSized
<1>5. Alike(page, Redraw(page)) /\ Fields(Redraw(page))
  BY <1>1, RedrawAlike
<1>6. ASSUME NEW b, Becomes([Recalculated([Redraw(page) EXCEPT !.brand[p] = b, !.kept[p] = b]) EXCEPT !.saving = TRUE])
      PROVE  SizesInv(page')
  <2> DEFINE r == Redraw(page)
             q == [r EXCEPT !.brand[p] = b, !.kept[p] = b]
             u == Recalculated(q)
  <2>1. Alike(page, r) /\ Fields(r)
    BY <1>5
  <2> HIDE DEF r, p
  <2>2. Alike(page, q) /\ Fields(q)
    BY <2>1 DEF Alike, Fields
  <2>3. page' = [u EXCEPT !.saving = TRUE]
    BY <1>6 DEF Becomes, r, p
  <2> HIDE DEF q
  <2>4. Alike(page, u) /\ Fields(u)
    BY <2>2, RecalculatedAlike, AlikeAgain
  <2> HIDE DEF u
  <2>5. Alike(page, page')
    BY <2>3, <2>4 DEF Alike, Fields
  <2> QED BY <2>5, AlikeSized
<1> DEFINE r == Redraw(page)
           q == [r EXCEPT !.brand[p] = Smart]
<1>7. Alike(page, q) /\ Fields(q)
  <2> HIDE DEF r, p
  <2> QED BY <1>5 DEF Alike, Fields, r
<1>8. CASE Shows(Recalculated(q))
  <2>1. page' = Recalculated(q)
    BY <1>8 DEF Shows, Becomes
  <2> HIDE DEF q
  <2>2. Alike(page, Recalculated(q))
    BY <1>7, RecalculatedAlike, AlikeAgain
  <2> QED BY <2>1, <2>2, AlikeSized
<1>9. CASE Shows(Recalculated(PopupFor(q, c, rows)))
  <2> DEFINE o == PopupFor(q, c, rows)
  <2>1. page' = Recalculated(o)
    BY <1>9 DEF Shows, Becomes
  <2> HIDE DEF q, c
  <2>2. SizesInv(q)
    BY <1>7, SizesAlike
  <2>3. SizesInv(o) /\ Fields(o)
    BY <1>1, <1>7, <2>2, PopupForSized
  <2> HIDE DEF o
  <2>4. SizesInv(Recalculated(o))
    BY <2>3, RecalculatedAlike, SizesAlike
  <2> QED BY <2>1, <2>4
<1> QED BY <1>2, <1>4, <1>6, <1>8, <1>9

LEMMA ClickBrandSized == ASSUME PageInv, SizesInv(page), ClickBrand PROVE SizesInv(page')
<1>1. Sequence(page.popup.rows) /\ Small(page.popup.rows) /\ Fields(page)
  BY RowsSized
<1>2. PICK p \in Tops :
        \/ LET rows == IF page.data.multi[p] THEN Existing(page.popup.rows, KidRows(p)) ELSE SingleRows(p)
           IN  Shows([PopupFor(page, [on |-> "project", id |-> p], rows) EXCEPT !.guard = TRUE])
        \/ Shows([page EXCEPT !.toSingle = TRUE, !.data.multi[p] = FALSE, !.been.single = TRUE,
                              !.cell = IF page.saving THEN @ ELSE [on |-> "brand", id |-> p]])
  BY DEF ClickBrand
<1> DEFINE rows == IF page.data.multi[p] THEN Existing(page.popup.rows, KidRows(p)) ELSE SingleRows(p)
           c == [on |-> "project", id |-> p]
<1>3. Small(rows)
  BY <1>1, ExistingSmall, SingleRowsSmall
<1> HIDE DEF rows
<1>4. CASE Shows([PopupFor(page, c, rows) EXCEPT !.guard = TRUE])
  <2> DEFINE o == PopupFor(page, c, rows)
             n == page'
  <2> HIDE DEF c
  <2>1. SizesInv(o) /\ Fields(o)
    BY <1>1, <1>3, PopupForSized
  <2>2. n = [o EXCEPT !.guard = TRUE]
    BY <1>4 DEF Shows, Becomes, c
  <2> HIDE DEF o, n
  <2>3. Alike(o, n)
    BY <2>1, <2>2 DEF Alike, Fields
  <2>4. SizesInv(n)
    BY <2>1, <2>3, SizesAlike
  <2> QED BY <2>4 DEF n
<1>5. CASE Shows([page EXCEPT !.toSingle = TRUE, !.data.multi[p] = FALSE, !.been.single = TRUE,
                              !.cell = IF page.saving THEN @ ELSE [on |-> "brand", id |-> p]])
  <2> DEFINE n == page'
             cell == [on |-> "brand", id |-> p]
  <2>1. n.popup = page.popup /\ n.new = page.new /\ (n.cell = page.cell \/ n.cell = cell)
    BY <1>1, <1>5 DEF Shows, Becomes, Fields
  <2>2. CellTyped(cell)
    BY DEF CellTyped, Cells
  <2> HIDE DEF n, cell
  <2>3. SizesInv(n)
    BY <1>1, <2>1, <2>2, SizesStep
  <2> QED BY <2>3 DEF n
<1> QED BY <1>2, <1>4, <1>5 DEF rows

\* The popup is closed.
LEMMA HiddenSized ==
  ASSUME SizesInv(page), NEW n, n.popup.rows = [i \in DOMAIN page.popup.rows |-> BlankRow],
         n.cell = page.cell \/ n.cell = NoCell,
         DOMAIN n.new \subseteq DOMAIN page.new, \A k \in DOMAIN n.new : Small(n.new[k].rows)
  PROVE  SizesInv(n)
<1>1. Small(n.popup.rows)
  BY DEF SizesInv, Small
<1>2. CellTyped(n.cell)
  BY DEF SizesInv, CellTyped
<1> QED BY <1>1, <1>2 DEF SizesInv

LEMMA SaveAndCloseSized == ASSUME PageInv, SizesInv(page), SaveAndClose PROVE SizesInv(page')
<1> DEFINE s == page.popup.rows
           rows == Owned(s)
           for == page.popup.for
           h == Hidden(page)
           total == PlannedTotal(rows)
<1>1. Sequence(s) /\ Small(s) /\ Fields(page) /\ ListsInv(page)
  <2>1. ListsInv(page)
    BY DEF PageInv, PageInvOf, PopupInv
  <2> QED BY <2>1, RowsSized
<1>2. Small(rows)
  <2> HIDE DEF s
  <2> QED BY <1>1, EditedSmall
<1>3. /\ ~h.popup.open /\ h.popup.rows = [i \in DOMAIN page.popup.rows |-> BlankRow]
      /\ h.cell = page.cell \/ h.cell = NoCell
      /\ h.new = page.new /\ h.hung = page.hung /\ Fields(h)
  BY <1>1, HiddenParts
<1> DEFINE n == page'
<1>4. \/ n = WithRows(rows)
      \/ n = [h EXCEPT !.new[for.id].multi = TRUE, !.new[for.id].rows = rows]
      \/ n = [h EXCEPT !.data = ClearMonths(@, for.id, total), !.overlay = page.guard, !.been.cleared = TRUE,
                       !.been.loose = @ \/ ~page.guard]
  BY DEF SaveAndClose, Shows, Becomes
<1> HIDE DEF rows, h, total, for
<1>5. CASE n = WithRows(rows)
  <2>1. n.popup.rows = rows /\ n.cell = page.cell /\ n.new = page.new
    BY <1>1, <1>5 DEF WithRows, Fields
  <2> HIDE DEF n
  <2>2. SizesInv(n)
    BY <1>2, <2>1, SizesStep
  <2> QED BY <2>2 DEF n
<1>6. CASE n = [h EXCEPT !.new[for.id].multi = TRUE, !.new[for.id].rows = rows]
  <2> DEFINE x == for.id
  <2> HIDE DEF n, x
  <2>1. /\ n.popup = h.popup /\ n.cell = h.cell
        /\ n.new = [page.new EXCEPT ![x].multi = TRUE, ![x].rows = rows]
    BY <1>3, <1>6 DEF Fields, x
  <2>2. \A k \in DOMAIN page.new : {"multi", "rows"} \subseteq DOMAIN page.new[k] /\ Small(page.new[k].rows)
    BY <1>1 DEF ListsInv, NewRecord, SizesInv
  <2>3. DOMAIN n.new = DOMAIN page.new /\ \A k \in DOMAIN n.new : n.new[k].rows = rows \/ n.new[k].rows = page.new[k].rows
    BY <2>1, <2>2
  <2>4. \A k \in DOMAIN n.new : Small(n.new[k].rows)
    BY <1>2, <2>2, <2>3
  <2>5. SizesInv(n)
    BY <1>3, <2>1, <2>3, <2>4, HiddenSized
  <2> QED BY <2>5 DEF n
<1>7. CASE n = [h EXCEPT !.data = ClearMonths(@, for.id, total), !.overlay = page.guard, !.been.cleared = TRUE,
                       !.been.loose = @ \/ ~page.guard]
  <2> HIDE DEF n
  <2>1. n.popup = h.popup /\ n.cell = h.cell /\ n.new = page.new
    BY <1>3, <1>7 DEF Fields
  <2>2. \A k \in DOMAIN n.new : Small(n.new[k].rows)
    BY <2>1 DEF SizesInv
  <2>3. SizesInv(n)
    BY <1>3, <2>1, <2>2, HiddenSized
  <2> QED BY <2>3 DEF n
<1> QED BY <1>4, <1>5, <1>6, <1>7

LEMMA CloseWithoutSaveSized == ASSUME PageInv, SizesInv(page), CloseWithoutSave PROVE SizesInv(page')
<1> DEFINE x == page.popup.for.id
           h == Hidden(page)
           n == page'
<1>1. Fields(page) /\ ListsInv(page)
  BY PageFields DEF PageInv, PageInvOf, PopupInv
<1>2. /\ ~h.popup.open /\ h.popup.rows = [i \in DOMAIN page.popup.rows |-> BlankRow]
      /\ h.cell = page.cell \/ h.cell = NoCell
      /\ h.new = page.new /\ h.hung = page.hung /\ Fields(h)
  BY <1>1, HiddenParts
<1>3. n = [h EXCEPT !.new[x].brand = ""] \/ n = h \/ n = [h EXCEPT !.brand[x] = page.kept[x]]
  BY DEF CloseWithoutSave, Shows, Becomes
<1> HIDE DEF n, h, x
<1>4. n.popup = h.popup /\ n.cell = h.cell /\ (n.new = page.new \/ n.new = [page.new EXCEPT ![x].brand = ""])
  <2>1. CASE n = [h EXCEPT !.new[x].brand = ""]
    BY <1>2, <2>1 DEF Fields
  <2>2. CASE n = h
    BY <1>2, <2>2
  <2>3. CASE n = [h EXCEPT !.brand[x] = page.kept[x]]
    BY <1>2, <2>3 DEF Fields
  <2> QED BY <1>3, <2>1, <2>2, <2>3
<1>5. \A k \in DOMAIN page.new : {"brand", "rows"} \subseteq DOMAIN page.new[k] /\ Small(page.new[k].rows)
  BY <1>1 DEF ListsInv, NewRecord, SizesInv
<1>6. DOMAIN n.new = DOMAIN page.new /\ \A k \in DOMAIN n.new : n.new[k].rows = page.new[k].rows
  <2>1. CASE n.new = page.new
    BY <2>1
  <2>2. CASE n.new = [page.new EXCEPT ![x].brand = ""]
    <3>1. DOMAIN n.new = DOMAIN page.new
      BY <2>2
    <3>2. \A k \in DOMAIN n.new : k \in DOMAIN page.new /\ n.new[k].rows = page.new[k].rows
      BY <1>5, <2>2
    <3> QED BY <3>1, <3>2
  <2> QED BY <1>4, <2>1, <2>2
<1>7. \A k \in DOMAIN n.new : Small(n.new[k].rows)
  BY <1>5, <1>6
<1>8. SizesInv(n)
  BY <1>2, <1>4, <1>6, <1>7, HiddenSized
<1> QED BY <1>8 DEF n

\* There is room for one more project being created.
LEMMA CreateProjectSized == ASSUME PageInv, SizesInv(page), CreateProject PROVE SizesInv(page')
<1> DEFINE n == page'
           s == page.new
           x == NewProject
           t == Append(s, x)
           l == Len(s)
<1>1. Fields(page) /\ ListsInv(page) /\ l < MaxNew
  <2>1. l < IF "cells" \in doing THEN 1 ELSE MaxNew
    BY DEF CreateProject
  <2>2. Sequence(s) /\ l \in Nat
    BY RowsFinite DEF PageInv, PageInvOf, PopupInv, ListsInv
  <2> HIDE DEF l
  <2>3. l < MaxNew
    BY <2>1, <2>2, BoundsAssumption
  <2> QED BY <2>3, PageFields DEF PageInv, PageInvOf, PopupInv
<1>2. n = [page EXCEPT !.new = Append(@, NewProject), !.query = NoQuery, !.data = Refresh(@, NoQuery, page.radio)]
  BY DEF CreateProject, Shows, Becomes
<1> HIDE DEF n, x
<1>3. n.popup = page.popup /\ n.cell = page.cell /\ n.new = t
  BY <1>1, <1>2 DEF Fields, x
<1>4. Small(x.rows)
  BY BlankSmall DEF NewProject, x
<1>5. Sequence(s) /\ l \in Nat /\ DOMAIN s = 1..l /\ \A k \in DOMAIN s : Small(s[k].rows)
  BY <1>1, RowsFinite DEF ListsInv, SizesInv
<1> HIDE DEF s
<1>6. DOMAIN t = 1..(l + 1) /\ t[l + 1] = x /\ \A k \in 1..l : t[k] = s[k]
  BY <1>5, AppendIs
<1> HIDE DEF t, l
<1>7. \A k \in DOMAIN t : Small(t[k].rows)
  <2> SUFFICES ASSUME NEW k \in DOMAIN t PROVE Small(t[k].rows)
    OBVIOUS
  <2>1. CASE k = l + 1
    BY <1>4, <1>6, <2>1
  <2>2. CASE k \in 1..l
    BY <1>5, <1>6, <2>2
  <2> QED BY <1>5, <1>6, <2>1, <2>2
<1>8. DOMAIN t \subseteq 1..MaxNew
  BY <1>1, <1>5, <1>6, BoundsAssumption
<1>9. SizesInv(n)
  BY <1>3, <1>7, <1>8 DEF SizesInv
<1> QED BY <1>9 DEF n

\* The fields of a new project change, its rows do not.
LEMMA NewSetSized ==
  ASSUME SizesInv(page), NEW n, NEW k \in DOMAIN page.new, NEW m, n.popup = page.popup, m.rows = page.new[k].rows,
         n.new = [page.new EXCEPT ![k] = m], n.cell = page.cell \/ n.cell = NoCell
  PROVE  SizesInv(n)
BY DEF SizesInv, CellTyped

LEMMA RedrawnNewSized ==
  ASSUME PageInv, SizesInv(page), NEW k \in DOMAIN page.new, NEW m, m.rows = page.new[k].rows
  PROVE  LET n == [Redraw(page) EXCEPT !.new[k] = m] IN SizesInv(n) /\ Fields(n)
<1> DEFINE r == Redraw(page)
           n == [r EXCEPT !.new[k] = m]
<1>1. Alike(page, r) /\ Fields(r)
  BY PageFields, RedrawAlike
<1> HIDE DEF r
<1>2. /\ n.popup = page.popup /\ (n.cell = page.cell \/ n.cell = NoCell)
      /\ n.new = [page.new EXCEPT ![k] = m] /\ Fields(n)
  BY <1>1 DEF Alike, Fields
<1> HIDE DEF n
<1>3. SizesInv(n)
  BY <1>2, NewSetSized
<1> QED BY <1>2, <1>3 DEF n, r

LEMMA NewPopupSized == ASSUME PageInv, SizesInv(page), NEW k \in DOMAIN page.new PROVE SizesInv(NewPopup(k))
<1> DEFINE n == page.new[k]
           m == [n EXCEPT !.brand = Smart]
           q == [Redraw(page) EXCEPT !.new[k] = m]
           s == page.popup.rows
           rows == IF n.multi THEN n.rows ELSE [s EXCEPT ![1] = First(@)]
           c == [on |-> "new", id |-> k]
           o == PopupFor(q, c, rows)
<1>1. Sequence(s) /\ Small(s) /\ Fields(page) /\ ListsInv(page) /\ Small(n.rows)
  <2>1. ListsInv(page) /\ Small(n.rows)
    BY DEF PageInv, PageInvOf, PopupInv, SizesInv
  <2> QED BY <2>1, RowsSized
<1>2. NewPopup(k) = o
  BY <1>1, SetNewBrand DEF NewPopup
<1>3. m.rows = n.rows
  BY <1>1 DEF ListsInv, NewRecord
<1>4. Small(rows)
  <2>1. Small([s EXCEPT ![1] = First(@)])
    <3> HIDE DEF s
    <3> QED BY <1>1, EditedSmall
  <2> QED BY <1>1, <2>1
<1>5. SizesInv(q) /\ Fields(q)
  <2> HIDE DEF m
  <2> QED BY <1>3, RedrawnNewSized
<1> HIDE DEF q, rows, c
<1>6. SizesInv(o)
  BY <1>4, <1>5, PopupForSized
<1> QED BY <1>2, <1>6

LEMMA EditNewSized == ASSUME PageInv, SizesInv(page), EditNew PROVE SizesInv(page')
<1>1. Fields(page) /\ ListsInv(page)
  BY PageFields DEF PageInv, PageInvOf, PopupInv
<1>2. PICK k \in DOMAIN page.new :
        \/ Rejected \/ Shows(NewPopup(k))
        \/ \E x : LET n == page.new[k]
                      Set(m) == Shows([Redraw(page) EXCEPT !.new[k] = m])
                  IN  Set([n EXCEPT !.named = x]) \/ Set([n EXCEPT !.po = x]) \/ Set([n EXCEPT !.brand = x])
  BY DEF EditNew
<1> DEFINE n == page.new[k]
<1>3. DOMAIN n = {"named", "po", "brand", "multi", "rows"}
  BY <1>1 DEF ListsInv, NewRecord
<1>4. ASSUME NEW m, m.rows = n.rows, Shows([Redraw(page) EXCEPT !.new[k] = m]) PROVE SizesInv(page')
  <2>1. page' = [Redraw(page) EXCEPT !.new[k] = m]
    BY <1>4 DEF Shows, Becomes
  <2>2. SizesInv([Redraw(page) EXCEPT !.new[k] = m])
    BY <1>4, RedrawnNewSized
  <2> QED BY <2>1, <2>2
<1> HIDE DEF n
<1>5. ASSUME NEW x, NEW m, m \in {[n EXCEPT !.named = x], [n EXCEPT !.po = x], [n EXCEPT !.brand = x]}
      PROVE  m.rows = n.rows
  BY <1>3, <1>5
<1>6. ASSUME NEW x, \E m \in {[n EXCEPT !.named = x], [n EXCEPT !.po = x], [n EXCEPT !.brand = x]} :
                      Shows([Redraw(page) EXCEPT !.new[k] = m])
      PROVE  SizesInv(page')
  BY <1>4, <1>5, <1>6
<1>7. CASE Rejected
  BY <1>1, <1>7, GridAlike, AlikeSized
<1>8. CASE Shows(NewPopup(k))
  BY <1>8, NewPopupSized DEF Shows, Becomes
<1> QED BY <1>2, <1>6, <1>7, <1>8 DEF n

LEMMA ClickNewBrandSized == ASSUME PageInv, SizesInv(page), ClickNewBrand PROVE SizesInv(page')
<1>1. Fields(page) /\ ListsInv(page)
  BY PageFields DEF PageInv, PageInvOf, PopupInv
<1>2. PICK k \in DOMAIN page.new :
        \/ Shows(IF page.new[k].named THEN NewPopup(k) ELSE [Redraw(page) EXCEPT !.new[k].brand = ""])
        \/ Shows([page EXCEPT !.new[k].multi = FALSE, !.toSingle = TRUE])
  BY DEF ClickNewBrand
<1> DEFINE n == page.new[k]
<1>3. DOMAIN n = {"named", "po", "brand", "multi", "rows"}
  BY <1>1 DEF ListsInv, NewRecord
<1>4. CASE Shows(NewPopup(k))
  BY <1>4, NewPopupSized DEF Shows, Becomes
<1>5. CASE Shows([Redraw(page) EXCEPT !.new[k].brand = ""])
  <2> DEFINE m == [n EXCEPT !.brand = ""]
  <2>1. m.rows = n.rows
    BY <1>3
  <2>2. page' = [Redraw(page) EXCEPT !.new[k] = m]
    BY <1>1, <1>5, SetNewBrand DEF Shows, Becomes
  <2> HIDE DEF m
  <2>3. SizesInv([Redraw(page) EXCEPT !.new[k] = m])
    BY <2>1, RedrawnNewSized
  <2> QED BY <2>2, <2>3
<1>6. CASE Shows([page EXCEPT !.new[k].multi = FALSE, !.toSingle = TRUE])
  <2> DEFINE m == [n EXCEPT !.multi = FALSE]
             o == page'
  <2>1. m.rows = n.rows
    BY <1>3
  <2>2. o.popup = page.popup /\ o.cell = page.cell /\ o.new = [page.new EXCEPT ![k] = m]
    BY <1>1, <1>6 DEF Shows, Becomes, Fields
  <2> HIDE DEF m, o
  <2>3. SizesInv(o)
    BY <2>1, <2>2, NewSetSized
  <2> QED BY <2>3 DEF o
<1> QED BY <1>2, <1>4, <1>5, <1>6

\* Every step keeps the sizes, one lemma for each handler.
LEMMA NextSized == PageInv /\ SizesInv(page) /\ [Next]_vars => SizesInv(page')
<1> SUFFICES ASSUME PageInv, SizesInv(page), [Next]_vars PROVE SizesInv(page')
  OBVIOUS
<1>1. Fields(page)
  BY PageFields
<1>2. CASE UNCHANGED vars
  BY <1>2 DEF vars
<1>3. CASE EscapeKey \/ CommitMonth \/ CommitPO
  BY <1>1, <1>3, GridAlike, AlikeSized
<1>4. CASE OpenCell \/ CommitBrand \/ ClickBrand
  BY <1>4, OpenCellSized, CommitBrandSized, ClickBrandSized
<1>5. CASE OpenPopupCell \/ CommitPopupBrand \/ CommitPopupTotal \/ AddRow \/ DeleteRows
  BY <1>5, PopupCellsSized, CommitPopupSized
<1>6. CASE SaveAndClose \/ CloseWithoutSave
  BY <1>6, SaveAndCloseSized, CloseWithoutSaveSized
<1>7. CASE CreateProject \/ EditNew \/ ClickNewBrand
  BY <1>7, CreateProjectSized, EditNewSized, ClickNewBrandSized
<1>8. CASE SubmitProjects \/ PostProject \/ OpenWindow \/ CloseWindow \/ Narrow \/ Widen
  BY <1>1, <1>8, WindowsAlike, AlikeSized
<1>9. CASE Search \/ RadioButton
  BY <1>1, <1>9, SearchAlike, AlikeSized
<1>10. CASE (\E kind \in Kinds : AnswerTo(kind)) \/ LeavePage
  BY <1>1, <1>10, AnswersSized
<1> QED BY <1>2, <1>3, <1>4, <1>5, <1>6, <1>7, <1>8, <1>9, <1>10 DEF Next

\* A post is only sent while there is room for it.
LEMMA PostsStep ==
  PageInv /\ [Next]_vars =>
    posts' = posts \/ posts' = <<>> \/ (\E post : Sends(post)) \/ (\E k \in DOMAIN posts : posts' = RemoveAt(posts, k))
<1> DEFINE Step == posts' = posts \/ posts' = <<>> \/ (\E post : Sends(post)) \/ (\E k \in DOMAIN posts : posts' = RemoveAt(posts, k))
<1> SUFFICES ASSUME [Next]_vars PROVE Step
  OBVIOUS
<1>0. (\E p : Shows(p)) \/ (\E post : Sends(post)) \/ (\E s : Reload(s)) => Step
  BY DEF Shows, Reload
<1>1. CASE UNCHANGED vars
  BY <1>1 DEF vars
<1>2. CASE OpenCell \/ EscapeKey \/ ClickBrand \/ OpenPopupCell \/ CommitPopupBrand \/ CommitPopupTotal
  <2>1. \E p : Shows(p)
    BY <1>2 DEF OpenCell, EscapeKey, ClickBrand, OpenPopupCell, CommitPopupBrand, CommitPopupTotal
  <2> QED BY <1>0, <2>1
<1>3. CASE AddRow \/ DeleteRows \/ CloseWithoutSave \/ CreateProject \/ ClickNewBrand
  <2>1. \E p : Shows(p)
    BY <1>3 DEF AddRow, DeleteRows, CloseWithoutSave, CreateProject, ClickNewBrand
  <2> QED BY <1>0, <2>1
<1>4. CASE EditNew
  <2>1. \E p : Shows(p)
    BY <1>4 DEF EditNew, Rejected
  <2> QED BY <1>0, <2>1
<1>5. CASE OpenWindow \/ CloseWindow \/ Narrow \/ Widen \/ Search \/ RadioButton
  <2>1. \E p : Shows(p)
    BY <1>5 DEF OpenWindow, CloseWindow, Narrow, Widen, Search, RadioButton
  <2> QED BY <1>0, <2>1
<1>6. CASE CommitMonth \/ CommitPO \/ CommitBrand \/ SaveAndClose \/ SubmitProjects \/ PostProject
  <2>1. (\E p : Shows(p)) \/ (\E post : Sends(post))
    BY <1>6 DEF CommitMonth, CommitPO, CommitBrand, SaveAndClose, SubmitProjects, PostProject, Rejected
  <2> QED BY <1>0, <2>1
<1>7. CASE LeavePage
  <2>1. \E s : Reload(s)
    BY <1>7 DEF LeavePage
  <2> QED BY <1>0, <2>1
<1>8. CASE \E kind \in Kinds : AnswerTo(kind)
  <2>1. PICK k \in DOMAIN posts : SaveAnswered(k) \/ SaveFails(k) \/ PostAnswered(k) \/ StoreFails(k) \/ PostRefused(k)
    BY <1>8 DEF AnswerTo, InFlight
  <2>2. (\E s : Reload(s)) \/ posts' = RemoveAt(posts, k)
    BY <2>1 DEF SaveAnswered, SaveFails, PostAnswered, StoreFails, PostRefused, Answered
  <2> QED BY <1>0, <2>2
<1> QED BY <1>1, <1>2, <1>3, <1>4, <1>5, <1>6, <1>7, <1>8 DEF Next

LEMMA PostsBounded == PageInv /\ Len(posts) <= MaxPosts /\ [Next]_vars => (Len(posts) <= MaxPosts)'
<1> SUFFICES ASSUME PageInv, Len(posts) <= MaxPosts, [Next]_vars PROVE Len(posts') <= MaxPosts
  OBVIOUS
<1> DEFINE s == posts
           n == Len(s)
<1>1. Sequence(s) /\ n \in Nat /\ DOMAIN s = 1..n /\ n <= MaxPosts
  BY RowsFinite DEF PageInv, PageInvOf, PostsInv
<1>2. CASE posts' = posts
  BY <1>1, <1>2
<1>3. CASE posts' = <<>>
  <2>1. Len(posts') = 0
    BY <1>3
  <2> QED BY <2>1, BoundsAssumption
<1>4. ASSUME NEW post, Sends(post) PROVE Len(posts') <= MaxPosts
  <2>1. n < MaxPosts /\ posts' = Append(s, post)
    BY <1>4 DEF Sends
  <2> HIDE DEF s
  <2>2. Len(Append(s, post)) = n + 1
    BY <1>1, AppendIs
  <2> HIDE DEF n
  <2>3. n + 1 <= MaxPosts
    BY <1>1, <2>1, BoundsAssumption
  <2> QED BY <2>1, <2>2, <2>3
<1>5. ASSUME NEW k \in DOMAIN posts, posts' = RemoveAt(posts, k) PROVE Len(posts') <= MaxPosts
  <2> DEFINE t == RemoveAt(s, k)
             l == Len(t)
  <2>1. Sequence(t) /\ DOMAIN t = 1..(n - 1)
    BY <1>1, RemoveAtIs
  <2> HIDE DEF t
  <2>2. l \in Nat /\ 1..l = 1..(n - 1)
    BY <2>1, SeqFacts
  <2> HIDE DEF l, n
  <2>3. l <= n
    BY <1>1, <2>2
  <2>4. l <= MaxPosts
    BY <1>1, <2>2, <2>3, BoundsAssumption
  <2> QED BY <1>5, <2>4 DEF l, t
<1> QED BY <1>2, <1>3, <1>4, <1>5, PostsStep

LEMMA TypesFollow == PageInv /\ AmountsInv /\ SizesInv(page) /\ Len(posts) <= MaxPosts => TypeOK
<1> SUFFICES ASSUME PageInv, AmountsInv, SizesInv(page), Len(posts) <= MaxPosts PROVE TypeOK
  OBVIOUS
<1>1. stored \in [Ids -> [Months -> Int]] /\ page.data.val \in [ProjectRows -> [Columns -> Int]]
  BY DEF AmountsInv, ServerOK, RowsOK, RowsTyped
<1>2. page.data.map \subseteq ProjectRows \cup {TotalRow(t) : t \in Types}
  BY DEF AmountsInv, RowsOK, MapRight, MapWithin
<1>3. page.cell \in Cells \cup {NoCell} \/ page.cell.on = "popup"
  BY DEF SizesInv, CellTyped
<1>4. ASSUME NEW s, Sequence(s), NEW max \in Nat, DOMAIN s \subseteq 1..max PROVE Len(s) <= max
  <2> DEFINE n == Len(s)
  <2>1. n \in Nat /\ DOMAIN s = 1..n
    BY <1>4, RowsFinite
  <2> HIDE DEF n
  <2>2. n = 0 \/ n \in 1..n
    BY <2>1
  <2>3. n <= max
    BY <1>4, <2>1, <2>2
  <2> QED BY <2>3 DEF n
<1>5. Sequence(page.popup.rows) /\ Sequence(page.new)
  BY DEF PageInv, PageInvOf, PopupInv, ListsInv
<1>6. MaxRows \in Nat /\ MaxNew \in Nat
  BY PopupAssumption, BoundsAssumption
<1>7. Len(page.popup.rows) <= MaxRows /\ Len(page.new) <= MaxNew
  BY <1>4, <1>5, <1>6 DEF SizesInv, Small
<1> QED BY <1>1, <1>2, <1>3, <1>7 DEF TypeOK

\* Amounts stay numbers in every row and month, what is edited is a cell of the page or of its
\* popup, and no list outgrows the room it has - whatever is loaded, edited, posted, refused
\* and lost in between (PageData, BrandPopup, EditPage).
THEOREM PageTypesOK == Spec => []TypeOK
<1>1. Init => SizesInv(page) /\ Len(posts) <= MaxPosts
  BY InitSized
<1>2. PageInv /\ SizesInv(page) /\ [Next]_vars => SizesInv(page)'
  BY NextSized DEF SizesInv
<1>3. Spec => []TypeOK
  BY <1>1, <1>2, PostsBounded, TypesFollow, PageInvAlways, AmountsInvAlways, PTL DEF Spec
<1> QED BY <1>3
=============================================================================
