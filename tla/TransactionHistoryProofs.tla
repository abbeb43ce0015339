---------------------- MODULE TransactionHistoryProofs ----------------------
(***************************************************************************)
(* The history users are shown, for every set of accounts, number of       *)
(* records and backfills, however often and in whatever order events       *)
(* arrive.                                                                 *)
(*                                                                         *)
(* The ledger is what the records say (LedgerInv) and the history is what  *)
(* the handled events tell of the ledger (HistoryInv): a row for every     *)
(* handled event and every visible leg that it tells of, with the amount   *)
(* of the event.  Both give types and HistoryMatchesLedger, once it is     *)
(* known how far the text of an event and the column of a leg can round    *)
(* apart (Rounding).  For CompleteHistory each leg needs an event that     *)
(* tells of it, from its service or the recovery worker (ServiceTold) or   *)
(* from the backfill (BackfillInv), and no second one (OneFailure).        *)
(***************************************************************************)
EXTENDS TransactionHistory, LedgerProofs

-----------------------------------------------------------------------------
(* The two conversions *)

\* What lies between two digits.
LEMMA Between ==
    ASSUME NEW x \in Nat
    PROVE  \E q \in Nat, r \in 0..3 : x = 4 * q + r /\ x \div 4 = q /\ x % 4 = r
OBVIOUS

\* The column and the text, by what is left of the fourth digit.
LEMMA RoundingDef ==
    ASSUME NEW x \in Nat, NEW q \in Nat, NEW r \in 0..3, x = 4 * q + r
    PROVE  /\ Stored(x) = IF r >= 2 THEN 4 * (q + 1) ELSE 4 * q
           /\ Formatted(x) = IF r = 3 \/ (r = 2 /\ q % 2 = 1) THEN 4 * (q + 1) ELSE 4 * q
           /\ HalfWay(x) <=> r = 2
<1>1. (2 * x + 4) \div 8 = IF r >= 2 THEN q + 1 ELSE q
  OBVIOUS
<1>2. x \div 4 = q /\ x % 4 = r
  OBVIOUS
<1>3. Stored(x) = IF r >= 2 THEN 4 * (q + 1) ELSE 4 * q
  BY <1>1 DEF Stored, Digit
<1>4. Formatted(x) = IF r = 3 \/ (r = 2 /\ q % 2 = 1) THEN 4 * (q + 1) ELSE 4 * q
  BY <1>2 DEF Formatted, Digit
<1>5. HalfWay(x) <=> r = 2
  BY <1>2 DEF HalfWay, Digit
<1> QED
  BY <1>3, <1>4, <1>5

\* Both conversions leave a rounded amount alone, and they differ only from half way.
LEMMA Rounding ==
    ASSUME NEW x \in Nat
    PROVE  /\ Stored(x) \in Nat /\ Formatted(x) \in Nat
           /\ Formatted(Stored(x)) = Stored(x) /\ Stored(Stored(x)) = Stored(x)
           /\ Stored(Formatted(x)) = Formatted(x)
           /\ \/ Formatted(x) = Stored(x)
              \/ HalfWay(x) /\ Formatted(x) = Stored(x) - Digit
<1>1. PICK q \in Nat, r \in 0..3 : x = 4 * q + r
  BY Between
<1>2. /\ Stored(x) = IF r >= 2 THEN 4 * (q + 1) ELSE 4 * q
      /\ Formatted(x) = IF r = 3 \/ (r = 2 /\ q % 2 = 1) THEN 4 * (q + 1) ELSE 4 * q
      /\ HalfWay(x) <=> r = 2
  BY <1>1, RoundingDef
<1>3. ASSUME NEW p \in Nat PROVE Stored(4 * p) = 4 * p /\ Formatted(4 * p) = 4 * p
  BY RoundingDef
<1>4. Stored(x) = 4 * q \/ Stored(x) = 4 * (q + 1)
  BY <1>2
<1>5. Formatted(x) = 4 * q \/ Formatted(x) = 4 * (q + 1)
  BY <1>2
<1>6. q + 1 \in Nat
  OBVIOUS
<1>7. /\ Formatted(Stored(x)) = Stored(x) /\ Stored(Stored(x)) = Stored(x)
      /\ Stored(Formatted(x)) = Formatted(x)
  BY <1>3, <1>4, <1>5, <1>6
<1>8. Stored(x) \in Nat /\ Formatted(x) \in Nat
  BY <1>4, <1>5
<1>9. Formatted(x) = Stored(x) \/ (HalfWay(x) /\ Formatted(x) = Stored(x) - Digit)
  BY <1>2 DEF Digit
<1> QED
  BY <1>7, <1>8, <1>9

-----------------------------------------------------------------------------
(* Records and what is told of them *)

\* What a record's kind says of its other columns.
Sound(r) ==
    /\ r.kind \in {"seed", "transfer", "deposit", "withdrawal"} /\ r.amount \in Storable
    /\ r.kind = "seed" => r.from = SYSTEM /\ r.to \in Accounts /\ r.status = "completed"
    /\ r.kind = "transfer" => /\ r.from \in Accounts /\ r.to \in Accounts \cup {SYSTEM} /\ r.from # r.to
                              /\ r.status \in {"completed", "failed"}
    /\ r.kind = "deposit" => /\ r.from = SYSTEM /\ r.to \in Accounts
                             /\ r.status \in {"completed", "rejected"}
    /\ r.kind = "withdrawal" => /\ r.from \in Accounts /\ r.to = SYSTEM
                                /\ r.status \in {"pending", "completed", "failed"}

\* What can be stored is a positive amount, before and after it is rounded.
LEMMA StorableType ==
    ASSUME NEW x \in Storable
    PROVE  x \in Nat /\ Stored(x) \in Nat \ {0}
<1>1. x \in Nat /\ Stored(x) > 0
  BY HistoryAssumption DEF Storable
<1> QED
  BY <1>1, Rounding

\* Every record is sound, and a blank is none.
LEMMA RecordsSound ==
    /\ \A r \in Records : Sound(r)
    /\ \A r \in Records : r # NoRecord
    /\ NoRecord.kind = "none"
<1>1. \A r \in Records : Sound(r)
  BY DEF Records, Sound
<1>2. NoRecord.kind = "none"
  BY DEF NoRecord
<1>3. \A r \in Records : r # NoRecord
  BY <1>1, <1>2 DEF Sound
<1> QED
  BY <1>1, <1>2, <1>3

\* A withdrawal may take any of its statuses.
LEMMA StatusSet ==
    ASSUME NEW r \in Records, r.kind = "withdrawal", NEW s \in {"pending", "completed", "failed"}
    PROVE  LET q == [r EXCEPT !.status = s]
           IN  /\ q \in Records /\ q.kind = "withdrawal" /\ q.status = s
               /\ q.from = r.from /\ q.to = r.to /\ q.amount = r.amount
<1>1. r \in [kind : {"withdrawal"}, from : Accounts, to : {SYSTEM}, amount : Storable,
             status : {"pending", "completed", "failed"}]
  BY DEF Records
<1>2. [r EXCEPT !.status = s] \in
          [kind : {"withdrawal"}, from : Accounts, to : {SYSTEM}, amount : Storable,
           status : {"pending", "completed", "failed"}]
  BY <1>1
<1>3. [r EXCEPT !.status = s] \in Records
  BY <1>2 DEF Records
<1>4. LET q == [r EXCEPT !.status = s]
      IN  /\ q.kind = "withdrawal" /\ q.status = s
          /\ q.from = r.from /\ q.to = r.to /\ q.amount = r.amount
  BY <1>1
<1> QED
  BY <1>3, <1>4

\* A record can have been reported with an event of this type.
Supports(r, type) ==
    \/ type = "seed.completed" /\ r.kind = "seed"
    \/ type = "transfer.completed" /\ r.kind = "transfer" /\ r.status = "completed"
    \/ type = "transfer.failed" /\ r.kind = "transfer" /\ r.status = "failed"
    \/ type = "deposit.completed" /\ r.kind = "deposit" /\ r.status = "completed"
    \/ type = "deposit.rejected" /\ r.kind = "deposit" /\ r.status = "rejected"
    \/ type = "withdrawal.initiated" /\ r.kind = "withdrawal"
    \/ type = "withdrawal.completed" /\ r.kind = "withdrawal" /\ r.status = "completed"
    \/ type = "withdrawal.failed" /\ r.kind = "withdrawal" /\ r.status = "failed"

\* The event of a record is one of them.
LEMMA ReportsSupported ==
    ASSUME NEW r \in Records
    PROVE  /\ Supports(r, Reports(r)) /\ Reports(r) \in EventTypes /\ Reports(r) # "account.opened"
           /\ r.kind = "withdrawal" /\ r.status = "pending" => Reports(r) = "withdrawal.initiated"
           /\ r.kind = "withdrawal" /\ r.status = "failed" => Reports(r) = "withdrawal.failed"
<1>1. Sound(r)
  BY RecordsSound
<1>2. CASE r.kind = "seed"
  BY <1>2 DEF Reports, Supports, EventTypes
<1>3. CASE r.kind = "transfer"
  BY <1>1, <1>3 DEF Reports, Supports, EventTypes, Sound
<1>4. CASE r.kind = "deposit"
  BY <1>1, <1>4 DEF Reports, Supports, EventTypes, Sound
<1>5. CASE r.kind = "withdrawal"
  BY <1>1, <1>5 DEF Reports, Supports, EventTypes, Sound
<1> QED
  BY <1>1, <1>2, <1>3, <1>4, <1>5 DEF Sound

\* The entry type of a leg, where ToldBy has it.
LEMMA ToldByDef ==
    /\ DOMAIN ToldBy = EntryTypes
    /\ ToldBy["seed"] = "seed.completed" /\ ToldBy["transfer"] = "transfer.completed"
    /\ ToldBy["deposit"] = "deposit.completed" /\ ToldBy["withdrawal"] = "withdrawal.initiated"
    /\ ToldBy["withdrawal_reversal"] = "withdrawal.failed"
BY DEF ToldBy, EntryTypes

-----------------------------------------------------------------------------
(* The legs of a record, and the rows of an event *)

\* The legs a record has by now.
AllLegs(i, r) ==
    LegsFor(i, r) \cup
    IF r.kind = "withdrawal" /\ r.status = "failed"
    THEN LegPair(0, "withdrawal_reversal", i, r.to, r.from, Stored(r.amount), <<"reversal", i>>)
    ELSE {}

\* Who is debited and credited under an entry type.
Debited(t, r) == IF t = "withdrawal_reversal" THEN r.to ELSE r.from
Credited(t, r) == IF t = "withdrawal_reversal" THEN r.from ELSE r.to

\* The key of the credit leg.
KeyOf(t, i) == IF t = "withdrawal_reversal" THEN <<"reversal", i>> ELSE NullKey

\* A record has a pair of legs for each entry type of which it may be told.
LEMMA LegsByType ==
    ASSUME NEW r \in Records, NEW i, NEW l
    PROVE  l \in AllLegs(i, r) <=>
               \E t \in EntryTypes :
                   /\ Supports(r, ToldBy[t])
                   /\ l \in LegPair(0, t, i, Debited(t, r), Credited(t, r), Stored(r.amount), KeyOf(t, i))
<1> DEFINE Of(t) == LegPair(0, t, i, Debited(t, r), Credited(t, r), Stored(r.amount), KeyOf(t, i))
<1>1. Sound(r)
  BY RecordsSound
<1>2. /\ \A t \in EntryTypes \ {"withdrawal_reversal"} :
             Of(t) = LegPair(0, t, i, r.from, r.to, Stored(r.amount), NullKey)
      /\ Of("withdrawal_reversal")
             = LegPair(0, "withdrawal_reversal", i, r.to, r.from, Stored(r.amount), <<"reversal", i>>)
  BY DEF Debited, Credited, KeyOf
<1>3. /\ Supports(r, ToldBy["seed"]) <=> r.kind = "seed"
      /\ Supports(r, ToldBy["transfer"]) <=> r.kind = "transfer" /\ r.status = "completed"
      /\ Supports(r, ToldBy["deposit"]) <=> r.kind = "deposit" /\ r.status = "completed"
      /\ Supports(r, ToldBy["withdrawal"]) <=> r.kind = "withdrawal"
      /\ Supports(r, ToldBy["withdrawal_reversal"]) <=> r.kind = "withdrawal" /\ r.status = "failed"
  BY ToldByDef DEF Supports
<1>4. /\ LegsFor(i, r) = IF r.kind \in {"transfer", "deposit"} /\ r.status # "completed"
                         THEN {} ELSE Of(r.kind)
      /\ r.kind \in EntryTypes \ {"withdrawal_reversal"}
  BY <1>1, <1>2 DEF LegsFor, Sound, EntryTypes
<1>5. l \in AllLegs(i, r) <=>
          \/ ~(r.kind \in {"transfer", "deposit"} /\ r.status # "completed") /\ l \in Of(r.kind)
          \/ r.kind = "withdrawal" /\ r.status = "failed" /\ l \in Of("withdrawal_reversal")
  <2> HIDE DEF Of
  <2> QED
    BY <1>2, <1>4 DEF AllLegs
<1> HIDE DEF Of
<1>6. (\E t \in EntryTypes : Supports(r, ToldBy[t]) /\ l \in Of(t)) <=>
          \/ Supports(r, ToldBy["seed"]) /\ l \in Of("seed")
          \/ Supports(r, ToldBy["transfer"]) /\ l \in Of("transfer")
          \/ Supports(r, ToldBy["deposit"]) /\ l \in Of("deposit")
          \/ Supports(r, ToldBy["withdrawal"]) /\ l \in Of("withdrawal")
          \/ Supports(r, ToldBy["withdrawal_reversal"]) /\ l \in Of("withdrawal_reversal")
  BY DEF EntryTypes
<1>7. l \in AllLegs(i, r) <=> \E t \in EntryTypes : Supports(r, ToldBy[t]) /\ l \in Of(t)
  BY <1>1, <1>3, <1>5, <1>6 DEF Sound
<1> QED
  BY <1>7 DEF Of

\* What a leg of a record looks like.
LEMMA LegFields ==
    ASSUME NEW r \in Records, NEW i, NEW l \in AllLegs(i, r)
    PROVE  /\ l.reference_id = i /\ l.amount = Stored(r.amount) /\ l.amount \in Nat \ {0}
           /\ l.entry_type \in EntryTypes /\ Supports(r, ToldBy[l.entry_type])
           /\ l.direction \in {"debit", "credit"} /\ l.account \in Accounts \cup {SYSTEM}
           /\ l.account = IF l.direction = "debit" THEN Debited(l.entry_type, r)
                                                   ELSE Credited(l.entry_type, r)
<1>1. PICK t \in EntryTypes :
          /\ Supports(r, ToldBy[t])
          /\ l \in LegPair(0, t, i, Debited(t, r), Credited(t, r), Stored(r.amount), KeyOf(t, i))
  BY LegsByType
<1>2. PICK d, c, m, k : d = Debited(t, r) /\ c = Credited(t, r) /\ m = Stored(r.amount) /\ k = KeyOf(t, i)
  OBVIOUS
<1>3. l \in LegPair(0, t, i, d, c, m, k)
  BY <1>1, <1>2
<1>4. /\ l.entry_type = t /\ l.reference_id = i /\ l.amount = m
      /\ l.direction \in {"debit", "credit"}
      /\ l.account = IF l.direction = "debit" THEN d ELSE c
      /\ l.idempotency_key = IF l.direction = "debit" THEN NullKey ELSE k
  BY <1>3, LegPairFields
<1>5. Sound(r)
  BY RecordsSound
<1>6. d \in Accounts \cup {SYSTEM} /\ c \in Accounts \cup {SYSTEM}
  BY <1>2, <1>5 DEF Sound, Debited, Credited
<1>7. m \in Nat \ {0}
  <2>1. Stored(r.amount) \in Nat \ {0}
    BY <1>5, StorableType DEF Sound
  <2> QED
    BY <1>2, <2>1
<1> QED
  BY <1>1, <1>2, <1>4, <1>6, <1>7

\* Each entry type that may be told has its two legs.
LEMMA LegExists ==
    ASSUME NEW r \in Records, NEW i, NEW t \in EntryTypes, Supports(r, ToldBy[t]),
           NEW dir \in {"debit", "credit"}
    PROVE  \E l \in AllLegs(i, r) : l.entry_type = t /\ l.direction = dir
<1> DEFINE pair == LegPair(0, t, i, Debited(t, r), Credited(t, r), Stored(r.amount), KeyOf(t, i))
<1>1. \E l \in pair : l.entry_type = t /\ l.direction = dir
  BY DEF LegPair
<1>2. \A l \in pair : l \in AllLegs(i, r)
  BY LegsByType
<1> QED
  BY <1>1, <1>2

\* Entry type and direction tell the legs of a record apart.
LEMMA LegUnique ==
    ASSUME NEW r \in Records, NEW i, NEW l \in AllLegs(i, r), NEW m \in AllLegs(i, r),
           l.entry_type = m.entry_type, l.direction = m.direction
    PROVE  l = m
<1>1. PICK t \in EntryTypes :
          l \in LegPair(0, t, i, Debited(t, r), Credited(t, r), Stored(r.amount), KeyOf(t, i))
  BY LegsByType
<1>2. PICK u \in EntryTypes :
          m \in LegPair(0, u, i, Debited(u, r), Credited(u, r), Stored(r.amount), KeyOf(u, i))
  BY LegsByType
<1>3. l.entry_type = t /\ m.entry_type = u
  BY <1>1, <1>2 DEF LegPair
<1>4. t = u
  BY <1>3
<1>5. PICK d, c, a, k : d = Debited(t, r) /\ c = Credited(t, r) /\ a = Stored(r.amount) /\ k = KeyOf(t, i)
  OBVIOUS
<1>6. l \in LegPair(0, t, i, d, c, a, k) /\ m \in LegPair(0, t, i, d, c, a, k)
  BY <1>1, <1>2, <1>4, <1>5
<1> QED
  BY <1>6 DEF LegPair

\* The amount in the rows of an event.
RowAmount(ev) == Stored(PayloadAmount(ev))

\* The row that shows a leg because of an event.
ShowRow(ev, l) ==
    [event |-> ev, account |-> l.account, direction |-> l.direction, amount |-> RowAmount(ev),
     entry_type |-> l.entry_type]

\* A leg the history may show.
Visible(l) == l.account \in Accounts \/ l.entry_type = "transfer"

\* A leg that an event tells of, with the row that shows it.
ShownBy(ev, r, x) ==
    \E l \in AllLegs(ev.ref, r) : Visible(l) /\ Tells(ev, l) /\ x = ShowRow(ev, l)

\* An event tells of the two legs of its entry type, if they are visible.
LEMMA ShownByType ==
    ASSUME NEW ev, NEW r \in Records, NEW t \in EntryTypes, ev.type = ToldBy[t],
           Supports(r, ToldBy[t]), NEW x
    PROVE  ShownBy(ev, r, x) <=>
               \/ /\ Debited(t, r) \in Accounts \/ t = "transfer"
                  /\ x = [event |-> ev, account |-> Debited(t, r), direction |-> "debit",
                          amount |-> RowAmount(ev), entry_type |-> t]
               \/ /\ Credited(t, r) \in Accounts \/ t = "transfer"
                  /\ x = [event |-> ev, account |-> Credited(t, r), direction |-> "credit",
                          amount |-> RowAmount(ev), entry_type |-> t]
<1>1. PICK i, d, c, m : i = ev.ref /\ d = Debited(t, r) /\ c = Credited(t, r) /\ m = RowAmount(ev)
  OBVIOUS
<1>2. \A l \in AllLegs(i, r) :
          /\ l.reference_id = i /\ l.entry_type \in EntryTypes
          /\ l.direction \in {"debit", "credit"}
          /\ l.entry_type = t => l.account = IF l.direction = "debit" THEN d ELSE c
  BY <1>1, LegFields
<1>3. \A u \in EntryTypes : ToldBy[u] = ToldBy[t] => u = t
  BY ToldByDef DEF EntryTypes
<1>4. PICK ld \in AllLegs(i, r) : ld.entry_type = t /\ ld.direction = "debit"
  BY <1>1, LegExists
<1>5. PICK lc \in AllLegs(i, r) : lc.entry_type = t /\ lc.direction = "credit"
  BY <1>1, LegExists
<1>6. \A l \in AllLegs(i, r) : Tells(ev, l) <=> l.entry_type = t
  BY <1>1, <1>2, <1>3 DEF Tells
<1> DEFINE D == [event |-> ev, account |-> d, direction |-> "debit", amount |-> m, entry_type |-> t]
           C == [event |-> ev, account |-> c, direction |-> "credit", amount |-> m, entry_type |-> t]
           Seen(a) == a \in Accounts \/ t = "transfer"
<1>7. \A l \in AllLegs(i, r) : l.entry_type = t =>
          /\ Visible(l) <=> Seen(l.account)
          /\ l.direction = "debit" => l.account = d /\ ShowRow(ev, l) = D
          /\ l.direction = "credit" => l.account = c /\ ShowRow(ev, l) = C
  BY <1>1, <1>2 DEF ShowRow, Visible
<1> HIDE DEF D, C, Seen
<1>8. ShownBy(ev, r, x) => (Seen(d) /\ x = D) \/ (Seen(c) /\ x = C)
  BY <1>1, <1>2, <1>6, <1>7 DEF ShownBy
<1>9. Seen(d) /\ x = D => ShownBy(ev, r, x)
  BY <1>1, <1>4, <1>6, <1>7 DEF ShownBy
<1>10. Seen(c) /\ x = C => ShownBy(ev, r, x)
  BY <1>1, <1>5, <1>6, <1>7 DEF ShownBy
<1> QED
  BY <1>1, <1>8, <1>9, <1>10 DEF D, C, Seen

\* process() makes a row of every visible leg that the event tells of, and no other.
LEMMA RowsAreLegs ==
    ASSUME NEW ev, NEW r, r = record[ev.ref], r \in Records, Supports(r, ev.type), NEW x
    PROVE  x \in RowsOf(ev) <=> ShownBy(ev, r, x)
<1>1. Sound(r) /\ SYSTEM \notin Accounts
  BY RecordsSound, SystemAssumption
<1>2. \A a, dir, t : Row(ev, a, dir, t) = [event |-> ev, account |-> a, direction |-> dir,
                                           amount |-> RowAmount(ev), entry_type |-> t]
  BY DEF Row, RowAmount
<1>3. \A t : t # "withdrawal_reversal" => Debited(t, r) = r.from /\ Credited(t, r) = r.to
  BY DEF Debited, Credited
<1>4. CASE ev.type = "transfer.completed"
  <2>1. "transfer" \in EntryTypes /\ ev.type = ToldBy["transfer"] /\ Supports(r, ToldBy["transfer"])
    BY <1>4, ToldByDef DEF EntryTypes
  <2>3. ShownBy(ev, r, x) <=> \/ x = Row(ev, r.from, "debit", "transfer")
                              \/ x = Row(ev, r.to, "credit", "transfer")
    BY <1>2, <1>3, <2>1, ShownByType
  <2> QED
    BY <1>4, <2>3 DEF RowsOf
<1>5. CASE ev.type = "seed.completed"
  <2>1. "seed" \in EntryTypes /\ ev.type = ToldBy["seed"] /\ Supports(r, ToldBy["seed"])
    BY <1>5, ToldByDef DEF EntryTypes
  <2>2. r.from = SYSTEM /\ r.to \in Accounts
    BY <1>1, <1>5 DEF Sound, Supports
  <2>3. ShownBy(ev, r, x) <=> x = Row(ev, r.to, "credit", "seed")
    BY <1>1, <1>2, <1>3, <2>1, <2>2, ShownByType
  <2> QED
    BY <1>5, <2>3 DEF RowsOf
<1>6. CASE ev.type = "deposit.completed"
  <2>1. "deposit" \in EntryTypes /\ ev.type = ToldBy["deposit"] /\ Supports(r, ToldBy["deposit"])
    BY <1>6, ToldByDef DEF EntryTypes
  <2>2. r.from = SYSTEM /\ r.to \in Accounts
    BY <1>1, <1>6 DEF Sound, Supports
  <2>3. ShownBy(ev, r, x) <=> x = Row(ev, r.to, "credit", "deposit")
    BY <1>1, <1>2, <1>3, <2>1, <2>2, ShownByType
  <2> QED
    BY <1>6, <2>3 DEF RowsOf
<1>7. CASE ev.type = "withdrawal.initiated"
  <2>1. /\ "withdrawal" \in EntryTypes /\ ev.type = ToldBy["withdrawal"]
        /\ Supports(r, ToldBy["withdrawal"])
    BY <1>7, ToldByDef DEF EntryTypes
  <2>2. r.from \in Accounts /\ r.to = SYSTEM
    BY <1>1, <1>7 DEF Sound, Supports
  <2>3. ShownBy(ev, r, x) <=> x = Row(ev, r.from, "debit", "withdrawal")
    BY <1>1, <1>2, <1>3, <2>1, <2>2, ShownByType
  <2> QED
    BY <1>7, <2>3 DEF RowsOf
<1>8. CASE ev.type = "withdrawal.failed"
  <2>1. /\ "withdrawal_reversal" \in EntryTypes /\ ev.type = ToldBy["withdrawal_reversal"]
        /\ Supports(r, ToldBy["withdrawal_reversal"])
    BY <1>8, ToldByDef DEF EntryTypes
  <2>2. r.from \in Accounts /\ r.to = SYSTEM
    BY <1>1, <1>8 DEF Sound, Supports
  <2>3. Debited("withdrawal_reversal", r) = r.to /\ Credited("withdrawal_reversal", r) = r.from
    BY DEF Debited, Credited
  <2>4. ShownBy(ev, r, x) <=> x = Row(ev, r.from, "credit", "withdrawal_reversal")
    BY <1>1, <1>2, <2>1, <2>2, <2>3, ShownByType
  <2> QED
    BY <1>8, <2>4 DEF RowsOf
<1>9. CASE ev.type \notin {"transfer.completed", "seed.completed", "deposit.completed",
                           "withdrawal.initiated", "withdrawal.failed"}
  <2>1. RowsOf(ev) = {}
    BY <1>9 DEF RowsOf
  <2>2. \A t \in EntryTypes : ToldBy[t] # ev.type
    BY <1>9, ToldByDef DEF EntryTypes
  <2>3. ~ShownBy(ev, r, x)
    BY <2>2, LegFields DEF ShownBy, Tells
  <2> QED
    BY <2>1, <2>3
<1> QED
  BY <1>4, <1>5, <1>6, <1>7, <1>8, <1>9

\* The rows of an event are for different accounts.
LEMMA OneRowEach ==
    ASSUME NEW ev, NEW r, r = record[ev.ref], r \in Records, Supports(r, ev.type),
           NEW x \in RowsOf(ev), NEW y \in RowsOf(ev), x # y
    PROVE  x.account # y.account
<1>1. PICK l \in AllLegs(ev.ref, r) : Tells(ev, l) /\ x = ShowRow(ev, l)
  BY RowsAreLegs DEF ShownBy
<1>2. PICK m \in AllLegs(ev.ref, r) : Tells(ev, m) /\ y = ShowRow(ev, m)
  BY RowsAreLegs DEF ShownBy
<1>3. /\ l.entry_type \in EntryTypes /\ l.direction \in {"debit", "credit"}
      /\ l.account = IF l.direction = "debit" THEN Debited(l.entry_type, r)
                                              ELSE Credited(l.entry_type, r)
  BY LegFields
<1>4. /\ m.entry_type \in EntryTypes /\ m.direction \in {"debit", "credit"}
      /\ m.account = IF m.direction = "debit" THEN Debited(m.entry_type, r)
                                              ELSE Credited(m.entry_type, r)
  BY LegFields
<1>5. l.entry_type = m.entry_type
  <2>1. \A t, u \in EntryTypes : ToldBy[u] = ToldBy[t] => u = t
    BY ToldByDef DEF EntryTypes
  <2> QED
    BY <1>1, <1>2, <1>3, <1>4, <2>1 DEF Tells
<1>6. l.direction # m.direction
  <2>1. l # m
    BY <1>1, <1>2
  <2> QED
    BY <1>5, <2>1, LegUnique
<1>7. Debited(l.entry_type, r) # Credited(l.entry_type, r)
  <2>1. Sound(r) /\ SYSTEM \notin Accounts
    BY RecordsSound, SystemAssumption
  <2>2. r.from # r.to
    BY <2>1 DEF Sound
  <2> QED
    BY <2>2 DEF Debited, Credited
<1>8. x.account = l.account /\ y.account = m.account
  BY <1>1, <1>2 DEF ShowRow
<1> QED
  BY <1>3, <1>4, <1>5, <1>6, <1>7, <1>8

-----------------------------------------------------------------------------
(* The inductive invariant *)

\* The types of what is not explained by the other parts.
TablesTyped ==
    /\ opened \subseteq Accounts
    /\ record \in [Ids -> Records \cup {NoRecord}]
    /\ outbox \subseteq Events
    /\ bpc \in {"idle"} \cup DOMAIN Sections
    /\ todo \subseteq (IF bpc = "accounts" THEN Accounts ELSE Ids)
    /\ backfills \in 0..MaxBackfills /\ finished \in BOOLEAN

\* What the loops of the backfill have still to do are records of their section.
TodoInv ==
    /\ bpc \in {"idle", "guarded"} => todo = {}
    /\ bpc = "transfers" => \A x \in todo : record[x].kind = "transfer"
    /\ bpc = "seeds" => \A x \in todo : record[x].kind = "seed"

\* An event is about a record that supports it.
SentInv ==
    \A ev \in sent : /\ ev \in Events /\ ev.ref \in Ids
                     /\ record[ev.ref] \in Records /\ Supports(record[ev.ref], ev.type)

\* The records there are.
Existing == { i \in Ids : record[i] \in Records }

\* The ledger is what the records say.
LedgerInv == ledger = UNION { AllLegs(i, record[i]) : i \in Existing }

\* The history is what the handled events tell of the ledger.
HistoryInv ==
    /\ handled \subseteq sent /\ IsFiniteSet(handled)
    /\ activity = UNION { { ShowRow(ev, l) : l \in { m \in VisibleLegs : Tells(ev, m) } }
                          : ev \in handled }

\* All of it.
HistoryIInv == TablesTyped /\ TodoInv /\ SentInv /\ LedgerInv /\ HistoryInv

\* A service enters a record.
Entered(i, r) ==
    /\ record[i] = NoRecord
    /\ r.kind = "withdrawal" => r.status = "pending"
    /\ record' = [record EXCEPT ![i] = r]
    /\ ledger' = ledger \cup LegsFor(i, r)
    /\ sent' = sent \cup {ServiceEvent(r, i)}
    /\ UNCHANGED <<opened, outbox, handled, activity, backfillVars>>

\* A withdrawal comes to its end.
Settled(i, q) ==
    /\ record[i].kind = "withdrawal" /\ record[i].status = "pending"
    /\ record' = [record EXCEPT ![i] = q]
    /\ ledger' = ledger \cup
           IF q.status = "failed"
           THEN LegPair(0, "withdrawal_reversal", i, q.to, q.from, Stored(q.amount), <<"reversal", i>>)
           ELSE {}
    /\ \E o \in {"service", "recovery"} : /\ o = "recovery" => q.status = "failed"
                                          /\ sent' = sent \cup {EventOf(o, q, i)}
    /\ UNCHANGED <<opened, outbox, handled, activity, backfillVars>>

\* A withdrawal with a status that ends it.
Ends(q, r) ==
    /\ q \in Records /\ q.kind = "withdrawal" /\ q.status \in {"completed", "failed"}
    /\ q.from = r.from /\ q.to = r.to /\ q.amount = r.amount

\* What a step can do.
LEMMA StepCases ==
    ASSUME TablesTyped, [Next]_vars
    PROVE  \/ \E i \in Ids, r \in Records : Entered(i, r)
           \/ \E i \in Ids, q \in Records : record[i] \in Records /\ Ends(q, record[i]) /\ Settled(i, q)
           \/ \E ev \in sent : Consume(ev)
           \/ \E x \in todo : Emit(x)
           \/ /\ UNCHANGED <<record, ledger, sent, handled, activity>>
              /\ \/ \E a \in Accounts : OpenAccount(a)
                 \/ CleanUp \/ (\E force \in BOOLEAN : StartBackfill(force))
                 \/ NextSection \/ AbortBackfill \/ UNCHANGED vars
<1>1. ASSUME NEW i \in Ids, NEW r \in Records, Enter(i, r), r.kind = "withdrawal" => r.status = "pending"
      PROVE  Entered(i, r)
  <2>1. ServiceEvent(r, i).type # "account.opened"
    BY ReportsSupported DEF ServiceEvent, EventOf
  <2> QED
    BY <1>1, <2>1 DEF Enter, Unused, Publish, Entered
<1>2. ASSUME NEW i \in Ids, NEW r \in Records,
             Seed(i, r) \/ Transfer(i, r) \/ Deposit(i, r) \/ InitiateWithdrawal(i, r)
      PROVE  Entered(i, r)
  BY <1>1, <1>2 DEF Seed, Transfer, Deposit, InitiateWithdrawal
<1>3. ASSUME NEW i \in Ids, NEW o \in {"service", "recovery"},
             CompleteWithdrawal(i) \/ FailWithdrawal(i, o)
      PROVE  \E q \in Records : record[i] \in Records /\ Ends(q, record[i]) /\ Settled(i, q)
  <2>1. record[i] \in Records /\ record[i].kind = "withdrawal" /\ record[i].status = "pending"
    BY <1>3, RecordsSound DEF CompleteWithdrawal, FailWithdrawal, TablesTyped
  <2>2. CASE CompleteWithdrawal(i)
    <3>1. PICK q : q = [record[i] EXCEPT !.status = "completed"]
      OBVIOUS
    <3>2. q \in Records /\ Ends(q, record[i]) /\ q.status = "completed"
      BY <2>1, <3>1, StatusSet DEF Ends
    <3>3. EventOf("service", q, i).type # "account.opened"
      BY <3>2, ReportsSupported DEF EventOf, Ends
    <3>4. Settled(i, q)
      BY <2>2, <3>1, <3>2, <3>3 DEF CompleteWithdrawal, Publish, Settled, ServiceEvent
    <3> QED
      BY <2>1, <3>2, <3>4
  <2>3. CASE FailWithdrawal(i, o)
    <3>1. PICK q : q = [record[i] EXCEPT !.status = "failed"]
      OBVIOUS
    <3>2. q \in Records /\ Ends(q, record[i]) /\ q.status = "failed"
      BY <2>1, <3>1, StatusSet DEF Ends
    <3>3. EventOf(o, q, i).type # "account.opened"
      BY <3>2, ReportsSupported DEF EventOf, Ends
    <3>4. Settled(i, q)
      BY <2>3, <3>1, <3>2, <3>3 DEF FailWithdrawal, Publish, Settled
    <3> QED
      BY <2>1, <3>2, <3>4
  <2> QED
    BY <1>3, <2>2, <2>3
<1>4. ASSUME NEW a \in Accounts, OpenAccount(a)
      PROVE  UNCHANGED <<record, ledger, sent, handled, activity>>
  BY <1>4 DEF OpenAccount, Publish
<1>5. ASSUME CleanUp \/ (\E force \in BOOLEAN : StartBackfill(force)) \/ NextSection
             \/ AbortBackfill \/ UNCHANGED vars
      PROVE  UNCHANGED <<record, ledger, sent, handled, activity>>
  BY <1>5 DEF CleanUp, StartBackfill, NextSection, AbortBackfill, vars, tables
<1>6. Unused \subseteq Ids
  BY DEF Unused
<1>7. CASE Next
  BY <1>2, <1>3, <1>4, <1>5, <1>6, <1>7 DEF Next
<1> QED
  BY <1>5, <1>7

-----------------------------------------------------------------------------
(* Every step keeps it *)

\* Records are entered once, and only withdrawals change, in their status.
LEMMA RecordSteps ==
    ASSUME TablesTyped, [Next]_vars
    PROVE  /\ record' \in [Ids -> Records \cup {NoRecord}]
           /\ \A i \in Ids : record[i] \in Records =>
                  /\ record'[i] \in Records /\ record'[i].kind = record[i].kind
                  /\ record[i].kind # "withdrawal" => record'[i] = record[i]
                  /\ record'[i].amount = record[i].amount
                  /\ \A t : Supports(record[i], t) => Supports(record'[i], t)
<1>1. ASSUME NEW i \in Ids, NEW r \in Records, Entered(i, r)
      PROVE  /\ record' \in [Ids -> Records \cup {NoRecord}]
             /\ \A j \in Ids : record[j] \in Records => record'[j] = record[j]
  <2>1. record' = [record EXCEPT ![i] = r] /\ record[i] \notin Records
    BY <1>1, RecordsSound DEF Entered
  <2> QED
    BY <2>1 DEF TablesTyped
<1>2. ASSUME NEW i \in Ids, NEW q, record[i] \in Records, Ends(q, record[i]), Settled(i, q)
      PROVE  /\ record' \in [Ids -> Records \cup {NoRecord}]
             /\ record'[i] = q /\ \A j \in Ids : j # i => record'[j] = record[j]
             /\ \A t : Supports(record[i], t) => Supports(q, t)
             /\ record[i].kind = "withdrawal" /\ q.kind = "withdrawal" /\ q \in Records
             /\ q.amount = record[i].amount
  <2>1. record' = [record EXCEPT ![i] = q] /\ q \in Records /\ q.amount = record[i].amount
    BY <1>2 DEF Settled, Ends
  <2>2. record[i].kind = "withdrawal" /\ record[i].status = "pending" /\ q.kind = "withdrawal"
    BY <1>2 DEF Settled, Ends
  <2>3. \A t : Supports(record[i], t) => Supports(q, t)
    BY <2>2 DEF Supports
  <2> QED
    BY <2>1, <2>2, <2>3 DEF TablesTyped
<1>3. ASSUME UNCHANGED record
      PROVE  /\ record' \in [Ids -> Records \cup {NoRecord}]
             /\ \A j \in Ids : record[j] \in Records => record'[j] = record[j]
  BY <1>3 DEF TablesTyped
<1>4. ASSUME (\E ev \in sent : Consume(ev)) \/ (\E x \in todo : Emit(x)) PROVE UNCHANGED record
  BY <1>4 DEF Consume, Emit, tables
<1>5. CASE /\ record' \in [Ids -> Records \cup {NoRecord}]
           /\ \A j \in Ids : record[j] \in Records => record'[j] = record[j]
  BY <1>5
<1>6. CASE \E i \in Ids, q \in Records : record[i] \in Records /\ Ends(q, record[i]) /\ Settled(i, q)
  <2>1. PICK i \in Ids, q \in Records : record[i] \in Records /\ Ends(q, record[i]) /\ Settled(i, q)
    BY <1>6
  <2>2. /\ record' \in [Ids -> Records \cup {NoRecord}]
        /\ record'[i] = q /\ \A j \in Ids : j # i => record'[j] = record[j]
        /\ \A t : Supports(record[i], t) => Supports(q, t)
        /\ record[i].kind = "withdrawal" /\ q.kind = "withdrawal" /\ q \in Records
        /\ q.amount = record[i].amount
    BY <1>2, <2>1
  <2>3. ASSUME NEW j \in Ids, record[j] \in Records
        PROVE  /\ record'[j] \in Records /\ record'[j].kind = record[j].kind
               /\ record[j].kind # "withdrawal" => record'[j] = record[j]
               /\ record'[j].amount = record[j].amount
               /\ \A t : Supports(record[j], t) => Supports(record'[j], t)
    <3>1. CASE j = i
      BY <2>2, <3>1
    <3>2. CASE j # i
      BY <2>2, <2>3, <3>2
    <3> QED
      BY <3>1, <3>2
  <2> QED
    BY <2>2, <2>3
<1> QED
  BY <1>1, <1>3, <1>4, <1>5, <1>6, StepCases

\* The fields of an event, and its type.
LEMMA EventFields ==
    /\ \A i \in Ids, r \in Records, o \in {"service", "recovery"} :
           /\ EventOf(o, r, i) \in Events /\ EventOf(o, r, i).ref = i
           /\ EventOf(o, r, i).type = Reports(r) /\ EventOf(o, r, i).origin = o
    /\ \A i \in Ids, r \in Records :
           /\ BackfillEvent(Reports(r), i) \in Events /\ BackfillEvent(Reports(r), i).ref = i
           /\ BackfillEvent(Reports(r), i).type = Reports(r)
           /\ BackfillEvent(Reports(r), i).origin = "backfill"
    /\ \A a \in Accounts : BackfillEvent("account.opened", a) \in Events
<1>1. \A r \in Records : Reports(r) \in EventTypes
  BY ReportsSupported
<1>2. "account.opened" \in EventTypes
  BY DEF EventTypes
<1> QED
  BY <1>1, <1>2 DEF EventOf, BackfillEvent, Events

\* What the backfill writes in a round.
LEMMA EmitCases ==
    ASSUME TablesTyped, TodoInv, NEW x \in todo, Emit(x)
    PROVE  /\ todo' = todo \ {x}
           /\ UNCHANGED <<opened, record, ledger, handled, activity, bpc, backfills, finished>>
           /\ \/ /\ bpc = "accounts" /\ outbox' = outbox \cup {BackfillEvent("account.opened", x)}
                 /\ x \in Accounts /\ sent' = sent
              \/ /\ bpc \in {"transfers", "seeds"} /\ x \in Ids /\ record[x] \in Records
                 /\ sent' = sent \cup {BackfillEvent(Reports(record[x]), x)} /\ outbox' = outbox
<1>1. /\ todo' = todo \ {x}
      /\ UNCHANGED <<opened, record, ledger, handled, activity, bpc, backfills, finished>>
  BY DEF Emit, tables
<1>2. CASE bpc = "accounts"
  <2>1. x \in Accounts
    BY <1>2 DEF TablesTyped
  <2>2. BackfillEvent("account.opened", x).type = "account.opened"
    BY DEF BackfillEvent
  <2>3. outbox' = outbox \cup {BackfillEvent("account.opened", x)} /\ sent' = sent
    BY <1>2, <2>2 DEF Emit, Publish
  <2> QED
    BY <1>1, <1>2, <2>1, <2>3
<1>3. CASE bpc # "accounts"
  <2>5. DOMAIN Sections = {"guarded", "accounts", "transfers", "seeds"}
    BY DEF Sections
  <2>6. bpc \in {"idle", "guarded", "transfers", "seeds"} /\ x \in Ids
    BY <1>3, <2>5 DEF TablesTyped
  <2>1. bpc \in {"transfers", "seeds"} /\ x \in Ids /\ record[x].kind \in {"transfer", "seed"}
    BY <2>6 DEF TodoInv
  <2>2. record[x] \in Records
    BY <2>1, RecordsSound DEF TablesTyped
  <2>3. BackfillEvent(Reports(record[x]), x).type # "account.opened"
    BY <2>2, ReportsSupported DEF BackfillEvent
  <2>4. sent' = sent \cup {BackfillEvent(Reports(record[x]), x)} /\ outbox' = outbox
    BY <1>3, <2>3 DEF Emit, Publish
  <2> QED
    BY <1>1, <2>1, <2>2, <2>4
<1> QED
  BY <1>2, <1>3

\* Events stay supported.
LEMMA SentStep ==
    ASSUME TablesTyped, TodoInv, SentInv, [Next]_vars
    PROVE  SentInv'
<1>1. ASSUME NEW ev \in sent
      PROVE  /\ ev \in Events /\ ev.ref \in Ids
             /\ record'[ev.ref] \in Records /\ Supports(record'[ev.ref], ev.type)
  <2>1. /\ ev \in Events /\ ev.ref \in Ids
        /\ record[ev.ref] \in Records /\ Supports(record[ev.ref], ev.type)
    BY <1>1 DEF SentInv
  <2> QED
    BY <2>1, RecordSteps
<1>2. ASSUME NEW i \in Ids, NEW r \in Records, NEW ev, ev.ref = i, ev.type = Reports(r), ev \in Events,
             record' = [record EXCEPT ![i] = r], sent' = sent \cup {ev}
      PROVE  SentInv'
  <2>1. record'[i] = r
    BY <1>2 DEF TablesTyped
  <2>2. Supports(r, Reports(r))
    BY ReportsSupported
  <2> QED
    BY <1>1, <1>2, <2>1, <2>2 DEF SentInv
<1>3. ASSUME NEW i \in Ids, NEW r \in Records, Entered(i, r) PROVE SentInv'
  <2>1. PICK ev : ev = ServiceEvent(r, i)
    OBVIOUS
  <2>2. ev.ref = i /\ ev.type = Reports(r) /\ ev \in Events
    BY <2>1, EventFields DEF ServiceEvent
  <2> QED
    BY <1>2, <1>3, <2>1, <2>2 DEF Entered
<1>4. ASSUME NEW i \in Ids, NEW q, Ends(q, record[i]), Settled(i, q) PROVE SentInv'
  <2>1. PICK o \in {"service", "recovery"} : sent' = sent \cup {EventOf(o, q, i)}
    BY <1>4 DEF Settled
  <2>4. PICK ev : ev = EventOf(o, q, i)
    OBVIOUS
  <2>2. q \in Records /\ ev.ref = i /\ ev.type = Reports(q) /\ ev \in Events
    BY <1>4, <2>4, EventFields DEF Ends
  <2>3. record' = [record EXCEPT ![i] = q] /\ sent' = sent \cup {ev}
    BY <1>4, <2>1, <2>4 DEF Settled
  <2> QED
    BY <1>2, <2>2, <2>3
<1>5. ASSUME UNCHANGED sent PROVE SentInv'
  BY <1>1, <1>5 DEF SentInv
<1>6. ASSUME NEW x \in todo, Emit(x) PROVE SentInv'
  <2>1. CASE sent' = sent
    BY <1>5, <2>1
  <2>2. CASE /\ x \in Ids /\ record[x] \in Records
             /\ sent' = sent \cup {BackfillEvent(Reports(record[x]), x)}
    <3>1. PICK r, ev : r = record[x] /\ ev = BackfillEvent(Reports(record[x]), x)
      OBVIOUS
    <3>2. r \in Records /\ ev.ref = x /\ ev.type = Reports(r) /\ ev \in Events
      BY <2>2, <3>1, EventFields
    <3>3. record' = [record EXCEPT ![x] = r]
      <4>1. record' = record
        BY <1>6 DEF Emit, tables
      <4> QED
        BY <3>1, <4>1 DEF TablesTyped
    <3> QED
      BY <1>2, <2>2, <3>1, <3>2, <3>3
  <2> QED
    BY <1>6, <2>1, <2>2, EmitCases
<1>7. ASSUME NEW ev \in sent, Consume(ev) PROVE UNCHANGED sent
  BY <1>7 DEF Consume
<1> QED
  BY <1>3, <1>4, <1>5, <1>6, <1>7, StepCases

\* LedgerInv, one leg at a time.
LEMMA LedgerMembers ==
    ASSUME LedgerInv, NEW l
    PROVE  l \in ledger <=> \E i \in Ids : record[i] \in Records /\ l \in AllLegs(i, record[i])
BY DEF LedgerInv, Existing

\* The ledger follows the records.
LEMMA LedgerStep ==
    ASSUME TablesTyped, TodoInv, LedgerInv, [Next]_vars
    PROVE  LedgerInv'
<1>1. SUFFICES \A l : l \in ledger' <=>
                   \E i \in Ids : record'[i] \in Records /\ l \in AllLegs(i, record'[i])
  BY <1>1 DEF LedgerInv, Existing
<1>2. \A l : l \in ledger <=> \E i \in Ids : record[i] \in Records /\ l \in AllLegs(i, record[i])
  BY LedgerMembers
<1>3. ASSUME NEW i \in Ids, NEW r \in Records, NEW new,
             record' = [record EXCEPT ![i] = r], ledger' = ledger \cup new,
             \A l : l \in AllLegs(i, r) <=>
                        l \in new \/ (record[i] \in Records /\ l \in AllLegs(i, record[i]))
      PROVE  \A l : l \in ledger' <=>
                 \E j \in Ids : record'[j] \in Records /\ l \in AllLegs(j, record'[j])
  <2>1. record'[i] = r /\ \A j \in Ids : j # i => record'[j] = record[j]
    BY <1>3 DEF TablesTyped
  <2> QED
    BY <1>2, <1>3, <2>1
<1>4. ASSUME NEW i \in Ids, NEW r \in Records, Entered(i, r)
      PROVE  \A l : l \in ledger' <=>
                 \E j \in Ids : record'[j] \in Records /\ l \in AllLegs(j, record'[j])
  <2>1. record[i] \notin Records
    BY <1>4, RecordsSound DEF Entered
  <2>2. AllLegs(i, r) = LegsFor(i, r)
    BY <1>4 DEF Entered, AllLegs
  <2> QED
    BY <1>3, <1>4, <2>1, <2>2 DEF Entered
<1>5. ASSUME NEW i \in Ids, NEW q, record[i] \in Records, Ends(q, record[i]), Settled(i, q)
      PROVE  \A l : l \in ledger' <=>
                 \E j \in Ids : record'[j] \in Records /\ l \in AllLegs(j, record'[j])
  <2>1. PICK new : new = IF q.status = "failed"
                         THEN LegPair(0, "withdrawal_reversal", i, q.to, q.from, Stored(q.amount), <<"reversal", i>>)
                         ELSE {}
    OBVIOUS
  <2>2. /\ q \in Records /\ q.kind = "withdrawal" /\ record[i].kind = "withdrawal"
        /\ record[i].status = "pending"
        /\ q.from = record[i].from /\ q.to = record[i].to /\ q.amount = record[i].amount
    BY <1>5 DEF Ends, Settled
  <2>3. LegsFor(i, q) = LegsFor(i, record[i])
    BY <2>2 DEF LegsFor
  <2>4. AllLegs(i, q) = LegsFor(i, q) \cup new /\ AllLegs(i, record[i]) = LegsFor(i, record[i])
    BY <2>1, <2>2 DEF AllLegs
  <2>5. record' = [record EXCEPT ![i] = q] /\ ledger' = ledger \cup new
    BY <1>5, <2>1 DEF Settled
  <2> QED
    BY <1>3, <1>5, <2>2, <2>3, <2>4, <2>5
<1>6. ASSUME UNCHANGED <<record, ledger>>
      PROVE  \A l : l \in ledger' <=>
                 \E j \in Ids : record'[j] \in Records /\ l \in AllLegs(j, record'[j])
  BY <1>2, <1>6
<1>7. ASSUME (\E ev \in sent : Consume(ev)) \/ (\E x \in todo : Emit(x)) PROVE UNCHANGED <<record, ledger>>
  BY <1>7 DEF Consume, Emit, tables
<1> QED
  BY <1>4, <1>5, <1>6, <1>7, StepCases

\* Legs stay, and no event was sent about one before it was posted.
LEMMA NewLegsUntold ==
    ASSUME TablesTyped, SentInv, [Next]_vars
    PROVE  /\ ledger \subseteq ledger'
           /\ \A ev \in sent, l \in ledger' : Tells(ev, l) => l \in ledger
<1>1. ASSUME NEW i \in Ids, NEW r \in Records, Entered(i, r), NEW ev \in sent, NEW l \in LegsFor(i, r)
      PROVE  ~Tells(ev, l)
  <2>1. l \in AllLegs(i, r)
    BY <1>1 DEF AllLegs
  <2>2. l.reference_id = i
    BY <2>1, LegFields
  <2>3. ev.ref # i
    BY <1>1, RecordsSound DEF SentInv, Entered
  <2> QED
    BY <2>2, <2>3 DEF Tells
<1>2. ASSUME NEW i \in Ids, NEW q, record[i] \in Records, Settled(i, q), NEW ev \in sent,
             NEW l \in LegPair(0, "withdrawal_reversal", i, q.to, q.from, Stored(q.amount), <<"reversal", i>>)
      PROVE  ~Tells(ev, l)
  <2>1. l.reference_id = i /\ l.entry_type = "withdrawal_reversal"
    BY <1>2 DEF LegPair
  <2>2. ToldBy["withdrawal_reversal"] = "withdrawal.failed"
    BY ToldByDef
  <2>3. ev.ref = i => ev.type # "withdrawal.failed"
    <3>1. ~Supports(record[i], "withdrawal.failed")
      BY <1>2 DEF Settled, Supports
    <3> QED
      BY <1>2, <3>1 DEF SentInv
  <2> QED
    BY <2>1, <2>2, <2>3 DEF Tells
<1>3. ASSUME (\E ev \in sent : Consume(ev)) \/ (\E x \in todo : Emit(x)) PROVE UNCHANGED ledger
  BY <1>3 DEF Consume, Emit, tables
<1>4. CASE UNCHANGED ledger
  BY <1>4
<1>5. CASE \E i \in Ids, r \in Records : Entered(i, r)
  BY <1>1, <1>5 DEF Entered
<1>6. CASE \E i \in Ids, q \in Records : record[i] \in Records /\ Ends(q, record[i]) /\ Settled(i, q)
  <2>1. PICK i \in Ids, q \in Records : record[i] \in Records /\ Settled(i, q)
    BY <1>6
  <2>2. PICK new : new = LegPair(0, "withdrawal_reversal", i, q.to, q.from, Stored(q.amount), <<"reversal", i>>)
    OBVIOUS
  <2>3. ledger' = ledger \/ ledger' = ledger \cup new
    BY <2>1, <2>2 DEF Settled
  <2>4. \A ev \in sent, l \in new : ~Tells(ev, l)
    BY <1>2, <2>1, <2>2
  <2> QED
    BY <2>3, <2>4
<1> QED
  BY <1>3, <1>4, <1>5, <1>6, StepCases

\* HistoryInv, one row at a time.
Recorded(x) == \E ev \in handled : \E l \in VisibleLegs : Tells(ev, l) /\ x = ShowRow(ev, l)

\* The two forms agree.
LEMMA HistoryMembers ==
    HistoryInv <=> /\ handled \subseteq sent /\ IsFiniteSet(handled)
                   /\ \A x : x \in activity <=> Recorded(x)
BY DEF HistoryInv, Recorded

\* In the ledger, too, the rows of an event show the visible legs it tells of.
LEMMA RowsOfLedger ==
    ASSUME SentInv, LedgerInv, NEW ev \in sent, NEW x
    PROVE  x \in RowsOf(ev) <=> \E l \in VisibleLegs : Tells(ev, l) /\ x = ShowRow(ev, l)
<1>1. PICK i, r : i = ev.ref /\ r = record[ev.ref]
  OBVIOUS
<1>2. i \in Ids /\ r \in Records /\ Supports(r, ev.type) /\ r = record[i]
  BY <1>1 DEF SentInv
<1>3. x \in RowsOf(ev) <=> ShownBy(ev, r, x)
  BY <1>1, <1>2, RowsAreLegs
<1>4. \A l : l \in ledger <=> \E j \in Ids : record[j] \in Records /\ l \in AllLegs(j, record[j])
  BY LedgerMembers
<1>5. \A l : l \in AllLegs(i, r) => l \in ledger
  BY <1>2, <1>4
<1>6. ASSUME NEW l \in ledger, Tells(ev, l) PROVE l \in AllLegs(i, r)
  <2>1. PICK j \in Ids : record[j] \in Records /\ l \in AllLegs(j, record[j])
    BY <1>4
  <2>2. l.reference_id = j
    BY <2>1, LegFields
  <2> QED
    BY <1>1, <1>6, <2>1, <2>2 DEF Tells
<1> QED
  BY <1>1, <1>3, <1>5, <1>6 DEF ShownBy, Visible, VisibleLegs

\* An event tells of something exactly when it is about money.
LEMMA MoneyTold ==
    ASSUME NEW ev
    PROVE  /\ AboutMoney(ev) <=> \E t \in EntryTypes : ToldBy[t] = ev.type
           /\ ~AboutMoney(ev) => RowsOf(ev) = {}
<1>1. AboutMoney(ev) <=> \E t \in EntryTypes : ToldBy[t] = ev.type
  BY ToldByDef DEF AboutMoney
<1>2. ASSUME \A t \in EntryTypes : ToldBy[t] # ev.type PROVE RowsOf(ev) = {}
  <2>1. ev.type \notin {"transfer.completed", "seed.completed", "deposit.completed",
                        "withdrawal.initiated", "withdrawal.failed"}
    BY <1>2, ToldByDef DEF EntryTypes
  <2> QED
    BY <2>1 DEF RowsOf
<1> QED
  BY <1>1, <1>2

\* The consumer inserts the rows of an event the first time it is handed it, and the
\* constraint keeps them out every other time.
LEMMA ConsumeRows ==
    ASSUME SentInv, LedgerInv, HistoryInv, NEW ev \in sent, Consume(ev)
    PROVE  /\ \A x : x \in activity' <=> x \in activity \/ x \in RowsOf(ev)
           /\ handled' = IF AboutMoney(ev) THEN handled \cup {ev} ELSE handled
<1>1. \A x : x \in activity <=> Recorded(x)
  BY HistoryMembers
<1>2. \A x : x \in RowsOf(ev) <=> \E l \in VisibleLegs : Tells(ev, l) /\ x = ShowRow(ev, l)
  BY RowsOfLedger
<1>3. /\ activity' = IF Duplicate(RowsOf(ev)) THEN activity ELSE activity \cup RowsOf(ev)
      /\ handled' = IF AboutMoney(ev) THEN handled \cup {ev} ELSE handled
  BY DEF Consume
<1>4. CASE ev \in handled
  <2>1. \A x : x \in RowsOf(ev) => x \in activity
    BY <1>1, <1>2, <1>4 DEF Recorded
  <2> QED
    BY <1>3, <2>1
<1>5. CASE ev \notin handled
  <2>1. \A x \in activity : x.event \in handled
    BY <1>1 DEF Recorded, ShowRow
  <2>2. \A x \in RowsOf(ev) : x.event = ev
    BY <1>2 DEF ShowRow
  <2>3. \A x, y \in RowsOf(ev) : x # y => x.account # y.account
    <3>1. PICK r : r = record[ev.ref]
      OBVIOUS
    <3>2. r \in Records /\ Supports(r, ev.type)
      BY <3>1 DEF SentInv
    <3> QED
      BY <3>1, <3>2, OneRowEach
  <2>4. ~Duplicate(RowsOf(ev))
    BY <1>5, <2>1, <2>2, <2>3 DEF Duplicate
  <2> QED
    BY <1>3, <2>4
<1> QED
  BY <1>4, <1>5

\* What an event says of its amount stays as it is.
LEMMA AmountKept ==
    ASSUME TablesTyped, SentInv, [Next]_vars
    PROVE  \A ev \in sent : \A l : ShowRow(ev, l)' = ShowRow(ev, l)
<1>1. ASSUME NEW ev \in sent PROVE record'[ev.ref].amount = record[ev.ref].amount
  <2>1. ev.ref \in Ids /\ record[ev.ref] \in Records
    BY DEF SentInv
  <2> QED
    BY <2>1, RecordSteps
<1>2. \A ev \in sent : RowAmount(ev)' = RowAmount(ev)
  BY <1>1 DEF RowAmount, PayloadAmount
<1> QED
  BY <1>2 DEF ShowRow

\* An event gives the amount of a leg it tells of, or one digit less if a service formatted
\* an amount half way between two.
LEMMA RowAmountNear ==
    ASSUME SentInv, LedgerInv, NEW ev \in sent, NEW l \in ledger, Tells(ev, l)
    PROVE  /\ RowAmount(ev) \in Nat /\ l.amount \in Nat
           /\ \/ RowAmount(ev) = l.amount
              \/ Inexact(l) /\ ev.origin = "service" /\ RowAmount(ev) = l.amount - Digit
<1>1. PICK i, x, t : i = ev.ref /\ x = record[ev.ref].amount /\ t = l.entry_type
  OBVIOUS
<1>2. i \in Ids /\ record[i] \in Records /\ i = l.reference_id
  BY <1>1 DEF SentInv, Tells
<1>3. PICK j \in Ids : record[j] \in Records /\ l \in AllLegs(j, record[j])
  BY LedgerMembers
<1>4. l.reference_id = j /\ l.amount = Stored(record[j].amount) /\ t \in EntryTypes
  BY <1>1, <1>3, LegFields
<1>5. l.amount = Stored(x)
  BY <1>1, <1>2, <1>4
<1>6. x \in Nat
  BY <1>1, <1>2, RecordsSound, StorableType DEF Sound
<1>7. /\ Stored(x) \in Nat /\ Formatted(x) \in Nat
      /\ Formatted(Stored(x)) = Stored(x) /\ Stored(Stored(x)) = Stored(x)
      /\ Stored(Formatted(x)) = Formatted(x)
      /\ Formatted(x) = Stored(x) \/ (HalfWay(x) /\ Formatted(x) = Stored(x) - Digit)
  BY <1>6, Rounding
<1>8. PICK u : u = ev.type /\ u = ToldBy[t]
  BY <1>1 DEF Tells
<1>9. CASE u = "deposit.completed"
  <2>1. RowAmount(ev) = Stored(x)
    BY <1>1, <1>8, <1>9 DEF RowAmount, PayloadAmount
  <2> QED
    BY <1>5, <1>7, <2>1
<1>10. CASE u # "deposit.completed" /\ ev.origin = "service"
  <2>1. RowAmount(ev) = Formatted(x)
    BY <1>1, <1>7, <1>8, <1>10 DEF RowAmount, PayloadAmount
  <2>2. t # "deposit"
    BY <1>8, <1>10, ToldByDef
  <2>3. HalfWay(x) => Inexact(l)
    BY <1>1, <1>2, <2>2 DEF Inexact
  <2> QED
    BY <1>5, <1>7, <1>10, <2>1, <2>3
<1>11. CASE u # "deposit.completed" /\ ev.origin # "service"
  <2>1. RowAmount(ev) = Stored(x)
    BY <1>1, <1>7, <1>8, <1>11 DEF RowAmount, PayloadAmount
  <2> QED
    BY <1>5, <1>7, <2>1
<1> QED
  BY <1>9, <1>10, <1>11

\* The history follows the handled events and the ledger.
LEMMA HistoryStep ==
    ASSUME TablesTyped, TodoInv, SentInv, LedgerInv, HistoryInv, [Next]_vars
    PROVE  HistoryInv'
<1>1. SUFFICES /\ handled' \subseteq sent' /\ IsFiniteSet(handled')
               /\ \A x : x \in activity' <=> Recorded(x)'
  BY <1>1 DEF HistoryInv, Recorded
<1>2. /\ handled \subseteq sent /\ IsFiniteSet(handled)
      /\ \A x : x \in activity <=> Recorded(x)
  BY HistoryMembers
<1>3. ledger \subseteq ledger' /\ \A ev \in sent, l \in ledger' : Tells(ev, l) => l \in ledger
  BY NewLegsUntold
<1>4. ASSUME UNCHANGED <<handled, activity>>, sent \subseteq sent'
      PROVE  /\ handled' \subseteq sent' /\ IsFiniteSet(handled')
             /\ \A x : x \in activity' <=> Recorded(x)'
  <2>1. \A ev \in handled : \A l : l \in VisibleLegs' /\ Tells(ev, l) <=> l \in VisibleLegs /\ Tells(ev, l)
    BY <1>2, <1>3 DEF VisibleLegs
  <2>2. \A ev \in handled : \A l : ShowRow(ev, l)' = ShowRow(ev, l)
    BY <1>2, AmountKept
  <2>3. \A x : Recorded(x)' <=> Recorded(x)
    BY <1>4, <2>1, <2>2 DEF Recorded
  <2> QED
    BY <1>2, <1>4, <2>3
<1>5. ASSUME NEW ev \in sent, Consume(ev)
      PROVE  /\ handled' \subseteq sent' /\ IsFiniteSet(handled')
             /\ \A x : x \in activity' <=> Recorded(x)'
  <2>1. sent' = sent /\ ledger' = ledger
    BY <1>5 DEF Consume, tables
  <2>2. /\ \A x : x \in activity' <=> x \in activity \/ x \in RowsOf(ev)
        /\ handled' = IF AboutMoney(ev) THEN handled \cup {ev} ELSE handled
    BY <1>5, ConsumeRows
  <2>3. handled' \subseteq sent' /\ IsFiniteSet(handled')
    <3>1. IsFiniteSet(handled \cup {ev})
      BY <1>2, FS_AddElement
    <3> QED
      BY <1>2, <2>1, <2>2, <3>1
  <2>4. \A x : x \in RowsOf(ev) <=> \E l \in VisibleLegs : Tells(ev, l) /\ x = ShowRow(ev, l)
    BY RowsOfLedger
  <2>5. VisibleLegs' = VisibleLegs
    BY <2>1 DEF VisibleLegs
  <2>8. \A e \in handled \cup {ev} : \A l : ShowRow(e, l)' = ShowRow(e, l)
    BY <1>2, AmountKept
  <2>6. CASE AboutMoney(ev)
    <3>1. \A x : Recorded(x)' <=> Recorded(x) \/ x \in RowsOf(ev)
      BY <2>2, <2>4, <2>5, <2>6, <2>8 DEF Recorded
    <3> QED
      BY <1>2, <2>2, <2>3, <3>1
  <2>7. CASE ~AboutMoney(ev)
    <3>1. RowsOf(ev) = {} /\ handled' = handled
      BY <2>2, <2>7, MoneyTold
    <3>2. \A x : Recorded(x)' <=> Recorded(x)
      BY <2>5, <2>8, <3>1 DEF Recorded
    <3> QED
      BY <1>2, <2>2, <2>3, <3>1, <3>2
  <2> QED
    BY <2>6, <2>7
<1>6. ASSUME \E x \in todo : Emit(x) PROVE UNCHANGED <<handled, activity>> /\ sent \subseteq sent'
  BY <1>6, EmitCases
<1>7. ASSUME \E i \in Ids, r \in Records : Entered(i, r)
      PROVE  UNCHANGED <<handled, activity>> /\ sent \subseteq sent'
  BY <1>7 DEF Entered
<1>8. ASSUME \E i \in Ids, q \in Records : Settled(i, q)
      PROVE  UNCHANGED <<handled, activity>> /\ sent \subseteq sent'
  BY <1>8 DEF Settled
<1> QED
  BY <1>4, <1>5, <1>6, <1>7, <1>8, StepCases

\* What the queries of the backfill return.
LEMMA SelectedTyped ==
    ASSUME TablesTyped, LedgerInv
    PROVE  /\ Selected("accounts") \subseteq Accounts /\ Selected("idle") = {}
           /\ \A x \in Selected("transfers") : x \in Ids /\ record[x].kind = "transfer"
           /\ \A x \in Selected("seeds") : x \in Ids /\ record[x].kind = "seed"
<1>1. Selected("accounts") \subseteq Accounts /\ Selected("idle") = {}
  BY DEF Selected, TablesTyped
<1>2. \A x \in Selected("transfers") : x \in Ids /\ record[x].kind = "transfer"
  BY DEF Selected
<1>3. ASSUME NEW x \in Selected("seeds") PROVE x \in Ids /\ record[x].kind = "seed"
  <2>1. PICK l \in ledger : l.entry_type = "seed" /\ x = l.reference_id
    BY <1>3 DEF Selected
  <2>2. PICK i \in Ids : record[i] \in Records /\ l \in AllLegs(i, record[i])
    BY LedgerMembers
  <2>3. l.reference_id = i /\ Supports(record[i], ToldBy[l.entry_type])
    BY <2>2, LegFields
  <2>4. Supports(record[i], "seed.completed")
    BY <2>1, <2>3, ToldByDef
  <2> QED
    BY <2>1, <2>3, <2>4 DEF Supports
<1> QED
  BY <1>1, <1>2, <1>3

\* The order of the sections.
LEMMA SectionsDef ==
    /\ DOMAIN Sections = {"guarded", "accounts", "transfers", "seeds"}
    /\ Sections["guarded"] = "accounts" /\ Sections["accounts"] = "transfers"
    /\ Sections["transfers"] = "seeds" /\ Sections["seeds"] = "idle"
BY DEF Sections

\* Types are kept, and so is what the backfill has to do.
LEMMA TablesStep ==
    ASSUME TablesTyped, TodoInv, LedgerInv, [Next]_vars
    PROVE  TablesTyped' /\ TodoInv'
<1> DEFINE Loop == /\ bpc' \in {"idle"} \cup DOMAIN Sections
                   /\ todo' \subseteq (IF bpc' = "accounts" THEN Accounts ELSE Ids)
                   /\ bpc' \in {"idle", "guarded"} => todo' = {}
                   /\ bpc' = "transfers" => \A x \in todo' : record'[x].kind = "transfer"
                   /\ bpc' = "seeds" => \A x \in todo' : record'[x].kind = "seed"
           Rest == /\ opened' \subseteq Accounts /\ outbox' \subseteq Events
                   /\ backfills' \in 0..MaxBackfills /\ finished' \in BOOLEAN
<1>1. record' \in [Ids -> Records \cup {NoRecord}]
  BY RecordSteps
<1>2. SUFFICES Loop /\ Rest
  BY <1>1, <1>2 DEF TablesTyped, TodoInv
<1>3. ASSUME UNCHANGED bpc, todo' \subseteq todo PROVE Loop
  <2>1. \A x \in Ids : record[x].kind \in {"transfer", "seed"} => record'[x].kind = record[x].kind
    BY RecordsSound, RecordSteps DEF TablesTyped
  <2>2. bpc \in {"transfers", "seeds"} => \A x \in todo' : x \in Ids /\ x \in todo
    BY <1>3 DEF TablesTyped
  <2>3. /\ bpc' \in {"idle"} \cup DOMAIN Sections
        /\ todo' \subseteq (IF bpc' = "accounts" THEN Accounts ELSE Ids)
        /\ bpc' \in {"idle", "guarded"} => todo' = {}
    BY <1>3 DEF TablesTyped, TodoInv
  <2>4. /\ bpc' = "transfers" => \A x \in todo' : record'[x].kind = "transfer"
        /\ bpc' = "seeds" => \A x \in todo' : record'[x].kind = "seed"
    BY <1>3, <2>1, <2>2 DEF TodoInv
  <2> QED
    BY <2>3, <2>4
<1>4. ASSUME UNCHANGED <<opened, outbox, backfills, finished>> PROVE Rest
  BY <1>4 DEF TablesTyped
<1>5. ASSUME NEW i \in Ids, NEW r, Entered(i, r) \/ Settled(i, r) PROVE Loop /\ Rest
  <2>1. UNCHANGED <<opened, outbox, bpc, todo, backfills, finished>>
    BY <1>5 DEF Entered, Settled, backfillVars
  <2> HIDE DEF Loop, Rest
  <2> QED
    BY <1>3, <1>4, <2>1
<1>6. ASSUME NEW ev \in sent, Consume(ev) PROVE Loop /\ Rest
  <2>1. UNCHANGED <<opened, outbox, bpc, todo, backfills, finished>>
    BY <1>6 DEF Consume, tables, backfillVars
  <2> HIDE DEF Loop, Rest
  <2> QED
    BY <1>3, <1>4, <2>1
<1>7. ASSUME NEW x \in todo, Emit(x) PROVE Loop /\ Rest
  <2>1. UNCHANGED <<opened, bpc, backfills, finished>> /\ todo' \subseteq todo
    BY <1>7, EmitCases
  <2>2. outbox' \subseteq Events
    BY <1>7, EmitCases, EventFields DEF TablesTyped
  <2>3. Loop
    <3> HIDE DEF Loop
    <3> QED
      BY <1>3, <2>1
  <2> QED
    BY <2>1, <2>2, <2>3 DEF TablesTyped
<1>8. ASSUME NEW a \in Accounts, OpenAccount(a) PROVE Loop /\ Rest
  <2>1. UNCHANGED <<bpc, todo, backfills, finished>> /\ opened' = opened \cup {a}
    BY <1>8 DEF OpenAccount, backfillVars
  <2>2. PICK ev : ev = [origin |-> "service", type |-> "account.opened", ref |-> a]
    OBVIOUS
  <2>3. ev \in Events /\ ev.type = "account.opened"
    BY <2>2 DEF Events, EventTypes
  <2>4. outbox' = outbox \cup {ev}
    BY <1>8, <2>2, <2>3 DEF OpenAccount, Publish
  <2>5. Loop
    <3> HIDE DEF Loop
    <3> QED
      BY <1>3, <2>1
  <2> QED
    BY <2>1, <2>3, <2>4, <2>5 DEF TablesTyped
<1>9. ASSUME CleanUp PROVE Loop /\ Rest
  <2>1. UNCHANGED <<opened, bpc, todo, backfills, finished>> /\ outbox' = {}
    BY <1>9 DEF CleanUp, tables, backfillVars
  <2>2. Loop
    <3> HIDE DEF Loop
    <3> QED
      BY <1>3, <2>1
  <2> QED
    BY <2>1, <2>2 DEF TablesTyped
<1>10. ASSUME NEW force \in BOOLEAN, StartBackfill(force) PROVE Loop /\ Rest
  <2>1. /\ bpc = "idle" /\ bpc' = "guarded" /\ todo' = todo
        /\ backfills < MaxBackfills /\ backfills' = backfills + 1
        /\ UNCHANGED <<opened, outbox, finished>>
    BY <1>10 DEF StartBackfill, tables
  <2>2. todo' = {}
    BY <2>1 DEF TodoInv
  <2>3. backfills' \in 0..MaxBackfills
    BY <2>1, HistoryAssumption DEF TablesTyped
  <2> QED
    BY <2>1, <2>2, <2>3, SectionsDef DEF TablesTyped
<1>11. ASSUME NextSection PROVE Loop /\ Rest
  <2>1. /\ bpc # "idle" /\ bpc' = Sections[bpc] /\ todo' = Selected(Sections[bpc])
        /\ finished' = (finished \/ bpc = "seeds")
        /\ UNCHANGED <<opened, record, outbox, backfills>>
    BY <1>11 DEF NextSection, tables
  <2>2. bpc \in {"guarded", "accounts", "transfers", "seeds"}
    BY <2>1, SectionsDef DEF TablesTyped
  <2>3. Rest
    BY <2>1 DEF TablesTyped
  <2>4. Loop
    BY <2>1, <2>2, SectionsDef, SelectedTyped
  <2> QED
    BY <2>3, <2>4
<1>12. ASSUME AbortBackfill PROVE Loop /\ Rest
  <2>1. /\ bpc' = "idle" /\ todo' = {} /\ UNCHANGED <<opened, outbox, backfills, finished>>
    BY <1>12 DEF AbortBackfill, tables
  <2> QED
    BY <2>1 DEF TablesTyped
<1>13. ASSUME UNCHANGED vars PROVE Loop /\ Rest
  <2>1. UNCHANGED <<opened, outbox, bpc, todo, backfills, finished>>
    BY <1>13 DEF vars
  <2> HIDE DEF Loop, Rest
  <2> QED
    BY <1>3, <1>4, <2>1
<1> HIDE DEF Loop, Rest
<1> QED
  BY <1>5, <1>6, <1>7, <1>8, <1>9, <1>10, <1>11, <1>12, <1>13, StepCases

\* Before the outbox there are records of the two old kinds, their legs, and no events.
LEMMA InitHolds == Init => HistoryIInv
<1> SUFFICES ASSUME Init PROVE HistoryIInv
  OBVIOUS
<1>1. PICK past \in [1..NLegacy -> LegacyRecords] :
          /\ record = [i \in Ids |-> IF i <= NLegacy THEN past[i] ELSE NoRecord]
          /\ ledger = LegacyLedger(past, NLegacy)
  BY DEF Init
<1>2. /\ opened = LegacyAccounts /\ outbox = {} /\ sent = {} /\ handled = {} /\ activity = {}
      /\ bpc = "idle" /\ todo = {} /\ backfills = 0 /\ finished = FALSE
  BY DEF Init
<1>3. \A i \in 1..NLegacy : i \in Ids /\ i <= NLegacy /\ past[i] \in LegacyRecords
  BY HistoryAssumption DEF Ids
<1>4. \A i \in Ids : i <= NLegacy => i \in 1..NLegacy
  BY HistoryAssumption DEF Ids
<1>5. \A r \in LegacyRecords : r \in Records /\ r.kind \in {"seed", "transfer"}
  BY DEF LegacyRecords
<1>6. TablesTyped
  <2>1. \A i \in Ids : (IF i <= NLegacy THEN past[i] ELSE NoRecord) \in Records \cup {NoRecord}
    BY <1>4, <1>5
  <2>2. record \in [Ids -> Records \cup {NoRecord}]
    BY <1>1, <2>1
  <2>3. backfills \in 0..MaxBackfills
    BY <1>2, HistoryAssumption
  <2>4. opened \subseteq Accounts
    BY <1>2, HistoryAssumption
  <2> QED
    BY <1>2, <2>2, <2>3, <2>4 DEF TablesTyped
<1>7. TodoInv /\ SentInv
  BY <1>2 DEF TodoInv, SentInv
<1>8. LedgerInv
  <2>1. Existing = 1..NLegacy
    <3>1. \A i \in Ids : ~(i <= NLegacy) => record[i] \notin Records
      BY <1>1, RecordsSound
    <3>2. \A i \in 1..NLegacy : record[i] = past[i] /\ record[i] \in Records
      BY <1>1, <1>3, <1>5
    <3> QED
      BY <1>3, <1>4, <3>1, <3>2 DEF Existing
  <2>2. \A i \in 1..NLegacy : AllLegs(i, record[i]) = LegsFor(i, past[i])
    <3>1. \A i \in 1..NLegacy : record[i] = past[i] /\ past[i].kind # "withdrawal"
      BY <1>1, <1>3, <1>5
    <3> QED
      BY <3>1 DEF AllLegs
  <2>3. ledger = UNION { AllLegs(i, record[i]) : i \in 1..NLegacy }
    BY <1>1, <2>2 DEF LegacyLedger
  <2> QED
    BY <2>1, <2>3 DEF LedgerInv
<1>9. HistoryInv
  BY <1>2, FS_EmptySet DEF HistoryInv
<1> QED
  BY <1>6, <1>7, <1>8, <1>9 DEF HistoryIInv

\* The ledger, the history and the events agree, always.
LEMMA HistoryInvariant == Spec => []HistoryIInv
<1>1. HistoryIInv /\ [Next]_vars => HistoryIInv'
  BY TablesStep, SentStep, LedgerStep, HistoryStep DEF HistoryIInv
<1> QED
  BY <1>1, InitHolds, PTL DEF Spec

-----------------------------------------------------------------------------
(* What follows *)

\* TypeOK: every table, the outbox and the backfill keep their types, and the consumer
\* handles no event that was not sent.
THEOREM HistoryTypeOK == Spec => []TypeOK
<1>1. ASSUME HistoryIInv PROVE TypeOK
  <2>1. TablesTyped /\ SentInv /\ LedgerInv /\ HistoryInv
    BY <1>1 DEF HistoryIInv
  <2>2. ASSUME NEW l \in ledger
        PROVE  /\ l.account \in Accounts \cup {SYSTEM} /\ l.amount \in Nat \ {0}
               /\ l.direction \in {"debit", "credit"} /\ l.entry_type \in EntryTypes
    <3>1. PICK i \in Ids : record[i] \in Records /\ l \in AllLegs(i, record[i])
      BY <2>1, LedgerMembers
    <3> QED
      BY <3>1, LegFields
  <2>3. sent \subseteq Events /\ handled \subseteq sent
    BY <2>1 DEF SentInv, HistoryInv
  <2>4. ASSUME NEW x \in activity PROVE x \in ActivityRows
    <3>1. PICK ev \in handled : \E l \in VisibleLegs : Tells(ev, l) /\ x = ShowRow(ev, l)
      BY <2>1, HistoryMembers DEF Recorded
    <3>2. PICK l \in VisibleLegs : Tells(ev, l) /\ x = ShowRow(ev, l)
      BY <3>1
    <3>3. l \in ledger /\ ev \in Events /\ ev \in sent
      BY <2>3 DEF VisibleLegs
    <3>4. RowAmount(ev) \in Nat
      BY <2>1, <3>2, <3>3, RowAmountNear
    <3> QED
      BY <2>2, <3>2, <3>3, <3>4 DEF ShowRow, ActivityRows
  <2> QED
    BY <2>1, <2>2, <2>3, <2>4 DEF TypeOK, TablesTyped
<1> QED
  BY <1>1, HistoryInvariant, PTL

\* HistoryMatchesLedger: however events are repeated, reordered or delayed, the history
\* shows each leg once per handled event that tells of it, to the digit unless its amount
\* was asked for half way between two, and nothing else.
THEOREM HistoryMatches == Spec => []HistoryMatchesLedger
<1>1. ASSUME HistoryIInv PROVE HistoryMatchesLedger
  <2>1. handled \subseteq sent /\ IsFiniteSet(handled) /\ \A x : x \in activity <=> Recorded(x)
    BY <1>1, HistoryMembers DEF HistoryIInv
  <2>2. ASSUME NEW ev, NEW l
        PROVE  LET x == ShowRow(ev, l) IN
               /\ x.event = ev /\ x.account = l.account /\ x.direction = l.direction
               /\ x.amount = RowAmount(ev) /\ x.entry_type = l.entry_type
    BY DEF ShowRow
  <2>5. ASSUME NEW ev \in handled, NEW l \in VisibleLegs, Tells(ev, l)
        PROVE  Shows(ShowRow(ev, l), l)
    <3>1. ev \in sent /\ l \in ledger /\ SentInv /\ LedgerInv
      BY <1>1, <2>1 DEF HistoryIInv, VisibleLegs
    <3>2. \/ RowAmount(ev) = l.amount
          \/ Inexact(l) /\ ev.origin = "service" /\ RowAmount(ev) = l.amount - Digit
      BY <2>5, <3>1, RowAmountNear
    <3> QED
      BY <2>2, <2>5, <3>2 DEF Shows, Tells
  <2>3. ASSUME NEW l \in VisibleLegs
        PROVE  Cardinality({ r \in activity : Shows(r, l) })
                   = Cardinality({ ev \in handled : Tells(ev, l) })
    <3> DEFINE E == { ev \in handled : Tells(ev, l) }
               R == { r \in activity : Shows(r, l) }
               f == [ev \in E |-> ShowRow(ev, l)]
    <3>1. \A ev \in E : ShowRow(ev, l) \in R
      BY <2>1, <2>5 DEF Recorded
    <3>2. ASSUME NEW x \in R PROVE \E ev \in E : ShowRow(ev, l) = x
      <4>1. PICK ev \in handled : \E m \in VisibleLegs : Tells(ev, m) /\ x = ShowRow(ev, m)
        BY <2>1 DEF Recorded
      <4>2. PICK m \in VisibleLegs : Tells(ev, m) /\ x = ShowRow(ev, m)
        BY <4>1
      <4>3. Shows(x, l)
        OBVIOUS
      <4>4. /\ ev.ref = l.reference_id /\ m.account = l.account /\ m.direction = l.direction
            /\ m.entry_type = l.entry_type
        BY <2>2, <4>2, <4>3 DEF Shows
      <4>5. ShowRow(ev, m) = ShowRow(ev, l)
        BY <4>4 DEF ShowRow
      <4>6. Tells(ev, l)
        BY <4>2, <4>4 DEF Tells
      <4> QED
        BY <4>2, <4>5, <4>6
    <3>3. IsFiniteSet(E)
      BY <2>1, FS_Subset
    <3>4. \A ev, fv : ShowRow(ev, l) = ShowRow(fv, l) => ev = fv
      BY <2>2
    <3>5. /\ f \in [E -> R] /\ \A x, y \in E : f[x] = f[y] => x = y
          /\ \A y \in R : \E x \in E : f[x] = y
      <4> HIDE DEF E, R
      <4> QED
        BY <3>1, <3>2, <3>4
    <3> HIDE DEF E, R, f
    <3>6. Cardinality(R) = Cardinality(E)
      BY <3>3, <3>5, SameSize
    <3> QED
      BY <3>6 DEF E, R
  <2>4. ASSUME NEW r \in activity PROVE \E l \in VisibleLegs : Shows(r, l)
    <3>1. PICK ev \in handled : \E m \in VisibleLegs : Tells(ev, m) /\ r = ShowRow(ev, m)
      BY <2>1 DEF Recorded
    <3> QED
      BY <2>5, <3>1
  <2> QED
    BY <2>3, <2>4 DEF HistoryMatchesLedger
<1> QED
  BY <1>1, HistoryInvariant, PTL

-----------------------------------------------------------------------------
(* Every leg is told of *)

\* The records made before the outbox.
Old == 1..NLegacy

\* The backfill has written the event of a record.
Told(i) == BackfillEvent(Reports(record[i]), i) \in sent

\* A service or the recovery worker has told of the legs of an entry type.
ServiceNews(t, i) ==
    \E o \in {"service", "recovery"} : [origin |-> o, type |-> ToldBy[t], ref |-> i] \in sent

\* What was there before the outbox stays as it was.
LegacyKept == \A i \in Old : record[i] \in LegacyRecords

\* Of the legs of every record that a service enters there are news.
ServiceTold ==
    \A i \in Ids \ Old, t \in EntryTypes :
        record[i] \in Records /\ Supports(record[i], ToldBy[t]) => ServiceNews(t, i)

\* The recovery worker writes of refunds only, and of a refund there is one event.
OneFailure ==
    /\ \A ev \in sent : ev.origin = "recovery" => ev.type = "withdrawal.failed"
    /\ \A ev, fv \in sent : /\ ev.ref = fv.ref /\ ev.type = "withdrawal.failed"
                             /\ fv.type = "withdrawal.failed"
                             => ev = fv

\* The old records of a kind are told of, but for those the loop has still to do.
ToldBut(kind, rest) == \A i \in Old : record[i].kind = kind => i \in rest \/ Told(i)

\* The backfill leaves no old record out, whichever section it is in.
BackfillInv ==
    /\ bpc = "transfers" => ToldBut("transfer", todo)
    /\ bpc = "seeds" => ToldBut("transfer", {}) /\ ToldBut("seed", todo)
    /\ finished => ToldBut("transfer", {}) /\ ToldBut("seed", {})

\* Old records never change.
LEMMA LegacyStep ==
    ASSUME TablesTyped, LegacyKept, [Next]_vars
    PROVE  LegacyKept' /\ \A i \in Old : i \in Ids /\ record[i] \in Records /\ record'[i] = record[i]
<1>1. ASSUME NEW i \in Old
      PROVE  i \in Ids /\ record[i] \in Records /\ record[i].kind # "withdrawal"
  <2>1. i \in Ids
    BY HistoryAssumption DEF Old, Ids
  <2> QED
    BY <2>1 DEF LegacyKept, LegacyRecords
<1>2. \A i \in Old : record'[i] = record[i]
  BY <1>1, RecordSteps
<1> QED
  BY <1>1, <1>2 DEF LegacyKept

\* Nothing that was sent is forgotten, and rounds of the backfill add to it.
LEMMA SentGrows ==
    ASSUME TablesTyped, TodoInv, [Next]_vars
    PROVE  sent \subseteq sent'
<1>1. ASSUME NEW i \in Ids, NEW r, Entered(i, r) \/ Settled(i, r) PROVE sent \subseteq sent'
  BY <1>1 DEF Entered, Settled
<1>2. ASSUME NEW ev \in sent, Consume(ev) PROVE sent \subseteq sent'
  BY <1>2 DEF Consume
<1>3. ASSUME NEW x \in todo, Emit(x) PROVE sent \subseteq sent'
  BY <1>3, EmitCases
<1> QED
  BY <1>1, <1>2, <1>3, StepCases

\* The services tell of every new leg.
LEMMA ServiceStep ==
    ASSUME TablesTyped, TodoInv, ServiceTold, [Next]_vars
    PROVE  ServiceTold'
<1>1. sent \subseteq sent'
  BY SentGrows
<1>2. ASSUME NEW i \in Ids, NEW r \in Records, record' = [record EXCEPT ![i] = r],
             NEW o \in {"service", "recovery"}, EventOf(o, r, i) \in sent',
             \A t \in EntryTypes : Supports(r, ToldBy[t]) =>
                 \/ Reports(r) = ToldBy[t]
                 \/ record[i] \in Records /\ Supports(record[i], ToldBy[t])
      PROVE  ServiceTold'
  <2>1. record'[i] = r /\ \A j \in Ids : j # i => record'[j] = record[j]
    BY <1>2 DEF TablesTyped
  <2>2. \A t \in EntryTypes : Reports(r) = ToldBy[t] => ServiceNews(t, i)'
    BY <1>2 DEF ServiceNews, EventOf
  <2>4. \A t, j : ServiceNews(t, j) => ServiceNews(t, j)'
    BY <1>1 DEF ServiceNews
  <2>3. ASSUME NEW j \in Ids \ Old, NEW t \in EntryTypes, record'[j] \in Records,
               Supports(record'[j], ToldBy[t])
        PROVE  ServiceNews(t, j)'
    <3>1. CASE j = i
      BY <1>2, <2>1, <2>2, <2>3, <2>4, <3>1 DEF ServiceTold
    <3>2. CASE j # i
      BY <2>1, <2>3, <2>4, <3>2 DEF ServiceTold
    <3> QED
      BY <3>1, <3>2
  <2> QED
    BY <2>3 DEF ServiceTold
<1>3. ASSUME NEW i \in Ids, NEW r \in Records, Entered(i, r) PROVE ServiceTold'
  <2>1. \A t \in EntryTypes : Supports(r, ToldBy[t]) => Reports(r) = ToldBy[t]
    <3>1. Supports(r, Reports(r))
      BY ReportsSupported
    <3>2. r.kind = "withdrawal" => r.status = "pending"
      BY <1>3 DEF Entered
    <3>3. r.kind = "withdrawal" => Reports(r) = "withdrawal.initiated"
      BY <3>2, ReportsSupported
    <3> QED
      BY <3>1, <3>2, <3>3, ToldByDef DEF Supports, EntryTypes
  <2>2. record' = [record EXCEPT ![i] = r] /\ EventOf("service", r, i) \in sent'
    BY <1>3 DEF Entered, ServiceEvent
  <2> QED
    BY <1>2, <2>1, <2>2
<1>4. ASSUME NEW i \in Ids, NEW q, record[i] \in Records, Ends(q, record[i]), Settled(i, q)
      PROVE  ServiceTold'
  <2>1. /\ q \in Records /\ q.kind = "withdrawal" /\ q.status \in {"completed", "failed"}
        /\ record[i].kind = "withdrawal"
        /\ record' = [record EXCEPT ![i] = q]
    BY <1>4 DEF Ends, Settled
  <2>4. PICK o \in {"service", "recovery"} : EventOf(o, q, i) \in sent'
    BY <1>4 DEF Settled
  <2>2. q.status = "failed" => Reports(q) = "withdrawal.failed"
    BY <2>1, ReportsSupported
  <2>3. \A t \in EntryTypes : Supports(q, ToldBy[t]) =>
            \/ Reports(q) = ToldBy[t]
            \/ record[i] \in Records /\ Supports(record[i], ToldBy[t])
    BY <1>4, <2>1, <2>2, ToldByDef DEF Supports, EntryTypes
  <2> QED
    BY <1>2, <2>1, <2>3, <2>4
<1>5. ASSUME UNCHANGED record PROVE ServiceTold'
  <2>1. \A t, j : ServiceNews(t, j) => ServiceNews(t, j)'
    BY <1>1 DEF ServiceNews
  <2> QED
    BY <1>5, <2>1 DEF ServiceTold
<1>6. ASSUME (\E ev \in sent : Consume(ev)) \/ (\E x \in todo : Emit(x)) PROVE UNCHANGED record
  BY <1>6 DEF Consume, Emit, tables
<1> QED
  BY <1>3, <1>4, <1>5, <1>6, StepCases

\* A withdrawal fails once.
LEMMA OneFailureStep ==
    ASSUME TablesTyped, TodoInv, SentInv, OneFailure, [Next]_vars
    PROVE  OneFailure'
<1>1. ASSUME NEW new, sent' = sent \cup {new}, new.origin = "recovery" => new.type = "withdrawal.failed",
             \A ev \in sent : ev.ref = new.ref /\ new.type = "withdrawal.failed" =>
                               ev.type # "withdrawal.failed"
      PROVE  OneFailure'
  BY <1>1 DEF OneFailure
<1>2. ASSUME UNCHANGED sent PROVE OneFailure'
  BY <1>2 DEF OneFailure
<1>3. ASSUME NEW i \in Ids, NEW r \in Records, Entered(i, r) PROVE OneFailure'
  <2>1. PICK new : new = ServiceEvent(r, i)
    OBVIOUS
  <2>2. sent' = sent \cup {new} /\ new.ref = i /\ new.origin = "service"
    BY <1>3, <2>1, EventFields DEF Entered, ServiceEvent
  <2>3. \A ev \in sent : ev.ref # i
    BY <1>3, RecordsSound DEF SentInv, Entered
  <2> QED
    BY <1>1, <2>2, <2>3
<1>4. ASSUME NEW i \in Ids, NEW q, record[i] \in Records, Ends(q, record[i]), Settled(i, q)
      PROVE  OneFailure'
  <2>1. PICK o \in {"service", "recovery"} : /\ o = "recovery" => q.status = "failed"
                                            /\ sent' = sent \cup {EventOf(o, q, i)}
    BY <1>4 DEF Settled
  <2>2. PICK new : new = EventOf(o, q, i)
    OBVIOUS
  <2>3. q \in Records /\ q.kind = "withdrawal"
    BY <1>4 DEF Ends
  <2>4. new.ref = i /\ new.type = Reports(q) /\ new.origin = o
    BY <2>2, <2>3, EventFields
  <2>5. o = "recovery" => Reports(q) = "withdrawal.failed"
    BY <2>1, <2>3, ReportsSupported
  <2>6. ~Supports(record[i], "withdrawal.failed")
    BY <1>4 DEF Settled, Supports
  <2>7. \A ev \in sent : ev.ref = i => ev.type # "withdrawal.failed"
    BY <2>6 DEF SentInv
  <2> QED
    BY <1>1, <2>1, <2>2, <2>4, <2>5, <2>7
<1>5. ASSUME NEW x \in todo, Emit(x) PROVE OneFailure'
  <2>1. CASE sent' = sent
    BY <1>2, <2>1
  <2>2. CASE /\ bpc \in {"transfers", "seeds"} /\ x \in Ids /\ record[x] \in Records
             /\ sent' = sent \cup {BackfillEvent(Reports(record[x]), x)}
    <3>1. PICK new : new = BackfillEvent(Reports(record[x]), x)
      OBVIOUS
    <3>2. new.origin = "backfill" /\ new.type = Reports(record[x])
      BY <3>1 DEF BackfillEvent
    <3>3. record[x].kind \in {"transfer", "seed"}
      BY <2>2 DEF TodoInv
    <3>4. Supports(record[x], Reports(record[x]))
      BY <2>2, ReportsSupported
    <3>5. new.type # "withdrawal.failed"
      BY <3>2, <3>3, <3>4 DEF Supports
    <3> QED
      BY <1>1, <2>2, <3>1, <3>2, <3>5
  <2> QED
    BY <1>5, <2>1, <2>2, EmitCases
<1>6. ASSUME NEW ev \in sent, Consume(ev) PROVE UNCHANGED sent
  BY <1>6 DEF Consume
<1> QED
  BY <1>2, <1>3, <1>4, <1>5, <1>6, StepCases

\* The query for seeds finds every one.
LEMMA SeedsSelected ==
    ASSUME LedgerInv, NEW i \in Ids, record[i] \in Records, record[i].kind = "seed"
    PROVE  i \in Selected("seeds")
<1>1. "seed" \in EntryTypes /\ Supports(record[i], ToldBy["seed"])
  BY ToldByDef DEF EntryTypes, Supports
<1>2. PICK l \in AllLegs(i, record[i]) : l.entry_type = "seed" /\ l.direction = "credit"
  BY <1>1, LegExists
<1>3. l.reference_id = i
  BY LegFields
<1>4. l \in ledger
  BY LedgerMembers
<1> QED
  BY <1>2, <1>3, <1>4 DEF Selected

\* The backfill leaves nothing out.
LEMMA BackfillStep ==
    ASSUME TablesTyped, TodoInv, LedgerInv, LegacyKept, BackfillInv, [Next]_vars
    PROVE  BackfillInv'
<1>1. \A i \in Old : i \in Ids /\ record[i] \in Records /\ record'[i] = record[i]
  BY LegacyStep
<1>2. \A i \in Old : Told(i) => Told(i)'
  BY <1>1, SentGrows DEF Told
<1>4. \A kind : ToldBut(kind, {}) => \A i \in Old : record'[i].kind = kind => Told(i)'
  BY <1>1, <1>2 DEF ToldBut
<1>5. \A kind : ToldBut(kind, todo) => \A i \in Old : record'[i].kind = kind => i \in todo \/ Told(i)'
  BY <1>1, <1>2 DEF ToldBut
<1>6. ASSUME UNCHANGED <<bpc, todo, finished>> PROVE BackfillInv'
  BY <1>4, <1>5, <1>6 DEF BackfillInv, ToldBut
<1>7. ASSUME NEW x \in todo, Emit(x) PROVE BackfillInv'
  <2>1. todo' = todo \ {x} /\ UNCHANGED <<record, bpc, finished>>
    BY <1>7, EmitCases
  <2>2. bpc \in {"transfers", "seeds"} => BackfillEvent(Reports(record[x]), x) \in sent'
    BY <1>7, EmitCases
  <2>3. bpc \in {"transfers", "seeds"} => Told(x)'
    BY <2>1, <2>2 DEF Told
  <2>4. \A kind : bpc \in {"transfers", "seeds"} /\ ToldBut(kind, todo) =>
            \A i \in Old : record'[i].kind = kind => i \in todo' \/ Told(i)'
    BY <1>5, <2>1, <2>3
  <2> QED
    BY <1>4, <2>1, <2>4 DEF BackfillInv, ToldBut
<1>8. ASSUME NextSection PROVE BackfillInv'
  <2>1. /\ bpc # "idle" /\ todo = {} /\ bpc' = Sections[bpc] /\ todo' = Selected(Sections[bpc])
        /\ finished' = (finished \/ bpc = "seeds")
    BY <1>8 DEF NextSection
  <2>2. bpc \in {"guarded", "accounts", "transfers", "seeds"}
    BY <2>1, SectionsDef DEF TablesTyped
  <2>3. \A i \in Old : record'[i].kind = "transfer" => i \in Selected("transfers")
    BY <1>1 DEF Selected
  <2>4. \A i \in Old : record'[i].kind = "seed" => i \in Selected("seeds")
    BY <1>1, SeedsSelected
  <2>5. CASE bpc = "guarded"
    <3>1. bpc' = "accounts" /\ finished' = finished
      BY <2>1, <2>5, SectionsDef DEF TablesTyped
    <3> QED
      BY <1>4, <3>1 DEF BackfillInv, ToldBut
  <2>6. CASE bpc = "accounts"
    <3>1. bpc' = "transfers" /\ todo' = Selected("transfers") /\ finished' = finished
      BY <2>1, <2>6, SectionsDef DEF TablesTyped
    <3> QED
      BY <1>4, <2>3, <3>1 DEF BackfillInv, ToldBut
  <2>7. CASE bpc = "transfers"
    <3>1. bpc' = "seeds" /\ todo' = Selected("seeds") /\ finished' = finished
      BY <2>1, <2>7, SectionsDef DEF TablesTyped
    <3>2. ToldBut("transfer", {})
      BY <2>1, <2>7 DEF BackfillInv
    <3> QED
      BY <1>4, <2>4, <3>1, <3>2 DEF BackfillInv, ToldBut
  <2>8. CASE bpc = "seeds"
    <3>1. bpc' = "idle" /\ finished' = TRUE
      BY <2>1, <2>8, SectionsDef
    <3>2. ToldBut("transfer", {}) /\ ToldBut("seed", {})
      BY <2>1, <2>8 DEF BackfillInv
    <3> QED
      BY <1>4, <3>1, <3>2 DEF BackfillInv, ToldBut
  <2> QED
    BY <2>2, <2>5, <2>6, <2>7, <2>8
<1>9. ASSUME NEW force \in BOOLEAN, StartBackfill(force) PROVE BackfillInv'
  <2>1. bpc' = "guarded" /\ finished' = finished
    BY <1>9 DEF StartBackfill
  <2> QED
    BY <1>4, <2>1 DEF BackfillInv, ToldBut
<1>10. ASSUME AbortBackfill PROVE BackfillInv'
  <2>1. bpc' = "idle" /\ finished' = finished
    BY <1>10 DEF AbortBackfill
  <2> QED
    BY <1>4, <2>1 DEF BackfillInv, ToldBut
<1>11. ASSUME NEW i \in Ids, NEW r, Entered(i, r) \/ Settled(i, r) PROVE UNCHANGED <<bpc, todo, finished>>
  BY <1>11 DEF Entered, Settled, backfillVars
<1>12. ASSUME (\E ev \in sent : Consume(ev)) \/ (\E a \in Accounts : OpenAccount(a)) \/ CleanUp
              \/ UNCHANGED vars
       PROVE  UNCHANGED <<bpc, todo, finished>>
  BY <1>12 DEF Consume, OpenAccount, CleanUp, backfillVars, vars
<1> QED
  BY <1>6, <1>7, <1>8, <1>9, <1>10, <1>11, <1>12, StepCases

\* All of it, and every leg told of.
CompleteIInv == HistoryIInv /\ LegacyKept /\ ServiceTold /\ OneFailure /\ BackfillInv

\* It holds always.
LEMMA CompleteInvariant == Spec => []CompleteIInv
<1>1. Init => CompleteIInv
  <2> SUFFICES ASSUME Init PROVE CompleteIInv
    OBVIOUS
  <2>1. HistoryIInv
    BY InitHolds
  <2>2. PICK past \in [1..NLegacy -> LegacyRecords] :
            record = [i \in Ids |-> IF i <= NLegacy THEN past[i] ELSE NoRecord]
    BY DEF Init
  <2>3. LegacyKept
    <3>1. \A i \in Old : i \in Ids /\ i <= NLegacy /\ past[i] \in LegacyRecords
      BY HistoryAssumption DEF Old, Ids
    <3> QED
      BY <2>2, <3>1 DEF LegacyKept
  <2>4. \A i \in Ids \ Old : record[i] = NoRecord
    <3>1. \A i \in Ids \ Old : ~(i <= NLegacy)
      BY HistoryAssumption DEF Old, Ids
    <3> QED
      BY <2>2, <3>1
  <2>5. ServiceTold
    BY <2>4, RecordsSound DEF ServiceTold
  <2>6. BackfillInv
    BY DEF Init, BackfillInv
  <2>7. OneFailure
    BY DEF Init, OneFailure
  <2> QED
    BY <2>1, <2>3, <2>5, <2>6, <2>7 DEF CompleteIInv
<1>2. CompleteIInv /\ [Next]_vars => CompleteIInv'
  <2> SUFFICES ASSUME CompleteIInv, [Next]_vars PROVE CompleteIInv'
    OBVIOUS
  <2>1. /\ TablesTyped /\ TodoInv /\ SentInv /\ LedgerInv /\ HistoryInv
        /\ LegacyKept /\ ServiceTold /\ OneFailure /\ BackfillInv
    BY DEF CompleteIInv, HistoryIInv
  <2>2. HistoryIInv'
    BY <2>1, TablesStep, SentStep, LedgerStep, HistoryStep DEF HistoryIInv
  <2>3. LegacyKept' /\ ServiceTold' /\ OneFailure' /\ BackfillInv'
    BY <2>1, LegacyStep, ServiceStep, OneFailureStep, BackfillStep
  <2> QED
    BY <2>2, <2>3 DEF CompleteIInv
<1> QED
  BY <1>1, <1>2, PTL DEF Spec

\* The ledger can be summed.
LEMMA LedgerFinite ==
    ASSUME LedgerInv
    PROVE  GoodLedger(ledger)
<1>1. ASSUME NEW i \in Existing PROVE IsFiniteSet(AllLegs(i, record[i]))
  <2>1. PICK r : r = record[i]
    OBVIOUS
  <2>2. IsFiniteSet(LegsFor(i, r))
    BY LegPairSize, FS_EmptySet DEF LegsFor
  <2>3. PICK more : more = IF r.kind = "withdrawal" /\ r.status = "failed"
                           THEN LegPair(0, "withdrawal_reversal", i, r.to, r.from, Stored(r.amount),
                                        <<"reversal", i>>)
                           ELSE {}
    OBVIOUS
  <2>4. IsFiniteSet(more)
    BY <2>3, LegPairSize, FS_EmptySet
  <2>5. AllLegs(i, r) = LegsFor(i, r) \cup more
    BY <2>3 DEF AllLegs
  <2> QED
    BY <2>1, <2>2, <2>4, <2>5, FS_Union
<1>2. IsFiniteSet(Existing)
  <2>1. IsFiniteSet(Ids)
    BY HistoryAssumption, FS_Interval DEF Ids
  <2>2. Existing \in SUBSET Ids
    BY DEF Existing
  <2> QED
    BY <2>1, <2>2, FS_Subset
<1> DEFINE Pairs == { AllLegs(i, record[i]) : i \in Existing }
           f == [i \in Existing |-> AllLegs(i, record[i])]
<1>3. f \in Surjection(Existing, Pairs)
  BY DEF Surjection
<1>4. \A T \in Pairs : IsFiniteSet(T)
  BY <1>1
<1>5. ledger = UNION Pairs
  BY DEF LedgerInv
<1> HIDE DEF Pairs, f
<1>6. IsFiniteSet(Pairs)
  BY <1>2, <1>3, FS_Surjection
<1>7. IsFiniteSet(ledger)
  BY <1>4, <1>5, <1>6, FS_UNION
<1>8. ASSUME NEW l \in ledger PROVE l.amount \in Int
  <2>1. PICK i \in Ids : record[i] \in Records /\ l \in AllLegs(i, record[i])
    BY LedgerMembers
  <2>2. PICK m : m = l.amount /\ m \in Nat
    BY <2>1, LegFields
  <2>3. m \in Int
    BY <2>2
  <2> QED
    BY <2>2, <2>3
<1> QED
  BY <1>7, <1>8 DEF GoodLedger

\* After a finished backfill, some event that was sent tells of each leg.
LEMMA LegTold ==
    ASSUME CompleteIInv, finished, NEW l \in ledger
    PROVE  \E ev \in sent : Tells(ev, l)
<1>1. LedgerInv /\ LegacyKept /\ ServiceTold /\ BackfillInv
  BY DEF CompleteIInv, HistoryIInv
<1>2. PICK i \in Ids : record[i] \in Records /\ l \in AllLegs(i, record[i])
  BY <1>1, LedgerMembers
<1>3. PICK t : t = l.entry_type
  OBVIOUS
<1>4. l.reference_id = i /\ t \in EntryTypes /\ Supports(record[i], ToldBy[t])
  BY <1>2, <1>3, LegFields
<1>5. CASE i \in Old
  <2>1. record[i].kind \in {"seed", "transfer"}
    BY <1>1, <1>5 DEF LegacyKept, LegacyRecords
  <2>2. Told(i)
    BY <1>1, <1>5, <2>1 DEF BackfillInv, ToldBut
  <2>3. PICK ev : ev = BackfillEvent(Reports(record[i]), i)
    OBVIOUS
  <2>4. ev \in sent /\ ev.ref = i /\ ev.type = Reports(record[i])
    BY <1>2, <2>2, <2>3, EventFields DEF Told
  <2>5. Supports(record[i], Reports(record[i]))
    BY <1>2, ReportsSupported
  <2>6. Reports(record[i]) = ToldBy[t]
    BY <1>4, <2>1, <2>5, ToldByDef DEF Supports, EntryTypes
  <2> QED
    BY <1>3, <1>4, <2>4, <2>6 DEF Tells
<1>6. CASE i \notin Old
  <2>1. ServiceNews(t, i)
    BY <1>1, <1>2, <1>4, <1>6 DEF ServiceTold
  <2>2. PICK ev \in sent : ev.ref = i /\ ev.type = ToldBy[t]
    BY <2>1 DEF ServiceNews
  <2> QED
    BY <1>3, <1>4, <2>2 DEF Tells
<1> QED
  BY <1>5, <1>6

\* Only a record that was told of twice has two events that tell of the same leg.
LEMMA OneTeller ==
    ASSUME SentInv, OneFailure, ToldTwice = {}, NEW l, NEW ev \in sent, NEW fv \in sent,
           Tells(ev, l), Tells(fv, l)
    PROVE  ev = fv
<1>1. ev.ref = fv.ref /\ ev.type = fv.type
  BY DEF Tells
<1>2. ev \in Events /\ fv \in Events /\ ev.ref \in Ids
  BY DEF SentInv
<1>3. CASE ev.type = "withdrawal.failed"
  BY <1>1, <1>3 DEF OneFailure
<1>4. CASE ev.type # "withdrawal.failed"
  <2>1. ev.origin \in {"service", "backfill"} /\ fv.origin \in {"service", "backfill"}
    BY <1>1, <1>2, <1>4 DEF Events, OneFailure
  <2>2. ev.origin = fv.origin
    BY <1>1, <1>2, <2>1 DEF ToldTwice
  <2> QED
    BY <1>1, <1>2, <2>2 DEF Events
<1> QED
  BY <1>3, <1>4

\* CompleteHistory: once a backfill has finished and the consumer has caught up, the
\* history of every user adds up to the balance, unless a record was told of twice, but
\* for one digit for each leg whose amount was asked for half way between two.
THEOREM HistoryComplete == Spec => []CompleteHistory
<1>1. ASSUME CompleteIInv, finished, \A ev \in sent : AboutMoney(ev) => ev \in handled,
             ToldTwice = {}, NEW a \in Accounts
      PROVE  LET out == ShownBalance(a) - GetBalance(ledger, a)
                 may == Tolerance({ l \in ledger : l.account = a })
             IN  -may <= out /\ out <= may
  <2>1. SentInv /\ LedgerInv /\ HistoryInv /\ OneFailure
    BY <1>1 DEF CompleteIInv, HistoryIInv
  <2>2. handled \subseteq sent /\ \A x : x \in activity <=> Recorded(x)
    BY <2>1, HistoryMembers
  <2> DEFINE S == { l \in ledger : l.account = a }
             X == { l \in S : Inexact(l) }
             R == { r \in activity : r.account = a }
             Teller(l) == CHOOSE ev \in handled : Tells(ev, l)
             f == [l \in S |-> ShowRow(Teller(l), l)]
  <2>3. ASSUME NEW l \in S PROVE Teller(l) \in handled /\ Tells(Teller(l), l)
    <3>1. PICK ev \in sent : Tells(ev, l)
      BY <1>1, LegTold
    <3>2. l.entry_type \in EntryTypes
      <4>1. PICK i \in Ids : record[i] \in Records /\ l \in AllLegs(i, record[i])
        BY <2>1, LedgerMembers
      <4> QED
        BY <4>1, LegFields
    <3>3. AboutMoney(ev)
      BY <3>1, <3>2, MoneyTold DEF Tells
    <3> QED
      BY <1>1, <3>1, <3>3
  <2>4. ASSUME NEW l \in S, NEW ev \in handled, Tells(ev, l) PROVE Teller(l) = ev
    <3> HIDE DEF Teller
    <3> QED
      BY <1>1, <2>1, <2>2, <2>3, <2>4, OneTeller
  <2> HIDE DEF Teller
  <2>5. ASSUME NEW ev, NEW l
        PROVE  LET x == ShowRow(ev, l) IN
               /\ x.event = ev /\ x.account = l.account /\ x.direction = l.direction
               /\ x.amount = RowAmount(ev) /\ x.entry_type = l.entry_type
    BY DEF ShowRow
  <2>6. \A l \in S : l \in VisibleLegs /\ l \in ledger /\ l.account = a
    BY <1>1 DEF VisibleLegs
  <2>7. \A l \in S : f[l] = ShowRow(Teller(l), l)
    OBVIOUS
  <2>8. R = { f[l] : l \in S }
    <3>1. ASSUME NEW l \in S PROVE f[l] \in R
      <4>1. f[l] \in activity
        BY <2>2, <2>3, <2>6, <2>7 DEF Recorded
      <4>2. f[l].account = a
        BY <2>5, <2>6, <2>7
      <4> QED
        BY <4>1, <4>2
    <3>2. ASSUME NEW x \in R PROVE \E l \in S : x = f[l]
      <4>1. PICK ev \in handled : \E l \in VisibleLegs : Tells(ev, l) /\ x = ShowRow(ev, l)
        BY <2>2 DEF Recorded
      <4>2. PICK l \in VisibleLegs : Tells(ev, l) /\ x = ShowRow(ev, l)
        BY <4>1
      <4>3. x.account = a
        OBVIOUS
      <4>4. l \in S
        BY <2>5, <4>2, <4>3 DEF VisibleLegs
      <4>5. Teller(l) = ev
        BY <2>4, <4>2, <4>4
      <4> QED
        BY <2>7, <4>2, <4>4, <4>5
    <3> HIDE DEF S, R, f
    <3> QED
      BY <3>1, <3>2
  <2>9. ASSUME NEW l \in S, NEW m \in S, f[l] = f[m] PROVE l = m
    <3>1. ShowRow(Teller(l), l) = ShowRow(Teller(m), m)
      BY <2>7, <2>9
    <3>2. Teller(l) = Teller(m) /\ l.direction = m.direction /\ l.entry_type = m.entry_type
      BY <2>5, <3>1
    <3>3. l.reference_id = m.reference_id
      BY <2>3, <3>2 DEF Tells
    <3>4. PICK i \in Ids : record[i] \in Records /\ l \in AllLegs(i, record[i])
      BY <2>1, <2>6, LedgerMembers
    <3>5. PICK j \in Ids : record[j] \in Records /\ m \in AllLegs(j, record[j])
      BY <2>1, <2>6, LedgerMembers
    <3>6. l.reference_id = i /\ m.reference_id = j
      BY <3>4, <3>5, LegFields
    <3>7. m \in AllLegs(i, record[i])
      BY <3>3, <3>5, <3>6
    <3> QED
      BY <3>2, <3>4, <3>7, LegUnique
  <2>10. IsFiniteSet(S) /\ \A l \in S : l.amount \in Int
    BY <2>1, LedgerFinite, FS_Subset DEF GoodLedger
  <2>11. ASSUME NEW l \in S
         PROVE  /\ f[l].amount \in Int
                /\ SignedAmount(f[l]) - SignedAmount(l) \in (-Digit)..Digit
                /\ l \notin X => SignedAmount(f[l]) = SignedAmount(l)
    <3>1. PICK n, m : n = RowAmount(Teller(l)) /\ m = l.amount
      OBVIOUS
    <3>2. /\ n \in Nat /\ m \in Nat
          /\ n = m \/ (Inexact(l) /\ n = m - Digit)
      BY <2>1, <2>2, <2>3, <2>6, <3>1, RowAmountNear
    <3>3. f[l].amount = n /\ f[l].direction = l.direction
      BY <2>5, <2>7, <3>1
    <3>4. /\ SignedAmount(f[l]) = IF l.direction = "credit" THEN n ELSE -n
          /\ SignedAmount(l) = IF l.direction = "credit" THEN m ELSE -m
      BY <3>1, <3>3 DEF SignedAmount
    <3>5. l \notin X => ~Inexact(l)
      OBVIOUS
    <3> HIDE DEF S, X, R, f
    <3> QED
      BY <3>2, <3>3, <3>4, <3>5 DEF Digit
  <2>12. GetBalance(ledger, a) = Total(S) /\ ShownBalance(a) = Total(R)
    BY BalanceIsTotal DEF ShownBalance, Total
  <2>13. Tolerance(S) = Digit * Cardinality(S \cap X)
    <3>1. S \cap X = { l \in S : Inexact(l) }
      OBVIOUS
    <3> QED
      BY <3>1 DEF Tolerance
  <2>14. Digit \in Nat
    BY DEF Digit
  <2>15. PICK T : T = Total({ f[l] : l \in S })
    OBVIOUS
  <2> HIDE DEF S, X, R, f
  <2>16. LET out == T - Total(S)
             may == Digit * Cardinality(S \cap X)
         IN  -may <= out /\ out <= may
    BY <2>9, <2>10, <2>11, <2>14, <2>15, TotalImage
  <2>17. LET out == ShownBalance(a) - GetBalance(ledger, a)
             may == Tolerance(S)
         IN  -may <= out /\ out <= may
    BY <2>8, <2>12, <2>13, <2>15, <2>16
  <2> QED
    BY <2>17 DEF S
<1>2. CompleteIInv => CompleteHistory
  BY <1>1 DEF CompleteHistory
<1> QED
  BY <1>2, CompleteInvariant, PTL
=============================================================================
