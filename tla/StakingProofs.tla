--------------------------- MODULE StakingProofs ---------------------------
(***************************************************************************)
(* What no sequence of stake operations, evidence, epochs and reorgs does  *)
(* to a validator record, for any accounts, amounts and parameters.        *)
(* Holdings are sums over accounts, which are left to TLC.                 *)
(***************************************************************************)
EXTENDS Staking, TLAPS

\* Min of FiniteSetsExt on two numbers.
LEMMA MinTwo ==
    ASSUME NEW x \in Nat, NEW y \in Nat
    PROVE  Min({x, y}) \in Nat /\ Min({x, y}) <= x /\ Min({x, y}) <= y
<1>1. \E m \in {x, y} : \A n \in {x, y} : m <= n
    OBVIOUS
<1>2. /\ Min({x, y}) \in {x, y}
      /\ \A n \in {x, y} : Min({x, y}) <= n
    BY <1>1 DEF Min
<1> QED BY <1>2

-----------------------------------------------------------------------------
(* Journals *)

\* What a journal holds, as far as it touches records.
JournalOK(j) ==
    /\ DOMAIN j = {"actor", "liquid", "nonce", "vals", "dels", "unbs", "pool", "outside"}
    /\ j.outside \in BOOLEAN
    /\ DOMAIN j.vals \subseteq Accounts
    /\ \A o \in DOMAIN j.vals : j.vals[o] \in ValidatorRecords \cup {None}
    /\ \A o \in DOMAIN j.unbs : j.unbs[o] \in UnbondingEntries \cup {None}
    /\ \A p \in DOMAIN j.dels : j.dels[p] \in Nat

IsSeq(s) == \E S : s \in Seq(S)

JournalsOK ==
    /\ IsSeq(journals)
    /\ \A i \in 1..Len(journals) : JournalOK(journals[i])

\* A record without power before epoch n.
Held(r, n) == r # None /\ r.status # "Bonded" /\ (r.status = "Jailed" => r.jailedUntil >= n)

\* The validators whose sentence stands have such a record, in the store and in
\* the journals that nothing outside blocks has written over.
StoreTermsServed == \A o \in Serving \ excused : Held(validator[o], sentence[o])

JournalTermsServed ==
    \A i \in 1..Len(journals) : ~journals[i].outside =>
        \A o \in DOMAIN journals[i].vals \cap (Serving \ excused) :
            Held(journals[i].vals[o], sentence[o])

Tombstoned(r) == r # None /\ r.status = "Tombstoned"

\* A journal that nothing outside blocks has written over agrees with the store
\* on the tombstoned validators.
Agrees(j, vals) ==
    \A o \in DOMAIN j.vals :
        Tombstoned(j.vals[o]) \/ Tombstoned(vals[o]) => j.vals[o] = vals[o]

TombstonesKept ==
    \A i \in 1..Len(journals) : ~journals[i].outside => Agrees(journals[i], validator)

\* What was written over when a journal was there was written over for the older
\* ones too.
MarksInOrder ==
    \A i \in 1..Len(journals) : \A k \in 1..i : journals[i].outside => journals[k].outside

RecordInv ==
    /\ RecordsOK /\ JournalsOK /\ MarksInOrder
    /\ StoreTermsServed /\ JournalTermsServed /\ TombstonesKept

\* t is what s has after its first elements.
IsTail(t, s) ==
    \E n \in Nat : Len(t) = Len(s) - n /\ \A i \in 1..Len(t) : t[i] = s[n + i]

\* Pushing a journal: what is kept is the new one or was there.
LEMMA RecentElements ==
    ASSUME NEW js, NEW j, IsSeq(js)
    PROVE  /\ IsSeq(Recent(Append(js, j)))
           /\ \A i \in 1..Len(Recent(Append(js, j))) :
                 \/ Recent(Append(js, j))[i] = j
                 \/ \E k \in 1..Len(js) : Recent(Append(js, j))[i] = js[k]
           /\ IsTail(Recent(Append(js, j)), Append(js, j))
<1>1. PICK S : js \in Seq(S)
    BY DEF IsSeq
<1> DEFINE T == S \cup {j}
           ms == Append(js, j)
           m == Min({Len(ms), MaxReorg})
           n == Len(ms) - m
<1>2. js \in Seq(T)
    BY <1>1
<1>3. ms \in Seq(T) /\ Len(ms) = Len(js) + 1 /\ ms[Len(js) + 1] = j
      /\ \A k \in 1..Len(js) : ms[k] = js[k]
    BY <1>2
<1>4. m \in Nat /\ m <= Len(ms)
  <2>1. MaxReorg \in Nat
    BY ParamsAssumption
  <2>2. Len(ms) \in Nat
    BY <1>3
  <2> HIDE DEF ms
  <2> QED BY <2>1, <2>2, MinTwo
<1>5. n \in Nat /\ n <= Len(ms)
    BY <1>3, <1>4
<1> HIDE DEF n
<1>6. Recent(ms) = SubSeq(ms, n + 1, Len(ms))
    BY DEF Recent, n
<1> HIDE DEF ms
<1>7. Recent(ms) \in Seq(T) /\ Len(Recent(ms)) = Len(ms) - n
      /\ \A i \in 1..(Len(ms) - n) : Recent(ms)[i] = ms[n + i]
    BY <1>3, <1>5, <1>6
<1>8. \A i \in 1..(Len(ms) - n) : n + i \in 1..Len(ms)
    BY <1>3, <1>5
<1>9. \A k \in 1..Len(ms) : ms[k] = j \/ \E l \in 1..Len(js) : ms[k] = js[l]
  <2> TAKE k \in 1..Len(ms)
  <2>1. Len(js) \in Nat
    BY <1>2
  <2>2. k = Len(js) + 1 \/ k \in 1..Len(js)
    BY <2>1, <1>3
  <2> QED BY <2>2, <1>3
<1>10. IsSeq(Recent(ms))
    BY <1>7 DEF IsSeq
<1>11. IsTail(Recent(ms), ms)
    BY <1>5, <1>7 DEF IsTail
<1>12. \A i \in 1..Len(Recent(ms)) :
          Recent(ms)[i] = j \/ \E k \in 1..Len(js) : Recent(ms)[i] = js[k]
    BY <1>7, <1>8, <1>9
<1> QED BY <1>5, <1>10, <1>11, <1>12 DEF ms

\* An operation of a block that neither makes nor unmakes a tombstone.
LEMMA PushJournal ==
    ASSUME RecordInv,
           NEW a \in Accounts, NEW ops \in SUBSET Accounts,
           NEW dels \in SUBSET (Accounts \X Accounts),
           journals' = Recent(Append(journals, JournalOf(a, ops, dels))),
           UNCHANGED <<epoch, sentence>>, excused \subseteq excused',
           \A o \in Accounts : Tombstoned(validator[o]) \/ Tombstoned(validator'[o])
                                  => validator'[o] = validator[o]
    PROVE  JournalsOK' /\ MarksInOrder' /\ JournalTermsServed' /\ TombstonesKept'
<1> DEFINE j == JournalOf(a, ops, dels)
<1>1. JournalOK(j)
    BY DEF RecordInv, RecordsOK, JournalOK, JournalOf
<1>2. j.vals = [o \in ops |-> validator[o]] /\ ~j.outside
    BY DEF JournalOf
<1> HIDE DEF j
<1>3. IsSeq(journals) /\ journals' = Recent(Append(journals, j))
    BY DEF RecordInv, JournalsOK, j
<1>4. /\ IsSeq(journals')
      /\ \A i \in 1..Len(journals') :
            journals'[i] = j \/ \E k \in 1..Len(journals) : journals'[i] = journals[k]
      /\ IsTail(journals', Append(journals, j))
    BY <1>3, RecentElements
<1>5. JournalsOK'
    BY <1>1, <1>4 DEF RecordInv, JournalsOK
<1>6. JournalTermsServed'
  <2>1. Serving' = Serving
    BY DEF Serving
  <2>2. \A o \in DOMAIN j.vals \cap (Serving \ excused) : Held(j.vals[o], sentence[o])
    BY <1>2 DEF RecordInv, StoreTermsServed
  <2> SUFFICES ASSUME NEW i \in 1..Len(journals'), ~journals'[i].outside,
                      NEW o \in DOMAIN journals'[i].vals \cap (Serving \ excused)
               PROVE  Held(journals'[i].vals[o], sentence[o])
    BY <2>1 DEF JournalTermsServed
  <2>3. CASE journals'[i] = j
    BY <2>2, <2>3
  <2>4. ASSUME NEW k \in 1..Len(journals), journals'[i] = journals[k]
        PROVE  Held(journals'[i].vals[o], sentence[o])
    BY <2>4 DEF RecordInv, JournalTermsServed
  <2> QED BY <1>4, <2>3, <2>4
<1>7. TombstonesKept'
  <2> SUFFICES ASSUME NEW i \in 1..Len(journals'), ~journals'[i].outside
               PROVE  Agrees(journals'[i], validator')
    BY DEF TombstonesKept
  <2>2. CASE journals'[i] = j
    BY <2>2, <1>2 DEF Agrees
  <2>3. ASSUME NEW k \in 1..Len(journals), journals'[i] = journals[k]
        PROVE  Agrees(journals'[i], validator')
    <3>1. Agrees(journals[k], validator)
      BY <2>3 DEF RecordInv, TombstonesKept
    <3>2. DOMAIN journals[k].vals \subseteq Accounts
      BY DEF RecordInv, JournalsOK, JournalOK
    <3> QED BY <2>3, <3>1, <3>2 DEF Agrees
  <2> QED BY <1>4, <2>2, <2>3
<1>8. MarksInOrder'
  <2>1. PICK S : journals \in Seq(S)
    BY <1>3 DEF IsSeq
  <2>2. PICK n \in Nat : /\ Len(journals') = Len(Append(journals, j)) - n
                         /\ \A i \in 1..Len(journals') : journals'[i] = Append(journals, j)[n + i]
    BY <1>4 DEF IsTail
  <2> SUFFICES ASSUME NEW i \in 1..Len(journals'), NEW k \in 1..i, journals'[i].outside
               PROVE  journals'[k].outside
    BY DEF MarksInOrder
  <2>3. Len(journals) \in Nat /\ journals \in Seq(S \cup {j})
    BY <2>1
  <2>4. /\ Append(journals, j)[Len(journals) + 1] = j
        /\ Len(Append(journals, j)) = Len(journals) + 1
        /\ \A m \in 1..Len(journals) : Append(journals, j)[m] = journals[m]
    BY <2>3
  <2>5. n + i \in 1..(Len(journals) + 1) /\ k \in 1..Len(journals') /\ n + k \in 1..(n + i)
    BY <2>2, <2>3, <2>4
  <2>6. n + i \in 1..Len(journals)
    <3>1. journals'[i] = Append(journals, j)[n + i]
      BY <2>2, Zenon
    <3>2. journals'[i] # j
      BY <1>2
    <3>3. n + i # Len(journals) + 1
      BY <2>4, <3>1, <3>2, Zenon
    <3> QED BY <2>3, <2>5, <3>3
  <2>7. n + k \in 1..Len(journals)
    BY <2>3, <2>5, <2>6
  <2>8. journals'[i] = journals[n + i] /\ journals'[k] = journals[n + k]
    <3>1. /\ journals'[i] = Append(journals, j)[n + i]
          /\ journals'[k] = Append(journals, j)[n + k]
      BY <2>2, <2>5, Zenon
    <3> QED BY <2>4, <2>6, <2>7, <3>1, Zenon
  <2> QED BY <2>5, <2>6, <2>8 DEF RecordInv, MarksInOrder
<1> QED BY <1>5, <1>6, <1>7, <1>8

-----------------------------------------------------------------------------
(* The actions *)

LEMMA RecordIsNotNone == None \notin ValidatorRecords
BY NoneAssumption

LEMMA BondKeeps ==
    ASSUME RecordInv, NEW o \in Operators, NEW t \in Terms, NEW n \in BondAmounts, Bond(o, t, n)
    PROVE  RecordInv'
<1>1. o \in Accounts /\ n \in Nat /\ t \in [commission : Nat, withdrawal : Accounts]
    BY StakersAssumption
<1>2. Registration(t, n) \in ValidatorRecords /\ Registration(t, n).status = "Bonded"
      /\ Registration(t, n).jailedUntil = 0
    BY <1>1 DEF Registration, ValidatorRecords
<1>3. /\ validator' = [validator EXCEPT ![o] = Registration(t, n)]
      /\ ~Tombstoned(validator[o])
      /\ UNCHANGED <<unbonding, delegation, epoch, sentence>>
      /\ excused' = excused \cup ({o} \cap Serving)
      /\ journals' = Recent(Append(journals, JournalOf(o, {o, o}, {<<o, o>>})))
    BY DEF Bond, Sign, MayBond, Tombstoned
<1>4. RecordsOK'
    BY <1>1, <1>2, <1>3 DEF RecordInv, RecordsOK
<1>5. \A x \in Accounts : Tombstoned(validator[x]) \/ Tombstoned(validator'[x])
                             => validator'[x] = validator[x]
    BY <1>1, <1>2, <1>3 DEF Tombstoned, RecordInv, RecordsOK
<1>6. JournalsOK' /\ MarksInOrder' /\ JournalTermsServed' /\ TombstonesKept'
  <2>1. {o, o} \in SUBSET Accounts /\ {<<o, o>>} \in SUBSET (Accounts \X Accounts)
    BY <1>1
  <2> QED BY <1>1, <1>3, <1>5, <2>1, PushJournal
<1>7. StoreTermsServed'
  <2>1. Serving' = Serving /\ Serving \subseteq Accounts
    BY <1>3 DEF Serving
  <2>2. \A x \in Serving \ excused' : x # o /\ x \in Serving \ excused
    BY <1>3
  <2> QED BY <1>3, <2>1, <2>2 DEF StoreTermsServed, RecordInv, RecordsOK
<1> QED BY <1>4, <1>6, <1>7 DEF RecordInv

LEMMA DelegateKeeps ==
    ASSUME RecordInv, NEW d \in Delegators, NEW v \in Operators, NEW n \in DelegateAmounts,
           Delegate(d, v, n)
    PROVE  RecordInv'
<1>1. d \in Accounts /\ v \in Accounts /\ n \in Nat
    BY StakersAssumption
<1>2. validator[v] \in ValidatorRecords /\ validator[v].status = "Bonded"
    BY <1>1 DEF Delegate, RecordInv, RecordsOK
<1> DEFINE r == DelegatedTo(validator[v], n)
<1>3. r \in ValidatorRecords /\ r.status = "Bonded" /\ r.jailedUntil = validator[v].jailedUntil
    BY <1>1, <1>2 DEF DelegatedTo, ValidatorRecords
<1> HIDE DEF r
<1>4. /\ validator' = [validator EXCEPT ![v] = r]
      /\ UNCHANGED <<unbonding, epoch, sentence, excused>>
      /\ delegation' = [delegation EXCEPT ![<<d, v>>] = @ + n]
      /\ journals' = Recent(Append(journals, JournalOf(d, {d, v}, {<<d, v>>})))
    BY DEF Delegate, Sign, r
<1>5. RecordsOK'
    BY <1>1, <1>3, <1>4 DEF RecordInv, RecordsOK
<1>6. \A x \in Accounts : Tombstoned(validator[x]) \/ Tombstoned(validator'[x])
                             => validator'[x] = validator[x]
    BY <1>1, <1>2, <1>3, <1>4 DEF Tombstoned, RecordInv, RecordsOK
<1>7. JournalsOK' /\ MarksInOrder' /\ JournalTermsServed' /\ TombstonesKept'
  <2>1. {d, v} \in SUBSET Accounts /\ {<<d, v>>} \in SUBSET (Accounts \X Accounts)
    BY <1>1
  <2> QED BY <1>1, <1>4, <1>6, <2>1, PushJournal
<1>8. StoreTermsServed'
  <2>1. Serving' = Serving /\ Serving \subseteq Accounts
    BY <1>4 DEF Serving
  <2>2. v \notin Serving \ excused
    BY <1>2 DEF RecordInv, StoreTermsServed, Held
  <2> QED BY <1>4, <2>1, <2>2 DEF StoreTermsServed, RecordInv, RecordsOK
<1> QED BY <1>5, <1>7, <1>8 DEF RecordInv

LEMMA UnbondSelfKeeps ==
    ASSUME RecordInv, NEW o \in Operators, UnbondSelf(o)
    PROVE  RecordInv'
<1>1. o \in Accounts
    BY StakersAssumption
<1>2. validator[o] \in ValidatorRecords /\ ~Tombstoned(validator[o])
    BY <1>1 DEF UnbondSelf, RecordInv, RecordsOK, Tombstoned
<1> DEFINE r == [validator[o] EXCEPT !.self = 0, !.status = "Unbonding"]
           e == [amount |-> validator[o].self, release |-> epoch + UnbondingPeriod]
<1>3. r \in ValidatorRecords /\ r.status = "Unbonding"
    BY <1>2 DEF ValidatorRecords
<1>4. e \in UnbondingEntries
    BY <1>2, ParamsAssumption DEF ValidatorRecords, UnbondingEntries, RecordInv, RecordsOK
<1>5. validator' = [validator EXCEPT ![o] = r]
    BY <1>1, <1>2 DEF UnbondSelf, RecordInv, RecordsOK, ValidatorRecords
<1> HIDE DEF r
<1>6. /\ unbonding' = [unbonding EXCEPT ![o] = e]
      /\ UNCHANGED <<delegation, epoch, sentence, excused>>
      /\ journals' = Recent(Append(journals, JournalOf(o, {o, o}, {<<o, o>>})))
    BY DEF UnbondSelf, Sign
<1> HIDE DEF e
<1>7. RecordsOK'
    BY <1>1, <1>3, <1>4, <1>5, <1>6 DEF RecordInv, RecordsOK
<1>8. \A x \in Accounts : Tombstoned(validator[x]) \/ Tombstoned(validator'[x])
                             => validator'[x] = validator[x]
    BY <1>1, <1>2, <1>3, <1>5 DEF Tombstoned, RecordInv, RecordsOK
<1>9. JournalsOK' /\ MarksInOrder' /\ JournalTermsServed' /\ TombstonesKept'
  <2>1. {o, o} \in SUBSET Accounts /\ {<<o, o>>} \in SUBSET (Accounts \X Accounts)
    BY <1>1
  <2> QED BY <1>1, <1>6, <1>8, <2>1, PushJournal
<1>10. StoreTermsServed'
  <2>1. Serving' = Serving /\ Serving \subseteq Accounts
    BY <1>6 DEF Serving
  <2>2. \A n : Held(r, n)
    BY <1>3, RecordIsNotNone DEF Held
  <2> QED BY <1>5, <1>6, <2>1, <2>2 DEF StoreTermsServed, RecordInv, RecordsOK
<1> QED BY <1>7, <1>9, <1>10 DEF RecordInv

LEMMA WithdrawKeeps ==
    ASSUME RecordInv, NEW o \in Operators, Withdraw(o)
    PROVE  RecordInv'
<1>1. o \in Accounts
    BY StakersAssumption
<1>2. /\ unbonding' = [unbonding EXCEPT ![o] = None]
      /\ UNCHANGED <<validator, delegation, epoch, sentence, excused>>
      /\ journals' = Recent(Append(journals, JournalOf(o, {o, o}, {<<o, o>>})))
    BY DEF Withdraw, Sign
<1>3. RecordsOK' /\ StoreTermsServed'
    BY <1>1, <1>2 DEF RecordInv, RecordsOK, StoreTermsServed, Serving
<1>4. JournalsOK' /\ MarksInOrder' /\ JournalTermsServed' /\ TombstonesKept'
  <2>1. {o, o} \in SUBSET Accounts /\ {<<o, o>>} \in SUBSET (Accounts \X Accounts)
    BY <1>1
  <2> QED BY <1>1, <1>2, <2>1, PushJournal
<1> QED BY <1>3, <1>4 DEF RecordInv

LEMMA PayFeeKeeps ==
    ASSUME RecordInv, NEW a \in Accounts, NEW n \in Fees, PayFee(a, n)
    PROVE  RecordInv'
<1>1. /\ UNCHANGED <<validator, delegation, unbonding, epoch, sentence, excused>>
      /\ journals' = Recent(Append(journals, JournalOf(a, {}, {})))
    BY DEF PayFee, records, court
<1>2. RecordsOK' /\ StoreTermsServed'
    BY <1>1 DEF RecordInv, RecordsOK, StoreTermsServed, Serving
<1>3. JournalsOK' /\ MarksInOrder' /\ JournalTermsServed' /\ TombstonesKept'
  <2>1. {} \in SUBSET Accounts /\ {} \in SUBSET (Accounts \X Accounts)
    OBVIOUS
  <2> QED BY <1>1, <2>1, PushJournal
<1> QED BY <1>2, <1>3 DEF RecordInv

\* Evidence and epochs mark every journal.
LEMMA MarkJournals ==
    ASSUME RecordInv,
           journals' = [i \in DOMAIN journals |-> [journals[i] EXCEPT !.outside = TRUE]]
    PROVE  JournalsOK' /\ MarksInOrder' /\ JournalTermsServed' /\ TombstonesKept'
<1>1. PICK S : journals \in Seq(S)
    BY DEF RecordInv, JournalsOK, IsSeq
<1>2. DOMAIN journals = 1..Len(journals) /\ Len(journals) \in Nat
    BY <1>1
<1> DEFINE T == {[x EXCEPT !.outside = TRUE] : x \in S}
<1>3. \A i \in 1..Len(journals) : journals[i] \in S
    BY <1>1
<1>4. journals' \in [1..Len(journals) -> T]
    BY <1>2, <1>3
<1> HIDE DEF T
<1>5. journals' \in Seq(T) /\ Len(journals') = Len(journals)
    BY <1>2, <1>4
<1>6. \A i \in 1..Len(journals) :
         /\ JournalOK(journals'[i]) /\ journals'[i].outside
         /\ journals'[i].vals = journals[i].vals
  <2> TAKE i \in 1..Len(journals)
  <2>1. JournalOK(journals[i])
    BY DEF RecordInv, JournalsOK
  <2>2. journals'[i] = [journals[i] EXCEPT !.outside = TRUE]
    BY <1>2
  <2>3. /\ DOMAIN journals'[i] = DOMAIN journals[i] /\ journals'[i].outside = TRUE
        /\ journals'[i].vals = journals[i].vals /\ journals'[i].dels = journals[i].dels
        /\ journals'[i].unbs = journals[i].unbs
    BY <2>1, <2>2 DEF JournalOK
  <2> QED BY <2>1, <2>3 DEF JournalOK
<1>7. JournalsOK'
    BY <1>5, <1>6 DEF JournalsOK, IsSeq
<1>8. MarksInOrder'
  <2>1. \A i \in 1..Len(journals) : \A k \in 1..i : k \in 1..Len(journals)
    BY <1>2
  <2> QED BY <2>1, <1>5, <1>6 DEF MarksInOrder
<1>9. TombstonesKept' /\ JournalTermsServed'
    BY <1>5, <1>6 DEF TombstonesKept, JournalTermsServed
<1> QED BY <1>7, <1>8, <1>9

\* A slash is a natural number, and leaves naturals.
LEMMA SlashedOK ==
    ASSUME NEW r \in ValidatorRecords, NEW n \in Nat
    PROVE  Slashed(r, n) \in ValidatorRecords
<1> DEFINE fromSelf == Min({n, r.self})
<1>1. r.self \in Nat /\ r.delegated \in Nat
    BY DEF ValidatorRecords
<1>2. fromSelf \in Nat /\ fromSelf <= n /\ fromSelf <= r.self
    BY <1>1, MinTwo
<1> HIDE DEF fromSelf
<1> DEFINE fromDel == Min({n - fromSelf, r.delegated})
<1>3. n - fromSelf \in Nat
    BY <1>2
<1>4. fromDel \in Nat /\ fromDel <= r.delegated
    BY <1>1, <1>3, MinTwo
<1> HIDE DEF fromDel
<1>5. Slashed(r, n) = [r EXCEPT !.self = @ - fromSelf, !.delegated = @ - fromDel]
    BY DEF Slashed, fromSelf, fromDel
<1>6. r.self - fromSelf \in Nat /\ r.delegated - fromDel \in Nat
    BY <1>1, <1>2, <1>4
<1> QED BY <1>5, <1>6 DEF ValidatorRecords

LEMMA SlashAmountOK ==
    ASSUME NEW bonded \in Nat, NEW kind
    PROVE  SlashAmount(kind, bonded) \in Nat
<1>1. SlashBps(kind) \in {0, 100, 500}
    BY DEF SlashBps
<1>2. CASE SlashBps(kind) = 0
    BY <1>2 DEF SlashAmount, Bps
<1>3. CASE SlashBps(kind) = 100
    BY <1>3 DEF SlashAmount, Bps
<1>4. CASE SlashBps(kind) = 500
    BY <1>4 DEF SlashAmount, Bps
<1> QED BY <1>1, <1>2, <1>3, <1>4

LEMMA ApplyEvidenceKeeps ==
    ASSUME RecordInv, NEW v \in Operators, NEW kind \in EvidenceKinds, ApplyEvidence(v, kind)
    PROVE  RecordInv'
<1>1. v \in Accounts /\ validator[v] \in ValidatorRecords
    BY StakersAssumption DEF ApplyEvidence, RecordInv, RecordsOK
<1> DEFINE slash == SlashAmount(kind, validator[v].self + validator[v].delegated)
           q == Slashed(validator[v], slash)
           r == Punished(q, kind)
<1>2. q \in ValidatorRecords
  <2>1. validator[v].self + validator[v].delegated \in Nat
    BY <1>1 DEF ValidatorRecords
  <2>2. slash \in Nat
    BY <2>1, SlashAmountOK
  <2> QED BY <1>1, <2>2, SlashedOK
<1>3. validator' = [validator EXCEPT ![v] = r]
    BY DEF ApplyEvidence
<1> HIDE DEF q
<1>4. /\ r \in ValidatorRecords /\ r.status # "Bonded"
      /\ kind = "DoubleCheckpoint" => r.status = "Tombstoned"
      /\ kind # "DoubleCheckpoint" => r.jailedUntil = epoch + 1
  <2>1. epoch + JailEpochs \in Nat
    BY DEF JailEpochs, RecordInv, RecordsOK
  <2>2. CASE kind = "DoubleCheckpoint"
    BY <1>2, <2>2 DEF Punished, ValidatorRecords
  <2>3. CASE kind # "DoubleCheckpoint"
    BY <1>2, <2>1, <2>3 DEF Punished, JailEpochs, ValidatorRecords
  <2> QED BY <2>2, <2>3
<1> HIDE DEF r
<1>5. /\ UNCHANGED <<delegation, unbonding, epoch>>
      /\ journals' = [i \in DOMAIN journals |-> [journals[i] EXCEPT !.outside = TRUE]]
      /\ kind = "DoubleCheckpoint" => sentence' = sentence /\ excused' = excused
      /\ kind # "DoubleCheckpoint" => /\ sentence' = [sentence EXCEPT ![v] = epoch + 1]
                                     /\ excused' = excused \ {v}
    BY DEF ApplyEvidence, court
<1>6. RecordsOK'
    BY <1>1, <1>3, <1>4, <1>5 DEF RecordInv, RecordsOK
<1>7. StoreTermsServed'
  <2> SUFFICES ASSUME NEW o \in (Serving \ excused)'
               PROVE  Held(validator'[o], sentence'[o])
    BY DEF StoreTermsServed
  <2>1. CASE o # v
    <3>1. o \in Serving \ excused /\ sentence'[o] = sentence[o] /\ validator'[o] = validator[o]
      BY <1>1, <1>3, <1>5, <2>1 DEF Serving, RecordInv, RecordsOK
    <3> QED BY <3>1 DEF RecordInv, StoreTermsServed
  <2>2. CASE o = v
    <3>1. validator'[o] = r /\ r # None
      BY <1>1, <1>3, <1>4, <2>2, RecordIsNotNone DEF RecordInv, RecordsOK
    <3>2. CASE kind = "DoubleCheckpoint"
      BY <1>4, <3>1, <3>2 DEF Held
    <3>3. CASE kind # "DoubleCheckpoint"
      <4>1. sentence'[o] = epoch + 1 /\ epoch \in Nat
        BY <1>1, <1>5, <2>2, <3>3 DEF RecordInv, RecordsOK
      <4> QED BY <1>4, <3>1, <3>3, <4>1 DEF Held
    <3> QED BY <3>2, <3>3
  <2> QED BY <2>1, <2>2
<1>8. JournalsOK' /\ MarksInOrder' /\ JournalTermsServed' /\ TombstonesKept'
    BY <1>5, MarkJournals
<1> QED BY <1>6, <1>7, <1>8 DEF RecordInv

LEMMA AdvanceEpochKeeps ==
    ASSUME RecordInv, AdvanceEpoch
    PROVE  RecordInv'
<1>1. /\ epoch' = epoch + 1
      /\ UNCHANGED <<validator, delegation, unbonding, sentence, excused>>
      /\ journals' = [i \in DOMAIN journals |-> [journals[i] EXCEPT !.outside = TRUE]]
    BY DEF AdvanceEpoch, records, court
<1>2. RecordsOK'
    BY <1>1, SMTT(40) DEF RecordInv, RecordsOK
<1>3. StoreTermsServed'
  <2>1. Serving' \subseteq Serving
    BY <1>1 DEF Serving, RecordInv, RecordsOK
  <2> QED BY <1>1, <2>1 DEF StoreTermsServed, RecordInv
<1>4. JournalsOK' /\ MarksInOrder' /\ JournalTermsServed' /\ TombstonesKept'
    BY <1>1, MarkJournals
<1> QED BY <1>2, <1>3, <1>4 DEF RecordInv

\* Dropping the last element of a sequence.
LEMMA Shorter ==
    ASSUME NEW S, NEW s \in Seq(S), Len(s) # 0
    PROVE  LET t == SubSeq(s, 1, Len(s) - 1)
           IN  /\ t \in Seq(S) /\ Len(t) = Len(s) - 1
               /\ \A i \in 1..(Len(s) - 1) : i \in 1..Len(s) /\ t[i] = s[i]
<1> DEFINE m == Len(s) - 1
           t == SubSeq(s, 1, m)
<1>1. m \in Nat /\ Len(s) = m + 1
    OBVIOUS
<1> HIDE DEF m
<1>2. t \in Seq(S) /\ Len(t) = m /\ \A i \in 1..m : t[i] = s[i]
    BY <1>1
<1>3. \A i \in 1..m : i \in 1..Len(s)
    BY <1>1
<1> QED BY <1>2, <1>3 DEF m

LEMMA UnapplyKeeps ==
    ASSUME RecordInv, Unapply
    PROVE  RecordInv'
<1>1. PICK S : journals \in Seq(S)
    BY DEF RecordInv, JournalsOK, IsSeq
<1> DEFINE n == Len(journals)
           j == journals[n]
<1>2. n \in Nat /\ n # 0 /\ n \in 1..n
    BY <1>1 DEF Unapply
<1>3. /\ validator' = Restored(validator, j.vals) /\ delegation' = Restored(delegation, j.dels)
      /\ unbonding' = Restored(unbonding, j.unbs) /\ UNCHANGED <<epoch, sentence>>
      /\ journals' = SubSeq(journals, 1, n - 1)
      /\ excused' = excused \cup {o \in DOMAIN j.vals \cap Serving : j.outside}
    BY DEF Unapply
<1>4. journals' \in Seq(S) /\ Len(journals') = n - 1
      /\ \A i \in 1..(n - 1) : i \in 1..n /\ journals'[i] = journals[i]
    BY <1>1, <1>2, <1>3, Shorter
<1> HIDE DEF n
<1>5. JournalOK(j)
    BY <1>2 DEF RecordInv, JournalsOK, n
<1> HIDE DEF j
<1>6. RecordsOK'
    BY <1>3, <1>5 DEF RecordInv, RecordsOK, JournalOK, Restored
<1>7. JournalsOK' /\ MarksInOrder'
  <2>1. \A i \in 1..n : JournalOK(journals[i])
    BY DEF RecordInv, JournalsOK, n
  <2>2. JournalsOK'
    BY <2>1, <1>4 DEF JournalsOK, IsSeq
  <2>3. \A i \in 1..n : \A k \in 1..i : journals[i].outside => journals[k].outside
    BY DEF RecordInv, MarksInOrder, n
  <2>4. \A i \in 1..(n - 1) : \A k \in 1..i : k \in 1..(n - 1)
    BY <1>2
  <2>5. MarksInOrder'
    BY <1>4, <2>3, <2>4 DEF MarksInOrder
  <2> QED BY <2>2, <2>5
<1>8. Serving' = Serving /\ Serving \subseteq Accounts /\ excused \subseteq excused'
    BY <1>3 DEF Serving
<1>9. JournalTermsServed'
  <2>1. \A i \in 1..n : ~journals[i].outside =>
           \A o \in DOMAIN journals[i].vals \cap (Serving \ excused) :
              Held(journals[i].vals[o], sentence[o])
    BY DEF RecordInv, JournalTermsServed, n
  <2> QED BY <1>3, <1>4, <1>8, <2>1 DEF JournalTermsServed
<1>10. StoreTermsServed'
  <2> SUFFICES ASSUME NEW o \in Serving \ excused' PROVE Held(validator'[o], sentence[o])
    BY <1>3, <1>8 DEF StoreTermsServed
  <2>1. o \in Accounts /\ DOMAIN validator = Accounts /\ o \notin excused
    BY <1>8 DEF RecordInv, RecordsOK
  <2>2. CASE o \in DOMAIN j.vals
    <3>1. ~j.outside
      BY <1>3, <2>2
    <3>2. Held(j.vals[o], sentence[o])
      BY <1>2, <2>1, <2>2, <3>1 DEF RecordInv, JournalTermsServed, j, n
    <3> QED BY <1>3, <2>1, <2>2, <3>2 DEF Restored
  <2>3. CASE o \notin DOMAIN j.vals
    BY <1>3, <2>1, <2>3 DEF RecordInv, StoreTermsServed, Restored
  <2> QED BY <2>2, <2>3
<1>11. TombstonesKept'
  <2> SUFFICES ASSUME NEW i \in 1..(n - 1), ~journals[i].outside
               PROVE  Agrees(journals[i], validator')
    BY <1>4 DEF TombstonesKept
  <2>1. i \in 1..n
    BY <1>4
  <2>2. ~j.outside
    BY <1>2, <2>1 DEF RecordInv, MarksInOrder, j, n
  <2>3. Agrees(j, validator) /\ Agrees(journals[i], validator)
    BY <1>2, <2>1, <2>2 DEF RecordInv, TombstonesKept, j, n
  <2>4. DOMAIN journals[i].vals \subseteq Accounts /\ DOMAIN validator = Accounts
    BY <2>1 DEF RecordInv, RecordsOK, JournalsOK, JournalOK, n
  <2> QED BY <1>3, <2>3, <2>4 DEF Agrees, Restored
<1> QED BY <1>6, <1>7, <1>9, <1>10, <1>11 DEF RecordInv

-----------------------------------------------------------------------------
(* Theorems *)

LEMMA InitEstablishes == Init => RecordInv
<1> SUFFICES ASSUME Init PROVE RecordInv
    OBVIOUS
<1>1. RecordsOK
    BY DEF Init, RecordsOK
<1>2. journals \in Seq({}) /\ Len(journals) = 0
    BY DEF Init
<1>3. JournalsOK /\ MarksInOrder /\ JournalTermsServed /\ TombstonesKept
    BY <1>2, SMTT(40) DEF JournalsOK, IsSeq, MarksInOrder, JournalTermsServed, TombstonesKept
<1>4. StoreTermsServed
    BY DEF Init, StoreTermsServed, Serving
<1> QED BY <1>1, <1>3, <1>4 DEF RecordInv

LEMMA NextKeeps == RecordInv /\ [Next]_vars => RecordInv'
<1> SUFFICES ASSUME RecordInv, [Next]_vars PROVE RecordInv'
    OBVIOUS
<1>1. CASE UNCHANGED vars
    BY <1>1 DEF vars, accounts, records, supply, RecordInv, RecordsOK, JournalsOK, court,
                MarksInOrder, StoreTermsServed, JournalTermsServed, Serving, TombstonesKept
<1>2. CASE Next
    BY <1>2, BondKeeps, DelegateKeeps, UnbondSelfKeeps, WithdrawKeeps, PayFeeKeeps,
       ApplyEvidenceKeeps, AdvanceEpochKeeps, UnapplyKeeps DEF Next
<1> QED BY <1>1, <1>2

LEMMA Records == Spec => []RecordInv
<1> QED BY InitEstablishes, NextKeeps, PTL DEF Spec

\* Validator records, unbonding entries and delegations stay well formed: the
\* stakes that delegate, apply_evidence, begin_unbond_self and a reorg leave are
\* natural numbers, whatever is slashed.
THEOREM StakesAreNaturals == Spec => []RecordsOK
<1>1. RecordInv => RecordsOK
    BY DEF RecordInv
<1> QED BY <1>1, Records, PTL

\* A validator that apply_evidence jailed has no voting power in build_snapshot
\* until the epoch turns, also after it unbonds, while others bond, delegate and are
\* slashed, and after a reorg of the blocks since; unless it bonds anew, or a reorg
\* restores its record from before the evidence.
THEOREM JailHolds == Spec => []JailedHasNoPower
<1>1. RecordInv => JailedHasNoPower
  <2> SUFFICES ASSUME RecordInv, NEW o \in Operators, o \in Serving \ excused
               PROVE  Power(validator[o], epoch) = 0
    BY DEF JailedHasNoPower
  <2>1. o \in Accounts /\ epoch < sentence[o] /\ Held(validator[o], sentence[o])
    BY DEF Serving, RecordInv, StoreTermsServed
  <2>2. validator[o] \in ValidatorRecords /\ epoch \in Nat /\ sentence[o] \in Nat
    BY <2>1 DEF RecordInv, RecordsOK, Held
  <2>3. validator[o].jailedUntil \in Nat
    BY <2>2 DEF ValidatorRecords
  <2> QED BY <2>1, <2>2, <2>3 DEF Power, Held
<1> QED BY <1>1, Records, PTL

\* The record of a tombstoned validator is changed by further evidence and by a
\* reorg across evidence or an epoch, and by nothing else.
THEOREM TombstonesHold == Spec => TombstonedForever
<1>1. RecordInv /\ [Next]_vars =>
        [\A o \in Operators :
            /\ validator[o] # None /\ validator[o].status = "Tombstoned"
            /\ validator'[o] # validator[o]
            => \/ \E k \in EvidenceKinds : ApplyEvidence(o, k)
               \/ Unapply /\ journals[Len(journals)].outside]_vars
  <2> SUFFICES ASSUME RecordInv, Next, NEW o \in Operators, Tombstoned(validator[o]),
                      ~\E k \in EvidenceKinds : ApplyEvidence(o, k),
                      ~(Unapply /\ journals[Len(journals)].outside)
               PROVE  validator'[o] = validator[o]
    BY DEF Tombstoned
  <2>1. DOMAIN validator = Accounts /\ o \in Accounts
    BY StakersAssumption DEF RecordInv, RecordsOK
  <2>2. ASSUME NEW p \in Operators, NEW t \in Terms, NEW n \in BondAmounts, Bond(p, t, n)
        PROVE  validator'[o] = validator[o]
    BY <2>1, <2>2 DEF Bond, MayBond, Tombstoned
  <2>3. ASSUME NEW d \in Delegators, NEW v \in Operators, NEW n \in DelegateAmounts,
               Delegate(d, v, n)
        PROVE  validator'[o] = validator[o]
    BY <2>1, <2>3 DEF Delegate, Tombstoned
  <2>4. ASSUME NEW p \in Operators, UnbondSelf(p)
        PROVE  validator'[o] = validator[o]
    BY <2>1, <2>4 DEF UnbondSelf, Tombstoned
  <2>5. ASSUME NEW p \in Operators, Withdraw(p)
        PROVE  validator'[o] = validator[o]
    BY <2>5 DEF Withdraw
  <2>6. ASSUME NEW a \in Accounts, NEW n \in Fees, PayFee(a, n)
        PROVE  validator'[o] = validator[o]
    BY <2>6 DEF PayFee, records
  <2>7. ASSUME NEW v \in Operators, NEW k \in EvidenceKinds, ApplyEvidence(v, k)
        PROVE  validator'[o] = validator[o]
    <3>1. v # o
      BY <2>7
    <3> QED BY <2>1, <2>7, <3>1 DEF ApplyEvidence
  <2>8. CASE AdvanceEpoch
    BY <2>8 DEF AdvanceEpoch, records
  <2>9. CASE Unapply
    <3> DEFINE j == journals[Len(journals)]
    <3>1. Len(journals) \in 1..Len(journals)
      BY <2>9, SMTT(40) DEF Unapply, RecordInv, JournalsOK, IsSeq
    <3>2. ~j.outside
      BY <2>9
    <3>3. validator' = Restored(validator, j.vals)
      BY <2>9 DEF Unapply
    <3>4. Agrees(j, validator)
      BY <3>1, <3>2 DEF RecordInv, TombstonesKept
    <3> HIDE DEF j
    <3> QED BY <2>1, <3>3, <3>4, SMTT(40) DEF Agrees, Restored
  <2> QED BY <2>2, <2>3, <2>4, <2>5, <2>6, <2>7, <2>8, <2>9, SMTT(40) DEF Next
<1> QED BY <1>1, Records, PTL DEF Spec, TombstonedForever
=============================================================================
