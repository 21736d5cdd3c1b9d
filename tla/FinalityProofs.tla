--------------------------- MODULE FinalityProofs ---------------------------
(***************************************************************************)
(* Safety of the dual quorum, for any blocks, validators and stakes.       *)
(*                                                                         *)
(* A validator enters an index only with the first body it is seen to      *)
(* sign, so the signers of different blocks are different validators.  The *)
(* stake left out of active_stake when a certificate was counted is that   *)
(* of validators tombstoned by then; of two certificates one was counted   *)
(* later and leaves out at least as many.                                  *)
(***************************************************************************)
EXTENDS Finality, TLAPS

-----------------------------------------------------------------------------
(* The invariant *)

\* The attestations kept of each validator.
LastOK ==
    /\ last \in [Sets -> UNION {[Validators[s] -> Bodies \cup {None}] : s \in Sets}]
    /\ \A s \in Sets : last[s] \in [Validators[s] -> Bodies \cup {None}]

StateOK ==
    /\ known \subseteq Blocks /\ tip \in known
    /\ out \in Groups /\ \A s \in Sets : out[s] \subseteq Validators[s]
    /\ idx \in [Blocks -> Groups]
    /\ \A b \in Blocks, s \in Sets : idx[b][s] \subseteq Validators[s]
    /\ frontier \in Nat \cup {-1}
    /\ LastOK

\* A counted signer has signed, and is counted for one block.
SignersSigned == \A b \in Blocks, s \in Sets : \A v \in idx[b][s] : last[s][v] # None
SignersApart == \A s \in Sets : \A a, b \in Blocks : a # b => idx[a][s] \cap idx[b][s] = {}

\* What a record counted for block b: signers of b, and as without power either
\* everyone (nothing was counted) or validators that are tombstoned.
CountOK(r, b) ==
    /\ r.by \in Groups /\ r.without \in Groups
    /\ \A s \in Sets :
          /\ r.by[s] \subseteq idx[b][s]
          /\ r.without[s] = Validators[s] \/ r.without[s] \subseteq out[s]

CertsOK ==
    /\ cert \in [Blocks -> Certificates \cup {None}]
    /\ \A b \in Blocks : cert[b] # None =>
          b \in known /\ cert[b].body.block = b /\ CountOK(cert[b], b)

FinalsOK ==
    /\ finals \subseteq [block : known, by : Groups, without : Groups]
    /\ \A f \in finals : CountOK(f, f.block)
    /\ \A f \in finals, s \in Sets : HasTwoThirdsQuorum(SignedStake(f, s), ActiveStake(f, s))

\* The sets left out by the counts so far are nested.
Stages(s) ==
    {cert[b].without[s] : b \in {x \in Blocks : cert[x] # None}} \cup {f.without[s] : f \in finals}
Nested(P) == \A X, Y \in P : X \subseteq Y \/ Y \subseteq X
StagesNested == \A s \in Sets : Nested(Stages(s))

FinalityInv ==
    /\ StateOK /\ SignersSigned /\ SignersApart
    /\ CertsOK /\ FinalsOK /\ StagesNested

-----------------------------------------------------------------------------
(* Stakes *)

\* AdditiveAssumption for two groups.
LEMMA Additive ==
    ASSUME NEW s \in Sets, NEW S \in SUBSET Validators[s], NEW T \in SUBSET Validators[s],
           NEW U, S \cap T = {}, U = S \cup T
    PROVE  Weight[s][U] = Weight[s][S] + Weight[s][T]
BY AdditiveAssumption

\* A smaller group has no more stake, and nobody has none.
LEMMA WeightMonotone ==
    ASSUME NEW s \in Sets, NEW T \in SUBSET Validators[s], NEW S \in SUBSET T
    PROVE  /\ Weight[s][S] \in Nat /\ Weight[s][T] \in Nat
           /\ Weight[s][S] <= Weight[s][T]
           /\ Weight[s][T] = Weight[s][S] + Weight[s][T \ S]
           /\ Weight[s][{}] = 0
<1>1. S \in SUBSET Validators[s] /\ T \ S \in SUBSET Validators[s] /\ {} \in SUBSET Validators[s]
  OBVIOUS
<1>2. S \cap (T \ S) = {} /\ S \cup (T \ S) = T /\ {} \cap {} = {} /\ {} \cup {} = {}
  OBVIOUS
<1>3. Weight[s][T] = Weight[s][S] + Weight[s][T \ S]
  <2> DEFINE R == T \ S
  <2>1. R \in SUBSET Validators[s] /\ S \cap R = {} /\ T = S \cup R
    OBVIOUS
  <2> HIDE DEF R
  <2>2. Weight[s][T] = Weight[s][S] + Weight[s][R]
    BY <1>1, <2>1, Additive
  <2> QED
    BY <2>2 DEF R
<1>4. Weight[s][{}] = Weight[s][{}] + Weight[s][{}]
  <2> DEFINE E == {}
  <2>1. E \in SUBSET Validators[s] /\ E \cap E = {} /\ E = E \cup E
    OBVIOUS
  <2> HIDE DEF E
  <2>2. Weight[s][E] = Weight[s][E] + Weight[s][E]
    BY <2>1, Additive
  <2> QED
    BY <2>2 DEF E
<1>5. /\ Weight[s][S] \in Nat /\ Weight[s][T] \in Nat /\ Weight[s][T \ S] \in Nat
      /\ Weight[s][{}] \in Nat
  BY <1>1, StakeAssumption
<1> DEFINE w1 == Weight[s][S]
           w2 == Weight[s][T]
           w3 == Weight[s][T \ S]
           w4 == Weight[s][{}]
<1>6. w2 = w1 + w3 /\ w4 = w4 + w4 /\ w1 \in Nat /\ w2 \in Nat /\ w3 \in Nat /\ w4 \in Nat
  BY <1>3, <1>4, <1>5
<1> HIDE DEF w1, w2, w3, w4
<1>7. w1 <= w2 /\ w4 = 0
  BY <1>6
<1> QED
  BY <1>6, <1>7 DEF w1, w2, w3, w4

\* The arithmetic of accountability.  S and T are disjoint groups of signers, two
\* thirds of what is active without X and, later, without Y: Y is half of all.
LEMMA HalfIsOut ==
    ASSUME NEW s \in Sets, NEW X \in SUBSET Validators[s], NEW Y \in SUBSET Validators[s],
           NEW S \in SUBSET Validators[s], NEW T \in SUBSET Validators[s],
           S \cap T = {}, X \subseteq Y,
           3 * Weight[s][S \ X] >= 2 * Weight[s][Validators[s] \ X],
           3 * Weight[s][T \ Y] >= 2 * Weight[s][Validators[s] \ Y]
    PROVE  2 * Weight[s][Y] >= Weight[s][Validators[s]]
<1> DEFINE V == Validators[s]
           W(G) == Weight[s][G]
<1>1. W(V) = W(X) + W(V \ X) /\ W(V) = W(Y) + W(V \ Y)
  <2>1. V \in SUBSET V /\ X \in SUBSET V /\ Y \in SUBSET V
    OBVIOUS
  <2>2. \A T1 \in SUBSET V : \A S1 \in SUBSET T1 : W(T1) = W(S1) + W(T1 \ S1)
    BY WeightMonotone
  <2> HIDE DEF W, V
  <2> QED
    BY <2>1, <2>2
<1>2. W(Y) = W(X) + W(Y \ X)
  BY WeightMonotone
<1>3. W(S \ X) <= W(S \ Y) + W(Y \ X)
  <2>1. S \ X \in SUBSET V /\ S \ Y \in SUBSET (S \ X)
    OBVIOUS
  <2>2. W(S \ X) = W(S \ Y) + W((S \ X) \ (S \ Y))
    BY <2>1, WeightMonotone
  <2>3. (S \ X) \ (S \ Y) \in SUBSET (Y \ X) /\ Y \ X \in SUBSET V
    OBVIOUS
  <2>4. W((S \ X) \ (S \ Y)) <= W(Y \ X) /\ W((S \ X) \ (S \ Y)) \in Nat /\ W(Y \ X) \in Nat
    BY <2>3, WeightMonotone
  <2>5. W(S \ Y) \in Nat
    BY <2>1, WeightMonotone
  <2> QED
    BY <2>2, <2>4, <2>5
<1>4. W(S \ Y) + W(T \ Y) <= W(V \ Y)
  <2>1. (S \ Y) \cup (T \ Y) \in SUBSET (V \ Y) /\ V \ Y \in SUBSET V
    OBVIOUS
  <2>2. W((S \ Y) \cup (T \ Y)) <= W(V \ Y)
    BY <2>1, WeightMonotone
  <2>3. S \ Y \in SUBSET V /\ T \ Y \in SUBSET V /\ (S \ Y) \cap (T \ Y) = {}
    OBVIOUS
  <2> QED
    BY <2>2, <2>3, AdditiveAssumption
<1>5. /\ W(V) \in Nat /\ W(X) \in Nat /\ W(Y) \in Nat /\ W(V \ X) \in Nat /\ W(V \ Y) \in Nat
      /\ W(S \ X) \in Nat /\ W(S \ Y) \in Nat /\ W(T \ Y) \in Nat /\ W(Y \ X) \in Nat
  <2>1. /\ V \in SUBSET V /\ V \ X \in SUBSET V /\ V \ Y \in SUBSET V /\ S \ X \in SUBSET V
        /\ S \ Y \in SUBSET V /\ T \ Y \in SUBSET V /\ Y \ X \in SUBSET V
    OBVIOUS
  <2> QED
    BY <2>1, StakeAssumption
<1>6. 3 * W(S \ X) >= 2 * W(V \ X) /\ 3 * W(T \ Y) >= 2 * W(V \ Y)
  OBVIOUS
<1> HIDE DEF W, V
<1> SUFFICES 2 * W(Y) >= W(V)
  BY DEF W, V
<1> QED
  BY <1>1, <1>2, <1>3, <1>4, <1>5, <1>6

-----------------------------------------------------------------------------
(* Steps *)

\* The body of any block at any tip is well formed.
LEMMA BodyType ==
    ASSUME StateOK, NEW b \in Blocks, NEW t \in Blocks
    PROVE  CheckpointBodyFor(b, t) \in Bodies /\ CheckpointBodyFor(b, t).block = b
<1>1. RootOf(t, out, frontier) \in Roots
  BY DEF StateOK, RootOf, Roots
<1> QED
  BY <1>1 DEF CheckpointBodyFor, Bodies

\* A new certificate has counted nothing.
LEMMA NewType ==
    ASSUME NEW body \in Bodies
    PROVE  /\ NewCertificate(body) \in Certificates
           /\ NewCertificate(body).body = body
           /\ \A s \in Sets : /\ NewCertificate(body).by[s] = {}
                               /\ NewCertificate(body).without[s] = Validators[s]
<1>1. \A s \in Sets : Validators[s] \in SUBSET AllValidators /\ {} \in SUBSET AllValidators
  BY DEF AllValidators
<1>2. [s \in Sets |-> {}] \in Groups /\ [s \in Sets |-> Validators[s]] \in Groups
  BY <1>1 DEF Groups
<1> QED
  BY <1>2 DEF NewCertificate, Certificates

\* The sets that a certificate may leave out after a step: as before, everyone,
\* or the tombstoned.
Fresh(c, b) ==
    /\ c \in Certificates /\ c.body.block = b
    /\ \A s \in Sets : c.without[s] \in Stages(s) \cup {Validators[s], out[s]}

\* Writing a certificate that counts signers of its block keeps the certificates
\* and the history of final ones in order.
LEMMA PutKeeps ==
    ASSUME FinalityInv, NEW b \in Blocks, NEW c, Fresh(c, b), PutCertificate(b, c),
           known \subseteq known', b \in known', out' = out, idx' \in [Blocks -> Groups],
           \A x \in Blocks, s \in Sets : idx[x][s] \subseteq idx'[x][s],
           \A s \in Sets : c.by[s] \subseteq idx'[b][s]
    PROVE  CertsOK' /\ FinalsOK' /\ StagesNested' /\ frontier' \in Nat \cup {-1}
<1> DEFINE rec == [block |-> b, by |-> c.by, without |-> c.without]
<1>c. c \in Certificates /\ c # None /\ c.by \in Groups /\ c.without \in Groups
  BY NoneAssumption DEF Fresh, Certificates
<1>1. /\ cert' \in [Blocks -> Certificates \cup {None}]
      /\ cert'[b] = c
      /\ \A x \in Blocks : x # b => cert'[x] = cert[x]
  BY <1>c DEF PutCertificate, FinalityInv, CertsOK
<1>2. /\ finals \subseteq finals' /\ finals' \subseteq finals \cup {rec}
      /\ rec \in finals' \ finals => Finalized(b, c)
  BY DEF PutCertificate
<1>3. \A s \in Sets : Stages(s)' \subseteq Stages(s) \cup {c.without[s]}
  BY <1>1, <1>2 DEF Stages
<1>4. \A s \in Sets : \A X \in Stages(s) : X = Validators[s] \/ X \subseteq out[s]
  BY DEF Stages, FinalityInv, CertsOK, FinalsOK, CountOK
<1>5. \A s \in Sets : c.without[s] = Validators[s] \/ c.without[s] \subseteq out[s]
  BY <1>4 DEF Fresh
<1>6. CountOK(c, b)'
  BY <1>c, <1>5 DEF CountOK
<1>7. \A r, x : x \in Blocks /\ CountOK(r, x) => CountOK(r, x)'
  BY DEF CountOK
<1>8. CertsOK'
  BY <1>1, <1>6, <1>7, <1>c DEF CertsOK, FinalityInv, Fresh
<1>9. FinalsOK'
  <2>1. rec.block = b /\ rec.by = c.by /\ rec.without = c.without
    OBVIOUS
  <2>2. rec \in [block : known', by : Groups, without : Groups]
    BY <1>c
  <2>3. finals' \subseteq [block : known', by : Groups, without : Groups]
    BY <1>2, <2>2 DEF FinalityInv, FinalsOK
  <2>4. CountOK(rec, rec.block)'
    BY <1>6, <2>1 DEF CountOK
  <2>5. \A f \in finals : f.block \in Blocks /\ CountOK(f, f.block)
    BY DEF FinalityInv, FinalsOK, StateOK
  <2>6. \A f \in finals' : CountOK(f, f.block)'
    <3> SUFFICES ASSUME NEW f \in finals' PROVE CountOK(f, f.block)'
      OBVIOUS
    <3>1. CASE f \in finals
      BY <3>1, <2>5, <1>7
    <3>2. CASE f = rec
      BY <3>2, <2>4
    <3> QED
      BY <3>1, <3>2, <1>2
  <2>7. \A f \in finals', s \in Sets : HasTwoThirdsQuorum(SignedStake(f, s), ActiveStake(f, s))
    <3> SUFFICES ASSUME NEW f \in finals', NEW s \in Sets
                 PROVE HasTwoThirdsQuorum(SignedStake(f, s), ActiveStake(f, s))
      OBVIOUS
    <3>1. CASE f \in finals
      BY <3>1 DEF FinalityInv, FinalsOK
    <3>2. CASE f = rec /\ f \notin finals
      <4>1. SignedStake(f, s) = SignedStake(c, s) /\ ActiveStake(f, s) = ActiveStake(c, s)
        BY <3>2, <2>1 DEF SignedStake, ActiveStake
      <4> QED
        BY <4>1, <3>2, <1>2 DEF Finalized
    <3> QED
      BY <3>1, <3>2, <1>2
  <2> QED
    BY <2>3, <2>6, <2>7 DEF FinalsOK
<1>10. StagesNested'
  <2> SUFFICES ASSUME NEW s \in Sets PROVE Nested(Stages(s)')
    BY DEF StagesNested, Nested
  <2>1. Nested(Stages(s))
    BY DEF FinalityInv, StagesNested
  <2>2. \A X \in Stages(s) : X \subseteq Validators[s]
    BY <1>4 DEF FinalityInv, StateOK
  <2>3. out[s] \subseteq Validators[s]
    BY DEF FinalityInv, StateOK
  <2>4. c.without[s] \in Stages(s) \cup {Validators[s], out[s]}
    BY DEF Fresh
  <2>5. Nested(Stages(s) \cup {c.without[s]})
    BY <2>1, <2>2, <2>3, <2>4, <1>4 DEF Nested
  <2> QED
    BY <2>5, <1>3 DEF Nested
<1>11. frontier' \in Nat \cup {-1}
  BY DagAssumption DEF PutCertificate, FinalityInv, StateOK
<1> QED
  BY <1>8, <1>9, <1>10, <1>11

LEMMA InitFinality == Init => FinalityInv
<1> SUFFICES ASSUME Init PROVE FinalityInv
  OBVIOUS
<1> USE DEF Init
<1>1. [s \in Sets |-> {}] \in Groups
  BY DEF Groups
<1>2. LastOK
  <2>1. \A s \in Sets : [v \in Validators[s] |-> None] \in [Validators[s] -> Bodies \cup {None}]
    OBVIOUS
  <2> QED
    BY <2>1 DEF LastOK
<1>3. StateOK
  BY <1>1, <1>2, DagAssumption DEF StateOK
<1>4. SignersSigned /\ SignersApart
  BY DEF SignersSigned, SignersApart
<1>5. CertsOK /\ FinalsOK
  BY DEF CertsOK, FinalsOK
<1>6. StagesNested
  BY DEF StagesNested, Nested, Stages
<1> QED
  BY <1>3, <1>4, <1>5, <1>6 DEF FinalityInv

\* A step that writes nothing of finality: the DAG may grow and the tip may move.
LEMMA QuietKeeps ==
    ASSUME FinalityInv, known \subseteq known', known' \subseteq Blocks, tip' \in known',
           UNCHANGED <<out, cert, idx, last, frontier, finals>>
    PROVE  FinalityInv'
<1>1. StateOK' /\ SignersSigned' /\ SignersApart'
  BY DEF FinalityInv, StateOK, LastOK, SignersSigned, SignersApart
<1>2. \A r, x : CountOK(r, x) => CountOK(r, x)'
  BY DEF CountOK
<1>3. CertsOK'
  BY <1>2 DEF FinalityInv, CertsOK
<1>4. FinalsOK'
  <2>1. \A f \in finals : CountOK(f, f.block)'
    BY <1>2 DEF FinalityInv, FinalsOK
  <2>2. finals' \subseteq [block : known', by : Groups, without : Groups]
    BY DEF FinalityInv, FinalsOK
  <2> QED
    BY <2>1, <2>2 DEF FinalityInv, FinalsOK
<1>5. StagesNested'
  BY DEF FinalityInv, StagesNested, Stages
<1> QED
  BY <1>1, <1>3, <1>4, <1>5 DEF FinalityInv

\* Admission when the certificate of the tip is written.
LEMMA NotedKeeps ==
    ASSUME FinalityInv, NEW b \in Blocks, AdmitBlock(b),
           NotePow(IF Rank[b] > Rank[tip] THEN b ELSE tip)
    PROVE  FinalityInv'
<1> DEFINE t == IF Rank[b] > Rank[tip] THEN b ELSE tip
           body == CheckpointBodyFor(t, t)
           c == IF cert[t] = None THEN NewCertificate(body) ELSE [cert[t] EXCEPT !.body = body]
<1>1. /\ known' = known \cup {b} /\ tip' = t /\ NotePow(t)
      /\ out' = out /\ idx' = idx /\ last' = last
  BY DEF AdmitBlock
<1>2. t \in known' /\ t \in Blocks /\ known' \subseteq Blocks
  BY <1>1 DEF FinalityInv, StateOK
<1>3. body \in Bodies /\ body.block = t
  BY <1>2, BodyType DEF FinalityInv
<1>4. PutCertificate(t, c)
  BY <1>1 DEF NotePow
<1> HIDE DEF t, body
<1>5. Fresh(c, t) /\ \A s \in Sets : c.by[s] \subseteq idx'[t][s]
  <2>1. CASE cert[t] = None
    BY <2>1, <1>3, NewType DEF Fresh
  <2>2. CASE cert[t] # None
    <3>1. cert[t] \in Certificates /\ CountOK(cert[t], t)
      BY <2>2, <1>2 DEF FinalityInv, CertsOK
    <3>2. /\ c \in Certificates /\ c.body = body
          /\ c.by = cert[t].by /\ c.without = cert[t].without
      BY <2>2, <3>1, <1>3 DEF Certificates
    <3>3. \A s \in Sets : cert[t].without[s] \in Stages(s)
      BY <2>2, <1>2 DEF Stages
    <3> HIDE DEF c
    <3> QED
      BY <3>1, <3>2, <3>3, <1>1, <1>3 DEF Fresh, CountOK
  <2> QED
    BY <2>1, <2>2
<1> HIDE DEF c
<1>6. idx' \in [Blocks -> Groups]
  BY <1>1 DEF FinalityInv, StateOK
<1>7. CertsOK' /\ FinalsOK' /\ StagesNested' /\ frontier' \in Nat \cup {-1}
  BY <1>1, <1>2, <1>4, <1>5, <1>6, PutKeeps
<1>8. StateOK'
  BY <1>1, <1>2, <1>7 DEF FinalityInv, StateOK, LastOK
<1>9. SignersSigned' /\ SignersApart'
  BY <1>1 DEF FinalityInv, SignersSigned, SignersApart
<1> QED
  BY <1>7, <1>8, <1>9 DEF FinalityInv

LEMMA AdmitKeeps ==
    ASSUME FinalityInv, NEW b \in Blocks, AdmitBlock(b)
    PROVE  FinalityInv'
<1>1. CASE NotePow(IF Rank[b] > Rank[tip] THEN b ELSE tip)
  BY <1>1, NotedKeeps
<1>2. CASE UNCHANGED <<cert, frontier, finals>>
  <2>1. /\ known' = known \cup {b} /\ tip' \in {b, tip}
        /\ out' = out /\ idx' = idx /\ last' = last
    BY DEF AdmitBlock
  <2>2. known \subseteq known' /\ known' \subseteq Blocks /\ tip' \in known'
    BY <2>1 DEF FinalityInv, StateOK
  <2> QED
    BY <1>2, <2>1, <2>2, QuietKeeps
<1> QED
  BY <1>1, <1>2 DEF AdmitBlock

\* Keeping a body of a validator changes nothing else in last.
LEMMA LastStep ==
    ASSUME LastOK, NEW s \in Sets, NEW v \in Validators[s], NEW body \in Bodies,
           last' = [last EXCEPT ![s][v] = body]
    PROVE  /\ LastOK'
           /\ last'[s][v] = body
           /\ \A z \in Sets : \A w \in Validators[z] : last[z][w] # None => last'[z][w] # None
<1> DEFINE ls == [last[s] EXCEPT ![v] = body]
<1>1. ls \in [Validators[s] -> Bodies \cup {None}] /\ ls[v] = body
      /\ \A w \in Validators[s] : w # v => ls[w] = last[s][w]
  BY DEF LastOK
<1>2. DOMAIN last = Sets
  BY DEF LastOK
<1>3. last' = [last EXCEPT ![s] = ls]
  BY <1>2
<1> HIDE DEF ls
<1>4. last'[s] = ls /\ \A z \in Sets : z # s => last'[z] = last[z]
  BY <1>2, <1>3
<1>5. \A z \in Sets : last'[z] \in [Validators[z] -> Bodies \cup {None}]
  BY <1>1, <1>4 DEF LastOK
<1>6. last' \in [Sets -> UNION {[Validators[z] -> Bodies \cup {None}] : z \in Sets}]
  BY <1>1, <1>3 DEF LastOK
<1>7. body # None
  BY NoneAssumption
<1> QED
  BY <1>1, <1>4, <1>5, <1>6, <1>7 DEF LastOK

LEMMA EvidenceKeeps ==
    ASSUME FinalityInv, NEW s \in Sets, NEW v \in Validators[s], NEW body \in Bodies,
           ApplyEvidence(s, v, body)
    PROVE  FinalityInv'
<1>1. /\ out' = [out EXCEPT ![s] = @ \cup {v}] /\ last' = [last EXCEPT ![s][v] = body]
      /\ known' = known /\ tip' = tip /\ cert' = cert /\ idx' = idx
      /\ frontier' = frontier /\ finals' = finals
  BY DEF ApplyEvidence
<1>2. /\ LastOK'
      /\ \A z \in Sets : \A w \in Validators[z] : last[z][w] # None => last'[z][w] # None
  BY <1>1, LastStep DEF FinalityInv, StateOK
<1>3. out' \in Groups /\ \A z \in Sets : out[z] \subseteq out'[z] /\ out'[z] \subseteq Validators[z]
  BY <1>1 DEF FinalityInv, StateOK, Groups, AllValidators
<1>4. StateOK'
  BY <1>1, <1>2, <1>3 DEF FinalityInv, StateOK
<1>5. SignersSigned' /\ SignersApart'
  BY <1>1, <1>2 DEF FinalityInv, StateOK, SignersSigned, SignersApart
<1>6. \A r, x : CountOK(r, x) => CountOK(r, x)'
  BY <1>1, <1>3 DEF CountOK
<1>7. CertsOK'
  BY <1>1, <1>6 DEF FinalityInv, CertsOK
<1>8. FinalsOK'
  <2>1. \A f \in finals : CountOK(f, f.block)'
    BY <1>6 DEF FinalityInv, FinalsOK
  <2> QED
    BY <1>1, <2>1 DEF FinalityInv, FinalsOK
<1>9. StagesNested'
  BY <1>1 DEF FinalityInv, StagesNested, Stages
<1> QED
  BY <1>4, <1>5, <1>7, <1>8, <1>9 DEF FinalityInv

LEMMA CountKeeps ==
    ASSUME FinalityInv, NEW s \in Sets, NEW v \in Validators[s], NEW body \in Bodies,
           CountAttestation(s, v, body)
    PROVE  FinalityInv'
<1> DEFINE b == body.block
           c0 == CertificateFor(b, body)
           signers == idx[b][s] \cup {v}
           c == [c0 EXCEPT !.by[s] = signers, !.without[s] = out[s]]
<1>1. /\ v \notin out[s] /\ last[s][v] = None
      /\ b \in known /\ last' = [last EXCEPT ![s][v] = body]
      /\ idx' = [idx EXCEPT ![b][s] = @ \cup {v}]
      /\ PutCertificate(b, c)
      /\ known' = known /\ tip' = tip /\ out' = out
  BY DEF CountAttestation, DoubleCheckpoint
<1>2. b \in Blocks
  BY <1>1 DEF FinalityInv, StateOK
<1>3. /\ LastOK' /\ last'[s][v] # None
      /\ \A z \in Sets : \A w \in Validators[z] : last[z][w] # None => last'[z][w] # None
  <2>1. last' = [last EXCEPT ![s][v] = body] /\ LastOK
    BY <1>1 DEF FinalityInv, StateOK
  <2>2. body # None
    BY NoneAssumption
  <2>3. /\ LastOK' /\ last'[s][v] = body
        /\ \A z \in Sets : \A w \in Validators[z] : last[z][w] # None => last'[z][w] # None
    BY <2>1, LastStep
  <2> QED
    BY <2>2, <2>3
<1>4. \A x \in Blocks : v \notin idx[x][s]
  BY <1>1 DEF FinalityInv, SignersSigned
<1>5. /\ idx' \in [Blocks -> Groups]
      /\ idx'[b][s] = signers
      /\ \A x \in Blocks, z \in Sets : x # b \/ z # s => idx'[x][z] = idx[x][z]
  <2> DEFINE ib == [idx[b] EXCEPT ![s] = signers]
  <2>1. idx \in [Blocks -> Groups] /\ v \in AllValidators
    BY DEF FinalityInv, StateOK, AllValidators
  <2>2. idx[b] \in Groups /\ signers \in SUBSET AllValidators
    BY <1>2, <2>1 DEF Groups
  <2>3. ib \in Groups /\ ib[s] = signers /\ \A z \in Sets : z # s => ib[z] = idx[b][z]
    BY <2>2 DEF Groups
  <2>4. idx' = [idx EXCEPT ![b] = ib]
    BY <1>1, <1>2, <2>1
  <2> HIDE DEF ib, signers, b
  <2> QED
    BY <1>2, <2>1, <2>3, <2>4
<1>6. \A x \in Blocks, z \in Sets : idx[x][z] \subseteq idx'[x][z] /\ idx'[x][z] \subseteq Validators[z]
  BY <1>2, <1>5 DEF FinalityInv, StateOK
<1>7. /\ c0 \in Certificates /\ c0.body = body
      /\ \A z \in Sets : /\ c0.by[z] \subseteq idx[b][z]
                          /\ c0.without[z] \in Stages(z) \cup {Validators[z]}
  <2>1. CASE cert[b] = None \/ cert[b].body # body
    BY <2>1, NewType DEF CertificateFor
  <2>2. CASE ~(cert[b] = None \/ cert[b].body # body)
    <3>1. c0 = cert[b] /\ cert[b] \in Certificates /\ CountOK(cert[b], b)
      BY <2>2, <1>2 DEF CertificateFor, FinalityInv, CertsOK
    <3>2. \A z \in Sets : cert[b].without[z] \in Stages(z)
      BY <2>2, <1>2 DEF Stages
    <3> QED
      BY <2>2, <3>1, <3>2 DEF CountOK
  <2> QED
    BY <2>1, <2>2
<1> HIDE DEF c0
<1>8. /\ c \in Certificates /\ c.body = body
      /\ c.by[s] = signers /\ c.without[s] = out[s]
      /\ \A z \in Sets : z # s => c.by[z] = c0.by[z] /\ c.without[z] = c0.without[z]
  <2>1. signers \in SUBSET AllValidators /\ out[s] \in SUBSET AllValidators
    BY <1>2 DEF FinalityInv, StateOK, Groups, AllValidators
  <2>2. c0.by \in Groups /\ c0.without \in Groups
    BY <1>7 DEF Certificates
  <2>3. c = [c0 EXCEPT !.by = [c0.by EXCEPT ![s] = signers],
                       !.without = [c0.without EXCEPT ![s] = out[s]]]
    BY <1>7 DEF Certificates
  <2> HIDE DEF signers, c
  <2> DEFINE by == [c0.by EXCEPT ![s] = signers]
             wo == [c0.without EXCEPT ![s] = out[s]]
  <2>4. /\ by \in Groups /\ by[s] = signers /\ \A z \in Sets : z # s => by[z] = c0.by[z]
        /\ wo \in Groups /\ wo[s] = out[s] /\ \A z \in Sets : z # s => wo[z] = c0.without[z]
    BY <2>1, <2>2 DEF Groups
  <2> HIDE DEF by, wo
  <2>5. c = [c0 EXCEPT !.by = by, !.without = wo]
    BY <2>3 DEF by, wo
  <2>6. c \in Certificates /\ c.body = c0.body /\ c.by = by /\ c.without = wo
    BY <1>7, <2>4, <2>5 DEF Certificates
  <2> QED
    BY <1>7, <2>4, <2>6
<1>9. Fresh(c, b)
  <2> HIDE DEF c
  <2> QED
    BY <1>7, <1>8 DEF Fresh
<1>10. \A z \in Sets : c.by[z] \subseteq idx'[b][z]
  <2> HIDE DEF c
  <2> QED
    BY <1>2, <1>5, <1>7, <1>8
<1>11. CertsOK' /\ FinalsOK' /\ StagesNested' /\ frontier' \in Nat \cup {-1}
  <2> HIDE DEF c, b, signers
  <2> QED
    BY <1>1, <1>2, <1>5, <1>6, <1>9, <1>10, PutKeeps
<1>12. StateOK'
  BY <1>1, <1>3, <1>5, <1>6, <1>11 DEF FinalityInv, StateOK
<1>13. SignersSigned'
  <2> SUFFICES ASSUME NEW x \in Blocks, NEW z \in Sets, NEW w \in idx'[x][z]
               PROVE  last'[z][w] # None
    BY DEF SignersSigned
  <2>1. CASE w \in idx[x][z]
    BY <2>1, <1>3 DEF FinalityInv, SignersSigned, StateOK
  <2>2. CASE w \notin idx[x][z]
    BY <2>2, <1>3, <1>5 DEF signers
  <2> QED
    BY <2>1, <2>2
<1>14. SignersApart'
  <2> SUFFICES ASSUME NEW z \in Sets, NEW x \in Blocks, NEW y \in Blocks, x # y
               PROVE  idx'[x][z] \cap idx'[y][z] = {}
    BY DEF SignersApart
  <2>1. idx[x][z] \cap idx[y][z] = {}
    BY DEF FinalityInv, SignersApart
  <2> QED
    BY <2>1, <1>4, <1>5 DEF signers
<1> QED
  BY <1>11, <1>12, <1>13, <1>14 DEF FinalityInv

LEMMA FinalityStep == FinalityInv /\ [Next]_vars => FinalityInv'
<1> SUFFICES ASSUME FinalityInv, [Next]_vars PROVE FinalityInv'
  OBVIOUS
<1>1. ASSUME NEW b \in Blocks, AdmitBlock(b) PROVE FinalityInv'
  BY <1>1, AdmitKeeps
<1>2. Signable \subseteq Bodies
  <2>1. \A b \in Blocks, t \in Blocks : CheckpointBodyFor(b, t) \in Bodies
    BY BodyType DEF FinalityInv
  <2> QED
    BY <2>1, DagAssumption, ForeignAssumption DEF Signable, FinalityInv, StateOK
<1>3. ASSUME NEW s \in Sets, NEW body \in Signable, NEW v \in Validators[s],
             ApplyEvidence(s, v, body)
      PROVE  FinalityInv'
  BY <1>2, <1>3, EvidenceKeeps
<1>4. ASSUME NEW s \in Sets, NEW body \in Signable, NEW v \in Validators[s],
             CountAttestation(s, v, body)
      PROVE  FinalityInv'
  BY <1>2, <1>4, CountKeeps
<1>5. CASE UNCHANGED vars
  BY <1>5, QuietKeeps DEF vars, FinalityInv, StateOK
<1> QED
  BY <1>1, <1>3, <1>4, <1>5 DEF Next

LEMMA FinalityInvariance == Spec => []FinalityInv
BY InitFinality, FinalityStep, PTL DEF Spec

-----------------------------------------------------------------------------
(* Theorems *)

\* Types of blocks, certificates, indexes and attestations.
THEOREM Typing == Spec => []TypeOK
<1>1. FinalityInv => TypeOK
  <2> SUFFICES ASSUME FinalityInv PROVE TypeOK
    OBVIOUS
  <2>1. \A r, b : b \in Blocks /\ CountOK(r, b) => Counts(r)
    BY DEF FinalityInv, StateOK, CountOK, Counts
  <2>2. \A b \in Blocks : cert[b] # None => cert[b].body.block = b /\ Counts(cert[b])
    BY <2>1 DEF FinalityInv, CertsOK
  <2>3. \A f \in finals : Counts(f)
    BY <2>1 DEF FinalityInv, FinalsOK, StateOK
  <2>4. \A s \in Sets : \A v \in Validators[s] : last[s][v] \in Bodies \cup {None}
    BY DEF FinalityInv, StateOK, LastOK
  <2> QED
    BY <2>2, <2>3, <2>4 DEF FinalityInv, StateOK, CertsOK, FinalsOK, TypeOK
<1> QED
  BY <1>1, FinalityInvariance, PTL

\* admit_attestation counts a validator for one block only, in any order of
\* blocks and attestations.
THEOREM OneBlockPerValidator == Spec => []CountedForOneBlock
<1>1. FinalityInv => CountedForOneBlock
  BY DEF FinalityInv, SignersApart, FinalsOK, CountOK, CountedForOneBlock
<1> QED
  BY <1>1, FinalityInvariance, PTL

\* Two Finalized blocks cost half of the stake of both sets.
THEOREM Accountability == Spec => []TwoFinalsAreAccountable
<1>1. FinalityInv => TwoFinalsAreAccountable
  <2> SUFFICES ASSUME FinalityInv, NEW f \in finals, NEW g \in finals, f.block # g.block,
                      NEW s \in Sets
               PROVE  2 * Weight[s][out[s]] >= Weight[s][Validators[s]]
    BY DEF TwoFinalsAreAccountable
  <2>1. ASSUME NEW h \in finals
        PROVE  /\ h.block \in Blocks /\ h.by[s] \subseteq idx[h.block][s]
               /\ h.by[s] \in SUBSET Validators[s] /\ h.without[s] \in SUBSET Validators[s]
               /\ h.without[s] \subseteq out[s] /\ h.without[s] \in Stages(s)
               /\ 3 * Weight[s][h.by[s] \ h.without[s]] >= 2 * Weight[s][Validators[s] \ h.without[s]]
    <3>1. h.block \in Blocks /\ CountOK(h, h.block)
      BY DEF FinalityInv, FinalsOK, StateOK
    <3>2. h.by[s] \subseteq Validators[s] /\ out[s] \subseteq Validators[s]
      BY <3>1 DEF CountOK, FinalityInv, StateOK
    <3>3. HasTwoThirdsQuorum(SignedStake(h, s), ActiveStake(h, s))
      BY DEF FinalityInv, FinalsOK
    <3>4. h.without[s] # Validators[s]
      <4> SUFFICES ASSUME h.without[s] = Validators[s] PROVE FALSE
        OBVIOUS
      <4>1. Validators[s] \ h.without[s] = {} /\ {} \in SUBSET Validators[s]
        OBVIOUS
      <4>2. Weight[s][{}] = 0
        BY <4>1, WeightMonotone
      <4> QED
        BY <3>3, <4>1, <4>2 DEF HasTwoThirdsQuorum, ActiveStake
    <3>5. h.without[s] \in Stages(s)
      BY DEF Stages
    <3> QED
      BY <3>1, <3>2, <3>3, <3>4, <3>5 DEF CountOK, HasTwoThirdsQuorum, SignedStake, ActiveStake
  <2>2. f.by[s] \cap g.by[s] = {} /\ g.by[s] \cap f.by[s] = {}
    <3>1. idx[f.block][s] \cap idx[g.block][s] = {}
      BY <2>1 DEF FinalityInv, SignersApart
    <3> QED
      BY <2>1, <3>1
  <2>3. f.without[s] \subseteq g.without[s] \/ g.without[s] \subseteq f.without[s]
    BY <2>1 DEF FinalityInv, StagesNested, Nested
  <2>4. \E Y \in SUBSET out[s] : Y \in SUBSET Validators[s] /\ 2 * Weight[s][Y] >= Weight[s][Validators[s]]
    <3>1. CASE f.without[s] \subseteq g.without[s]
      <4>1. 2 * Weight[s][g.without[s]] >= Weight[s][Validators[s]]
        BY <2>1, <2>2, <3>1, HalfIsOut
      <4> QED
        BY <2>1, <4>1
    <3>2. CASE g.without[s] \subseteq f.without[s]
      <4>1. 2 * Weight[s][f.without[s]] >= Weight[s][Validators[s]]
        BY <2>1, <2>2, <3>2, HalfIsOut
      <4> QED
        BY <2>1, <4>1
    <3> QED
      BY <2>3, <3>1, <3>2
  <2>5. PICK Y \in SUBSET out[s] : 2 * Weight[s][Y] >= Weight[s][Validators[s]]
    BY <2>4
  <2>6. out[s] \in SUBSET Validators[s] /\ Validators[s] \in SUBSET Validators[s]
    BY DEF FinalityInv, StateOK
  <2>7. /\ Weight[s][Y] \in Nat /\ Weight[s][out[s]] \in Nat
        /\ Weight[s][Y] <= Weight[s][out[s]] /\ Weight[s][Validators[s]] \in Nat
    BY <2>6, WeightMonotone
  <2> QED
    BY <2>5, <2>7
<1> QED
  BY <1>1, FinalityInvariance, PTL
=============================================================================
