------------------------------ MODULE Finality ------------------------------
(***************************************************************************)
(* Checkpoint finality of one node (node-bin/src/admit/finality.rs,        *)
(* consensus/src/finality.rs, state-machine/src/finality_store.rs).        *)
(*                                                                         *)
(* A checkpoint names a block and the state root of the moment.  It is     *)
(* final when its block is deep enough and two thirds of the active stake  *)
(* of both validator sets signed it.  Attestations come from the network   *)
(* in any order, late, repeated or never, and a validator may sign more    *)
(* than one body.                                                          *)
(*                                                                         *)
(* The validators and their stakes are those of genesis: blocks carry no   *)
(* stake operations here.  The epoch is that of genesis too, for nothing   *)
(* in the node advances it.                                                *)
(***************************************************************************)
EXTENDS Integers, FiniteSets, Sequences

CONSTANTS
    Blocks,
    Genesis,
    Order,        \* Order[b]: the blues of block b in apply order (applied_blues)
    Score,        \* blue scores
    Rank,         \* place in the order of select_virtual_tip
    Sets,         \* the validator sets, OVL and DRC
    Validators,   \* Validators[s]: the validators of set s
    Weight,       \* Weight[s][S]: the stake of the validators S of set s
    Checkpoints,  \* blocks that validators sign
    Foreign,      \* bodies signed elsewhere, on another tip or an earlier state
    MinPowDepth,  \* FinalityPowPolicy
    None          \* Option::None

ASSUME DagAssumption ==
    /\ Genesis \in Blocks /\ Checkpoints \subseteq Blocks
    /\ Order \in [Blocks -> Seq(Blocks)]
    /\ \A b \in Blocks : \E i \in 1..Len(Order[b]) : Order[b][i] = b
    /\ \A b \in Blocks : Len(Order[b]) > 0 /\ Order[b][1] = Genesis
    /\ Score \in [Blocks -> Nat] /\ Rank \in [Blocks -> Nat]
    /\ MinPowDepth \in Nat

ASSUME StakeAssumption ==
    /\ DOMAIN Validators = Sets
    /\ DOMAIN Weight = Sets
    /\ \A s \in Sets : Weight[s] \in [SUBSET Validators[s] -> Nat]

\* The stake of a set of validators is a sum.
ASSUME AdditiveAssumption ==
    \A s \in Sets : \A S, T \in SUBSET Validators[s] :
        S \cap T = {} => Weight[s][S \cup T] = Weight[s][S] + Weight[s][T]

AllValidators == UNION {Validators[s] : s \in Sets}
Groups == [Sets -> SUBSET AllValidators]
Roots == [tip : Blocks, out : Groups, frontier : Nat]
Bodies == [block : Blocks, root : Roots]
Certificates == [body : Bodies, by : Groups, without : Groups]

ASSUME ForeignAssumption == Foreign \subseteq Bodies

ASSUME NoneAssumption == None \notin Bodies /\ None \notin Certificates

VARIABLES
    known,     \* blocks with a colouring
    tip,       \* meta/virtual_tip
    out,       \* out[s]: tombstoned validators of set s
    cert,      \* cert[b]: FinalityCertificate or None
    idx,       \* idx[b][s]: signers in the AttestationIndex of block b
    last,      \* last[s][v]: body of the last attestation kept, or None
    frontier,  \* finality/tip_blue_score, -1 when there is none
    finals     \* history: the certificates that were Finalized when written

vars == <<known, tip, out, cert, idx, last, frontier, finals>>

-----------------------------------------------------------------------------
(* Checkpoints *)

\* Mutant of RootOf: no default for a missing finality tip.
RootOfRaw(t, o, f) == [tip |-> t, out |-> o, frontier |-> f]

\* The part of a body that the state root commits to and that can change under
\* a block: the state of the virtual tip, the active stake, the finality tip.
\* The finality tip is 0 when there is none (finalized_tip_commitment).
RootOf(t, o, f) == [tip |-> t, out |-> o, frontier |-> IF f = -1 THEN 0 ELSE f]

\* checkpoint_body_for block b when the virtual tip is t.
CheckpointBodyFor(b, t) == [block |-> b, root |-> RootOf(t, out, frontier)]

\* FinalityCertificate::new.  The counters signed_stake and active_stake are kept
\* as the validators they sum over: the signers, and those without power.
NewCertificate(body) ==
    [body |-> body, by |-> [s \in Sets |-> {}], without |-> [s \in Sets |-> Validators[s]]]

SignedStake(c, s) == Weight[s][c.by[s] \ c.without[s]]
ActiveStake(c, s) == Weight[s][Validators[s] \ c.without[s]]

\* Mutant of HasTwoThirdsQuorum: one factor is missing.
HasThirdQuorum(signed, active) == active > 0 /\ 3 * signed >= active

\* has_two_thirds_quorum.
HasTwoThirdsQuorum(signed, active) == active > 0 /\ 3 * signed >= 2 * active

\* evaluate_checkpoint_state: Finalized or one of the other states.
Finalized(b, c) ==
    /\ Score[b] >= MinPowDepth
    /\ \A s \in Sets : HasTwoThirdsQuorum(SignedStake(c, s), ActiveStake(c, s))

\* put_certificate_into: the frontier is the score of the last final one written.
PutCertificate(b, c) ==
    /\ cert' = [cert EXCEPT ![b] = c]
    /\ frontier' = IF Finalized(b, c) THEN Score[b] ELSE frontier
    /\ finals' = finals \cup {f \in {[block |-> b, by |-> c.by, without |-> c.without]} :
                                Finalized(b, c)}

-----------------------------------------------------------------------------
(* Blocks *)

\* The blues of the tip that block t does not keep in place: those after
\* common_prefix_len, whether or not they come again in another place.
Abandoned(t) ==
    {Order[tip][i] : i \in {n \in 1..Len(Order[tip]) :
        \E k \in 1..n : k > Len(Order[t]) \/ Order[tip][k] # Order[t][k]}}

\* guard_reorg_vs_finality.
ReorgAllowed(t) ==
    frontier # -1 /\ t # tip =>
        /\ \A x \in Abandoned(t) : Score[x] > frontier
        /\ Score[t] > frontier

\* note_pow_on_virtual_tip: the certificate of the tip gets the body of the
\* moment, and keeps its counters.
NotePow(t) ==
    LET body == CheckpointBodyFor(t, t)
    IN  PutCertificate(t, IF cert[t] = None THEN NewCertificate(body)
                                            ELSE [cert[t] EXCEPT !.body = body])

\* admit_block of a valid block: the best of tip and block becomes the tip.  When
\* its certificate cannot be written, admission goes on without.
AdmitBlock(b) ==
    LET t == IF Rank[b] > Rank[tip] THEN b ELSE tip
    IN  /\ b \notin known /\ \A i \in 1..Len(Order[b]) : Order[b][i] \in known \cup {b}
        /\ ReorgAllowed(t)
        /\ known' = known \cup {b}
        /\ tip' = t
        /\ NotePow(t) \/ UNCHANGED <<cert, frontier, finals>>
        /\ UNCHANGED <<out, idx, last>>

-----------------------------------------------------------------------------
(* Attestations *)

\* Mutant of DoubleCheckpoint: only a second body for the same block is noticed.
DoubleCheckpointOfBlock(prev, body) ==
    prev # None /\ prev # body /\ prev.block = body.block

\* detect_double_checkpoint of two attestations of a validator.
DoubleCheckpoint(prev, body) == prev # None /\ prev # body

\* admit_attestation of an active validator that has signed another body: it is
\* tombstoned, whatever either body says.
ApplyEvidence(s, v, body) ==
    /\ v \in Validators[s] \ out[s]
    /\ DoubleCheckpoint(last[s][v], body)
    /\ out' = [out EXCEPT ![s] = @ \cup {v}]
    /\ last' = [last EXCEPT ![s][v] = body]
    /\ UNCHANGED <<known, tip, cert, idx, frontier, finals>>

\* The certificate to count in: a new one if the stored one is of another body.
CertificateFor(b, body) ==
    IF cert[b] = None \/ cert[b].body # body THEN NewCertificate(body) ELSE cert[b]

\* admit_attestation of a first body, which is the one the node expects: the
\* signer enters the index, and the stake of all signers in it is counted anew.
\* Of a repeated attestation, and of one for an unknown block or another body,
\* nothing is written.
CountAttestation(s, v, body) ==
    /\ v \in Validators[s] \ out[s]
    /\ ~DoubleCheckpoint(last[s][v], body) /\ last[s][v] # body
    /\ body.block \in known /\ body = CheckpointBodyFor(body.block, tip)
    /\ idx' = [idx EXCEPT ![body.block][s] = @ \cup {v}]
    /\ last' = [last EXCEPT ![s][v] = body]
    /\ PutCertificate(body.block,
          [CertificateFor(body.block, body) EXCEPT !.by[s] = idx[body.block][s] \cup {v},
                                                   !.without[s] = out[s]])
    /\ UNCHANGED <<known, tip, out>>

\* What attestations carry: the checkpoint of a block as this node sees it now, or
\* one that was signed elsewhere or before.
Signable == {CheckpointBodyFor(b, tip) : b \in Checkpoints} \cup Foreign

-----------------------------------------------------------------------------
Init ==
    /\ known = {Genesis} /\ tip = Genesis
    /\ out = [s \in Sets |-> {}]
    /\ cert = [b \in Blocks |-> None]
    /\ idx = [b \in Blocks |-> [s \in Sets |-> {}]]
    /\ last = [s \in Sets |-> [v \in Validators[s] |-> None]]
    /\ frontier = -1 /\ finals = {}

Next ==
    \/ \E b \in Blocks : AdmitBlock(b)
    \/ \E s \in Sets, body \in Signable : \E v \in Validators[s] :
          ApplyEvidence(s, v, body) \/ CountAttestation(s, v, body)

Spec == Init /\ [][Next]_vars

-----------------------------------------------------------------------------
(* Properties *)

Counts(c) == \A s \in Sets : c.by[s] \subseteq Validators[s] /\ c.without[s] \subseteq Validators[s]

\* Types; a certificate is stored under the block its body names.
TypeOK ==
    /\ known \subseteq Blocks /\ tip \in known
    /\ out \in Groups /\ \A s \in Sets : out[s] \subseteq Validators[s]
    /\ cert \in [Blocks -> Certificates \cup {None}]
    /\ \A b \in Blocks : cert[b] # None => cert[b].body.block = b /\ Counts(cert[b])
    /\ idx \in [Blocks -> Groups]
    /\ \A b \in Blocks, s \in Sets : idx[b][s] \subseteq Validators[s]
    /\ \A s \in Sets : \A v \in Validators[s] : last[s][v] \in Bodies \cup {None}
    /\ frontier \in Nat \cup {-1}
    /\ finals \subseteq [block : known, by : Groups, without : Groups]
    /\ \A f \in finals : Counts(f)

\* admit_attestation compares with the last body a validator signed before it
\* counts: no validator's stake is ever counted for two blocks, and what a final
\* certificate counted stays in the index of its block.
CountedForOneBlock ==
    /\ \A s \in Sets : \A a, b \in Blocks : a # b => idx[a][s] \cap idx[b][s] = {}
    /\ \A f \in finals, s \in Sets : f.by[s] \subseteq idx[f.block][s]

\* Accountable safety of the dual quorum: when two blocks were both Finalized, in
\* each set validators with at least half of all stake have been tombstoned for
\* it, although active_stake shrinks with every tombstone and counters are kept
\* when a body changes.
TwoFinalsAreAccountable ==
    \A f, g \in finals : f.block # g.block =>
        \A s \in Sets : 2 * Weight[s][out[s]] >= Weight[s][Validators[s]]

\* docs/consensus/HYBRID_POW_DUAL_POS.md, checkpoint lifecycle: no transition
\* leaves Finalized.
FinalizedIsTerminal ==
    [][\A b \in Blocks : cert[b] # None /\ Finalized(b, cert[b]) => Finalized(b, cert'[b])]_vars
=============================================================================
