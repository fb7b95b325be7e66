------------------------------- MODULE Config -------------------------------
(***************************************************************************)
(* Config of config.rs: what validate() accepts, the two accessors of the  *)
(* election timeout's range, and the range that Raft draws it from, which  *)
(* Raft::new takes from the fields and not from the accessors.             *)
(***************************************************************************)
EXTENDS Naturals, TLAPS

CONSTANT Words   \* 2^w, for the width w of usize

Word == 0..Words - 1

Configs == [id : Nat, election_tick : Word, heartbeat_tick : Word,
            min_election_tick : Word, max_election_tick : Word,
            max_inflight_msgs : Word, lease_based : BOOLEAN, check_quorum : BOOLEAN]

InvalidId == 0

\* What the accessors return: the first tests election_tick for its default,
\* the second never answers its field.
MinElectionTick(cfg) ==
  IF cfg.election_tick = 0 THEN cfg.election_tick ELSE cfg.min_election_tick
MaxElectionTick(cfg) ==
  IF cfg.max_election_tick = 0 THEN (2 * cfg.election_tick) % Words ELSE cfg.election_tick

Validates(cfg) ==
  /\ cfg.id # InvalidId
  /\ cfg.heartbeat_tick > 0
  /\ cfg.election_tick > cfg.heartbeat_tick
  /\ MinElectionTick(cfg) >= cfg.election_tick
  /\ MinElectionTick(cfg) < MaxElectionTick(cfg)
  /\ cfg.max_inflight_msgs > 0
  /\ cfg.lease_based => cfg.check_quorum

\* gen_range(low, high) of the external crate rand panics when there is
\* nothing in low..high-1; reset_randomized_election_timeout() draws the
\* timeout from it, in Raft::new already.
GenRange(low, high) == {n \in Word : low <= n /\ n < high}
Timeouts(cfg) == GenRange(cfg.min_election_tick, cfg.max_election_tick)
-----------------------------------------------------------------------------
\* Every configuration that validate() (config.rs:89-135) accepts leaves
\* nothing to draw: with a max_election_tick of its own, the accessor answers
\* election_tick and validate() refuses, and without one the field that
\* Raft::new copies (raft.rs:203-204) is 0.  So Raft::new panics, whatever
\* the configuration.
THEOREM NoTimeoutToDraw ==
  ASSUME NEW cfg \in Configs, Validates(cfg)
  PROVE  Timeouts(cfg) = {}
<1>1. cfg.election_tick \in Nat /\ cfg.min_election_tick \in Nat /\ cfg.max_election_tick \in Nat
      /\ cfg.heartbeat_tick \in Nat
  BY DEF Configs, Word
<1>2. cfg.election_tick > 0 /\ MinElectionTick(cfg) = cfg.min_election_tick
  BY <1>1 DEF Validates, MinElectionTick
<1>3. cfg.max_election_tick = 0
  BY <1>1, <1>2 DEF Validates, MaxElectionTick
<1> QED BY <1>1, <1>2, <1>3 DEF Timeouts, GenRange, Word

\* With the accessors in place of the fields there is a timeout to draw, and
\* each is an election_tick at least and less than two.
THEOREM AccessorsLeaveTimeouts ==
  ASSUME Words \in Nat \ {0}, NEW cfg \in Configs, Validates(cfg)
  PROVE  LET drawn == GenRange(MinElectionTick(cfg), MaxElectionTick(cfg))
         IN  /\ drawn # {}
             /\ \A n \in drawn : cfg.election_tick <= n /\ n < 2 * cfg.election_tick
<1>1. /\ cfg.election_tick \in Nat /\ cfg.max_election_tick \in Nat /\ cfg.heartbeat_tick \in Nat
      /\ cfg.min_election_tick \in Nat /\ cfg.min_election_tick \in Word
  BY DEF Configs, Word
<1>2. cfg.election_tick > 0 /\ MinElectionTick(cfg) = cfg.min_election_tick
  BY <1>1 DEF Validates, MinElectionTick
<1>3. cfg.max_election_tick = 0
  BY <1>1, <1>2 DEF Validates, MaxElectionTick
<1>4. /\ MaxElectionTick(cfg) = (2 * cfg.election_tick) % Words
      /\ MaxElectionTick(cfg) \in Nat /\ MaxElectionTick(cfg) <= 2 * cfg.election_tick
  <2>1. MaxElectionTick(cfg) = (2 * cfg.election_tick) % Words
    BY <1>3 DEF MaxElectionTick
  <2>2. \A k \in Nat : k % Words \in Nat /\ k % Words <= k
    OBVIOUS
  <2>3. 2 * cfg.election_tick \in Nat
    BY <1>1
  <2> QED BY <2>1, <2>2, <2>3
<1>5. cfg.election_tick <= cfg.min_election_tick /\ cfg.min_election_tick < MaxElectionTick(cfg)
  BY <1>2 DEF Validates
<1>6. cfg.min_election_tick \in GenRange(MinElectionTick(cfg), MaxElectionTick(cfg))
  BY <1>1, <1>2, <1>4, <1>5 DEF GenRange
<1>7. ASSUME NEW n \in GenRange(MinElectionTick(cfg), MaxElectionTick(cfg))
      PROVE  cfg.election_tick <= n /\ n < 2 * cfg.election_tick
  <2>1. n \in Nat /\ cfg.min_election_tick <= n /\ n < MaxElectionTick(cfg)
    BY <1>2 DEF GenRange, Word
  <2> QED BY <1>1, <1>4, <1>5, <2>1
<1> QED BY <1>6, <1>7
=============================================================================
