----------------------------- MODULE PowerProofs -----------------------------
(***************************************************************************)
(* Proofs about Power, for every delay, jump and length of step: the        *)
(* assertions of its member functions hold, DC power that was cut by hand    *)
(* stays off, and the supply goes through the phases of PowerSequence.        *)
(***************************************************************************)
EXTENDS Power, TLAPS

(* The clock is a natural number, and its bound keeps what the code compares. *)
LEMMA StepFacts ==
    ASSUME NEW s \in Supplies, NEW seconds \in Nat
    PROVE  /\ step(s, seconds) \in Supplies
           /\ s.elapsed + seconds >= DcOnDelay <=>
                 step(s, seconds).elapsed >= DcOnDelay
           /\ s.elapsed + seconds < BlowerOffDelay <=>
                 step(s, seconds).elapsed < BlowerOffDelay
           /\ step(s, seconds).elapsed >= s.elapsed
           /\ step(s, seconds).dc_on <=> s.dc_on \/ CrossesDelay(s, seconds)
           /\ step(s, seconds).power_on = s.power_on
           /\ step(s, seconds).can_turn_on = s.can_turn_on
  <1> DEFINE e == UpTo(s.elapsed + seconds, MaxElapsed)
             d == s.dc_on \/ CrossesDelay(s, seconds)
  <1>1. s.elapsed \in 0 .. MaxElapsed /\ MaxElapsed \in Nat
    BY DelaysAssumption DEF Supplies, MaxElapsed
  <1>2. /\ e \in 0 .. MaxElapsed
        /\ s.elapsed + seconds >= DcOnDelay <=> e >= DcOnDelay
        /\ s.elapsed + seconds < BlowerOffDelay <=> e < BlowerOffDelay
        /\ e >= s.elapsed
    BY <1>1, DelaysAssumption DEF UpTo, MaxElapsed
  <1>3. d \in BOOLEAN
    BY Zenon DEF Supplies, CrossesDelay
  <1>4. step(s, seconds) = [s EXCEPT !.dc_on = d, !.elapsed = e]
    BY Zenon DEF step
  <1>5. d <=> s.dc_on \/ CrossesDelay(s, seconds)
    OBVIOUS
  <1> HIDE DEF e, d
  <1>6. /\ step(s, seconds) \in Supplies
        /\ step(s, seconds).elapsed = e /\ step(s, seconds).dc_on = d
        /\ step(s, seconds).power_on = s.power_on
        /\ step(s, seconds).can_turn_on = s.can_turn_on
    <2>1. e \in 0 .. MaxElapsed
      BY <1>2
    <2>2. \A t : t = [s EXCEPT !.dc_on = d, !.elapsed = e] =>
             /\ t \in Supplies
             /\ t.elapsed = e /\ t.dc_on = d
             /\ t.power_on = s.power_on /\ t.can_turn_on = s.can_turn_on
      BY <2>1, <1>3 DEF Supplies
    <2> QED  BY <2>2, <1>4, Zenon
  <1> QED  BY <1>2, <1>5, <1>6

(* A step of any length keeps DC power behind main power and the delay.      *)
LEMMA StepKeeps ==
    ASSUME NEW s \in Supplies, NEW seconds \in Nat,
           s.dc_on => s.power_on /\ s.elapsed >= DcOnDelay,
           s.power_on => s.can_turn_on
    PROVE  /\ step(s, seconds) \in Supplies
           /\ step(s, seconds).dc_on =>
                 /\ step(s, seconds).power_on
                 /\ step(s, seconds).elapsed >= DcOnDelay
           /\ step(s, seconds).power_on => step(s, seconds).can_turn_on
  <1> DEFINE t == step(s, seconds)
  <1>1. /\ t \in Supplies /\ t.elapsed >= s.elapsed
        /\ s.elapsed + seconds >= DcOnDelay <=> t.elapsed >= DcOnDelay
        /\ t.dc_on <=> s.dc_on \/ CrossesDelay(s, seconds)
        /\ t.power_on = s.power_on /\ t.can_turn_on = s.can_turn_on
    BY StepFacts
  <1>2. s.elapsed \in Nat /\ t.elapsed \in Nat /\ DcOnDelay \in Nat
    BY <1>1, DelaysAssumption DEF Supplies
  <1> HIDE DEF t
  <1>3. t.dc_on => t.power_on /\ t.elapsed >= DcOnDelay
    BY <1>1, <1>2 DEF CrossesDelay
  <1>4. t.power_on => t.can_turn_on
    BY <1>1
  <1> QED  BY <1>1, <1>3, <1>4 DEF t

(* What the keys do to the fields.                                           *)
LEMMA KeyFacts ==
    ASSUME NEW s \in Supplies
    PROVE  /\ power_on(s) \in Supplies /\ power_off(s) \in Supplies
           /\ master_power_off(s) \in Supplies
           /\ dc_on(s) \in Supplies /\ dc_off(s) \in Supplies
           /\ s.power_on \/ ~s.can_turn_on => power_on(s) = s
           /\ ~s.power_on /\ s.can_turn_on =>
                 /\ power_on(s).elapsed = 0 /\ power_on(s).power_on
                 /\ power_on(s).can_turn_on /\ power_on(s).dc_on = s.dc_on
           /\ power_off(s).elapsed = 0 /\ ~power_off(s).power_on
           /\ ~power_off(s).dc_on /\ power_off(s).can_turn_on = s.can_turn_on
           /\ ~master_power_off(s).power_on /\ ~master_power_off(s).dc_on
           /\ ~master_power_off(s).can_turn_on
           /\ ~DcAvailable(s) => dc_on(s) = s
           /\ DcAvailable(s) => dc_on(s) = [s EXCEPT !.dc_on = TRUE]
           /\ dc_on(s).elapsed = s.elapsed /\ dc_on(s).power_on = s.power_on
           /\ dc_on(s).can_turn_on = s.can_turn_on
           /\ dc_on(s).dc_on <=> s.dc_on \/ DcAvailable(s)
           /\ dc_off(s).elapsed = s.elapsed /\ dc_off(s).power_on = s.power_on
           /\ dc_off(s).can_turn_on = s.can_turn_on /\ ~dc_off(s).dc_on
  <1>1. 0 \in 0 .. MaxElapsed
    BY DelaysAssumption DEF MaxElapsed
  <1>2. /\ power_on(s) \in Supplies
        /\ s.power_on \/ ~s.can_turn_on => power_on(s) = s
        /\ ~s.power_on /\ s.can_turn_on =>
              /\ power_on(s).elapsed = 0 /\ power_on(s).power_on
              /\ power_on(s).can_turn_on /\ power_on(s).dc_on = s.dc_on
    BY <1>1 DEF power_on, Supplies
  <1>3. /\ power_off(s) \in Supplies
        /\ power_off(s).elapsed = 0 /\ ~power_off(s).power_on
        /\ ~power_off(s).dc_on /\ power_off(s).can_turn_on = s.can_turn_on
    BY <1>1 DEF power_off, Supplies
  <1>4. /\ master_power_off(s) \in Supplies
        /\ ~master_power_off(s).power_on /\ ~master_power_off(s).dc_on
        /\ ~master_power_off(s).can_turn_on
    BY <1>3 DEF master_power_off, Supplies
  <1>5. /\ dc_on(s) \in Supplies
        /\ ~DcAvailable(s) => dc_on(s) = s
        /\ DcAvailable(s) => dc_on(s) = [s EXCEPT !.dc_on = TRUE]
    BY DEF dc_on, Supplies
  <1>6. /\ dc_on(s).elapsed = s.elapsed /\ dc_on(s).power_on = s.power_on
        /\ dc_on(s).can_turn_on = s.can_turn_on
        /\ dc_on(s).dc_on <=> s.dc_on \/ DcAvailable(s)
    BY <1>5 DEF Supplies
  <1>7. /\ dc_off(s) \in Supplies
        /\ dc_off(s).elapsed = s.elapsed /\ dc_off(s).power_on = s.power_on
        /\ dc_off(s).can_turn_on = s.can_turn_on /\ ~dc_off(s).dc_on
    BY DEF dc_off, Supplies
  <1> QED  BY <1>2, <1>3, <1>4, <1>5, <1>6, <1>7

LEMMA PowerInitInv == PowerInit => PowerInv
  <1>1. BlowerOffDelay \in 0 .. MaxElapsed
    BY DelaysAssumption DEF MaxElapsed
  <1> QED
    BY <1>1 DEF PowerInit, PowerInv, PowerTypeOK, Supplies

LEMMA PowerNextInv == PowerInv /\ [PowerNext]_supply => PowerInv'
  <1> SUFFICES ASSUME PowerInv, [PowerNext]_supply PROVE PowerInv'
    OBVIOUS
  <1>1. /\ supply \in Supplies
        /\ supply.dc_on => supply.power_on /\ supply.elapsed >= DcOnDelay
        /\ supply.power_on => supply.can_turn_on
        /\ supply.elapsed \in Nat
    BY DelaysAssumption DEF PowerInv, PowerTypeOK, Supplies, DcAvailable
  <1> SUFFICES /\ supply' \in Supplies
               /\ supply'.dc_on => supply'.power_on /\ supply'.elapsed >= DcOnDelay
               /\ supply'.power_on => supply'.can_turn_on
    BY DEF PowerInv, PowerTypeOK, DcAvailable
  <1>2. CASE on_power_on
    <2> DEFINE s == power_on(supply)
    <2>1. /\ s \in Supplies
          /\ s.dc_on => s.power_on /\ s.elapsed >= DcOnDelay
          /\ s.power_on => s.can_turn_on
      BY <1>1, KeyFacts
    <2>2. supply' = step(s, Jump) /\ Jump \in Nat
      BY <1>1, <1>2, DelaysAssumption DEF on_power_on
    <2> HIDE DEF s
    <2> QED  BY <2>1, <2>2, StepKeeps
  <1>3. CASE on_power_off
    BY <1>1, <1>3, KeyFacts DEF on_power_off
  <1>4. CASE on_dc_on
    BY <1>1, <1>4, KeyFacts DEF on_dc_on, DcAvailable
  <1>5. CASE on_dc_off
    BY <1>1, <1>5, KeyFacts DEF on_dc_off
  <1>6. CASE on_master_power
    BY <1>1, <1>6, KeyFacts DEF on_master_power
  <1>7. CASE Tick
    <2>1. PICK seconds \in TimerSeconds : update(seconds)
      BY <1>7 DEF Tick
    <2>2. seconds \in Nat /\ supply' = step(supply, seconds)
      BY <2>1, DelaysAssumption DEF update
    <2> QED  BY <1>1, <2>2, StepKeeps
  <1>8. CASE UNCHANGED supply
    BY <1>1, <1>8
  <1> QED
    BY <1>2, <1>3, <1>4, <1>5, <1>6, <1>7, <1>8 DEF PowerNext

(* The inductive invariant holds from power-on to the cut of master power.    *)
THEOREM PowerInvariant == PowerSpec => []PowerInv
  BY PowerInitInv, PowerNextInv, PTL DEF PowerSpec

(* The assertions in power_on, dc_on and step never fail, for every pair of   *)
(* delays and every jump shorter than the first of them.                     *)
THEOREM PowerAssertionsHold == PowerSpec => []PowerAssertions
  <1>1. PowerInv => PowerAssertions
    BY DelaysAssumption DEF PowerInv, PowerAssertions, PowerTypeOK, Supplies, DcAvailable,
       CrossesDelay
  <1> QED  BY <1>1, PowerInvariant, PTL

(* ------------------------------------------------------------------------ *)
(* The states of the supply that PowerInv allows, and the phase of each.      *)
Sound(s) ==
    /\ s \in Supplies
    /\ s.dc_on => s.power_on /\ s.elapsed >= DcOnDelay
    /\ s.power_on => s.can_turn_on

LEMMA PhaseFacts ==
    ASSUME NEW s, Sound(s)
    PROVE  /\ PhaseOf(s) = "dead" <=> ~s.can_turn_on
           /\ PhaseOf(s) = "off" <=> s.can_turn_on /\ ~s.power_on
           /\ PhaseOf(s) = "warming" <=> s.power_on /\ ~(s.elapsed >= DcOnDelay)
           /\ PhaseOf(s) = "dc_off" <=>
                 s.power_on /\ s.elapsed >= DcOnDelay /\ ~s.dc_on
           /\ PhaseOf(s) = "ready" <=> s.dc_on
           /\ PhaseOf(s) \in {"dead", "off", "warming", "dc_off", "ready"}
           /\ is_blower_on(s) <=>
                 s.can_turn_on /\ (s.power_on \/ s.elapsed < BlowerOffDelay)
  <1>1. s.elapsed \in Nat
    BY DelaysAssumption DEF Sound, Supplies, MaxElapsed
  <1>2. is_blower_on(s) <=>
           s.can_turn_on /\ (s.power_on \/ s.elapsed < BlowerOffDelay)
    BY Zenon DEF is_blower_on
  <1> QED
    BY <1>1, <1>2, DelaysAssumption DEF Sound, PhaseOf, DcAvailable

(* A step of the clock is a stutter of the phases, or the end of the warm-up,  *)
(* or the end of the blower's run.                                           *)
LEMMA ClockPhases ==
    ASSUME NEW s, Sound(s), NEW seconds \in Nat
    PROVE  LET t == step(s, seconds)
           IN  \/ PhaseOf(t) = PhaseOf(s) /\ (is_blower_on(t) <=> is_blower_on(s))
               \/ /\ PhaseOf(s) = "warming" /\ PhaseOf(t) = "ready"
                  /\ is_blower_on(t) <=> is_blower_on(s)
               \/ /\ PhaseOf(s) = "off" /\ PhaseOf(t) = "off"
                  /\ is_blower_on(s) /\ ~is_blower_on(t)
  <1> DEFINE t == step(s, seconds)
  <1>1. /\ Sound(t) /\ t.elapsed >= s.elapsed
        /\ s.elapsed + seconds >= DcOnDelay <=> t.elapsed >= DcOnDelay
        /\ t.dc_on <=> s.dc_on \/ CrossesDelay(s, seconds)
        /\ t.power_on = s.power_on /\ t.can_turn_on = s.can_turn_on
    BY StepFacts, StepKeeps DEF Sound
  <1>2. s.elapsed \in Nat /\ t.elapsed \in Nat
    BY <1>1, DelaysAssumption DEF Sound, Supplies, MaxElapsed
  <1> HIDE DEF t
  <1>3. CASE s.power_on
    <2>1. is_blower_on(t) /\ is_blower_on(s)
      BY <1>1, <1>3, PhaseFacts DEF Sound
    <2>2. \/ PhaseOf(t) = PhaseOf(s)
          \/ PhaseOf(s) = "warming" /\ PhaseOf(t) = "ready"
      <3>1. t.power_on /\ Sound(t) /\ (s.dc_on => s.elapsed >= DcOnDelay)
        BY <1>1, <1>3 DEF Sound
      <3>2. CASE s.elapsed >= DcOnDelay
        <4>1. t.elapsed >= DcOnDelay /\ (t.dc_on <=> s.dc_on)
          BY <1>1, <1>2, <3>2, DelaysAssumption DEF CrossesDelay
        <4> QED  BY <1>3, <3>1, <3>2, <4>1, PhaseFacts
      <3>3. CASE ~(s.elapsed >= DcOnDelay)
        <4>1. PhaseOf(s) = "warming"
          BY <1>3, <3>3, PhaseFacts
        <4>2. t.elapsed >= DcOnDelay => CrossesDelay(s, seconds)
          BY <1>1, <1>2, <1>3, <3>3, DelaysAssumption DEF CrossesDelay
        <4>3. t.elapsed >= DcOnDelay => t.dc_on
          BY <1>1, <4>2
        <4> QED  BY <3>1, <4>1, <4>3, PhaseFacts
      <3> QED  BY <3>2, <3>3
    <2> QED  BY <2>1, <2>2 DEF t
  <1>4. CASE ~s.power_on
    <2>1. PhaseOf(t) = PhaseOf(s)
      BY <1>1, <1>4, PhaseFacts DEF Sound
    <2>2. is_blower_on(t) => is_blower_on(s)
      BY <1>1, <1>2, <1>4, PhaseFacts, DelaysAssumption
    <2>3. is_blower_on(s) => PhaseOf(s) = "off"
      BY <1>4, PhaseFacts
    <2> QED  BY <2>1, <2>2, <2>3 DEF t
  <1> QED  BY <1>3, <1>4

(* A key maps to its action in PowerSequence; "power on" on a machine that has *)
(* power, or no master power, is a step of the clock.                         *)
LEMMA PowerOnPhases ==
    ASSUME NEW s, Sound(s)
    PROVE  LET t == step(power_on(s), Jump)
           IN  IF s.can_turn_on /\ ~s.power_on
               THEN /\ PhaseOf(s) = "off" /\ PhaseOf(t) = "warming"
                    /\ is_blower_on(t)
               ELSE t = step(s, Jump)
  <1>1. CASE s.can_turn_on /\ ~s.power_on
    <2> DEFINE p == power_on(s)
               t == step(p, Jump)
    <2>1. Sound(p) /\ p.power_on /\ p.elapsed = 0
      BY <1>1, KeyFacts DEF Sound
    <2>2. Jump \in Nat /\ ~(0 + Jump >= DcOnDelay)
      BY DelaysAssumption
    <2> HIDE DEF p
    <2>3. Sound(t) /\ t.power_on /\ ~(t.elapsed >= DcOnDelay)
      BY <2>1, <2>2, StepFacts, StepKeeps DEF Sound
    <2> HIDE DEF t
    <2>4. PhaseOf(t) = "warming" /\ is_blower_on(t) /\ PhaseOf(s) = "off"
      BY <1>1, <2>3, PhaseFacts DEF Sound
    <2> QED  BY <1>1, <2>4 DEF t, p
  <1>2. CASE ~(s.can_turn_on /\ ~s.power_on)
    <2>1. power_on(s) = s
      BY <1>2, KeyFacts DEF Sound
    <2> QED  BY <1>2, <2>1
  <1> QED  BY <1>1, <1>2

LEMMA KeyPhases ==
    ASSUME NEW s, Sound(s)
    PROVE  /\ /\ PhaseOf(power_off(s)) = IF s.can_turn_on THEN "off" ELSE "dead"
              /\ is_blower_on(power_off(s)) <=> s.can_turn_on
           /\ PhaseOf(master_power_off(s)) = "dead"
           /\ ~is_blower_on(master_power_off(s))
           /\ \/ dc_on(s) = s
              \/ /\ PhaseOf(s) = "dc_off" /\ PhaseOf(dc_on(s)) = "ready"
                 /\ is_blower_on(dc_on(s)) <=> is_blower_on(s)
           /\ is_blower_on(dc_off(s)) <=> is_blower_on(s)
           /\ \/ PhaseOf(dc_off(s)) = PhaseOf(s)
              \/ PhaseOf(s) = "ready" /\ PhaseOf(dc_off(s)) = "dc_off"
  <1>1. /\ PhaseOf(power_off(s)) = IF s.can_turn_on THEN "off" ELSE "dead"
        /\ is_blower_on(power_off(s)) <=> s.can_turn_on
    <2>1. Sound(power_off(s)) /\ 0 < BlowerOffDelay
      BY KeyFacts, DelaysAssumption DEF Sound
    <2> QED  BY <2>1, KeyFacts, PhaseFacts DEF Sound
  <1>2. PhaseOf(master_power_off(s)) = "dead" /\ ~is_blower_on(master_power_off(s))
    <2>1. Sound(master_power_off(s))
      BY KeyFacts DEF Sound
    <2> QED  BY <2>1, KeyFacts, PhaseFacts DEF Sound
  <1>3. \/ dc_on(s) = s
        \/ /\ PhaseOf(s) = "dc_off" /\ PhaseOf(dc_on(s)) = "ready"
           /\ is_blower_on(dc_on(s)) <=> is_blower_on(s)
    <2>1. CASE DcAvailable(s) /\ ~s.dc_on
      <3>1. Sound(dc_on(s))
        BY <2>1, KeyFacts DEF Sound, DcAvailable
      <3> QED  BY <2>1, <3>1, KeyFacts, PhaseFacts DEF Sound, DcAvailable
    <2>2. CASE ~DcAvailable(s)
      BY <2>2, KeyFacts DEF Sound
    <2>3. CASE DcAvailable(s) /\ s.dc_on
      <3>1. s.dc_on = TRUE
        BY <2>3 DEF Sound, Supplies
      <3>2. [s EXCEPT !.dc_on = TRUE] = s
        BY <3>1 DEF Sound, Supplies
      <3> QED  BY <2>3, <3>2, KeyFacts DEF Sound
    <2> QED  BY <2>1, <2>2, <2>3
  <1>4. /\ is_blower_on(dc_off(s)) <=> is_blower_on(s)
        /\ \/ PhaseOf(dc_off(s)) = PhaseOf(s)
           \/ PhaseOf(s) = "ready" /\ PhaseOf(dc_off(s)) = "dc_off"
    <2>1. Sound(dc_off(s))
      BY KeyFacts DEF Sound
    <2>2. is_blower_on(dc_off(s)) <=> is_blower_on(s)
      BY <2>1, KeyFacts, PhaseFacts DEF Sound
    <2>3. CASE s.dc_on
      BY <2>1, <2>2, <2>3, KeyFacts, PhaseFacts DEF Sound
    <2>4. CASE ~s.dc_on
      <3> DEFINE t == dc_off(s)
      <3>1. /\ t.elapsed = s.elapsed /\ t.power_on = s.power_on
            /\ t.can_turn_on = s.can_turn_on /\ ~t.dc_on /\ Sound(t)
        BY <2>1, KeyFacts DEF Sound
      <3> HIDE DEF t
      <3>2. PhaseOf(t) = PhaseOf(s)
        BY <2>4, <3>1 DEF PhaseOf, DcAvailable
      <3> QED  BY <2>2, <3>2 DEF t
    <2> QED  BY <2>3, <2>4
  <1> QED  BY <1>1, <1>2, <1>3, <1>4

LEMMA PowerStepSimulation ==
    PowerInv /\ [PowerNext]_supply =>
        [Sequence!Next \/ PowerOffAgain]_(Sequence!svars)
  <1> SUFFICES ASSUME PowerInv, [PowerNext]_supply
               PROVE  [Sequence!Next \/ PowerOffAgain]_(Sequence!svars)
    OBVIOUS
  <1> DEFINE s == supply
             t == supply'
  <1>1. Sound(s)
    BY DEF PowerInv, PowerTypeOK, Sound, DcAvailable
  <1>2. PhaseOf(s) # "dead" <=> s.can_turn_on
    BY <1>1, PhaseFacts
  <1>3. ASSUME \/ PhaseOf(t) = PhaseOf(s) /\ (is_blower_on(t) <=> is_blower_on(s))
               \/ /\ PhaseOf(s) = "warming" /\ PhaseOf(t) = "ready"
                  /\ is_blower_on(t) <=> is_blower_on(s)
               \/ /\ PhaseOf(s) = "off" /\ PhaseOf(t) = "off"
                  /\ is_blower_on(s) /\ ~is_blower_on(t)
        PROVE  [Sequence!Next \/ PowerOffAgain]_(Sequence!svars)
    <2>1. is_blower_on(s) \in BOOLEAN /\ is_blower_on(t) \in BOOLEAN
      BY Zenon DEF is_blower_on
    <2> QED
      BY <1>3, <2>1 DEF Phase, Sequence!Next, Sequence!svars, Sequence!WarmedUp,
         Sequence!CooledDown
  <1>4. CASE on_power_on
    <2>1. CASE s.can_turn_on /\ ~s.power_on
      <3>1. PhaseOf(s) = "off" /\ PhaseOf(t) = "warming" /\ is_blower_on(t)
        BY <1>1, <1>4, <2>1, PowerOnPhases, Zenon DEF on_power_on
      <3>2. is_blower_on(t) = TRUE
        BY <3>1, Zenon DEF is_blower_on
      <3> QED
        BY <3>1, <3>2 DEF Phase, Sequence!Next, Sequence!ApplyMain
    <2>2. CASE ~(s.can_turn_on /\ ~s.power_on)
      <3>1. t = step(s, Jump) /\ Jump \in Nat
        BY <1>1, <1>4, <2>2, PowerOnPhases, DelaysAssumption DEF on_power_on
      <3> QED  BY <1>1, <1>3, <3>1, ClockPhases
    <2> QED  BY <2>1, <2>2
  <1>5. CASE on_power_off
    <2>1. CASE s.can_turn_on
      <3>1. PhaseOf(s) # "dead" /\ PhaseOf(t) = "off" /\ is_blower_on(t)
        BY <1>1, <1>2, <1>5, <2>1, KeyPhases DEF on_power_off
      <3>2. is_blower_on(t) = TRUE
        BY <3>1, Zenon DEF is_blower_on
      <3>3. CASE PhaseOf(s) = "off"
        BY <1>5, <3>1, <3>3 DEF Phase, PowerOffAgain
      <3>4. CASE PhaseOf(s) # "off"
        <4>1. PhaseOf(s) \in {"warming", "dc_off", "ready"}
          BY <1>1, <3>1, <3>4, PhaseFacts
        <4> QED
          BY <3>1, <3>2, <4>1
          DEF Phase, Sequence!Next, Sequence!CutMain, Sequence!Powered
      <3> QED  BY <3>3, <3>4
    <2>2. CASE ~s.can_turn_on
      <3>1. PhaseOf(t) = PhaseOf(s) /\ ~is_blower_on(t) /\ ~is_blower_on(s)
        BY <1>1, <1>2, <1>5, <2>2, KeyPhases, PhaseFacts DEF on_power_off
      <3> QED  BY <1>3, <3>1
    <2> QED  BY <2>1, <2>2
  <1>6. CASE on_dc_on
    <2>1. CASE t = s
      BY <1>3, <2>1
    <2>2. CASE t # s
      <3>1. /\ PhaseOf(s) = "dc_off" /\ PhaseOf(t) = "ready"
            /\ is_blower_on(t) <=> is_blower_on(s)
        BY <1>1, <1>6, <2>2, KeyPhases DEF on_dc_on
      <3>2. is_blower_on(t) = is_blower_on(s)
        BY <3>1, Zenon DEF is_blower_on
      <3> QED
        BY <3>1, <3>2 DEF Phase, Sequence!Next, Sequence!RestoreDc
    <2> QED  BY <2>1, <2>2
  <1>7. CASE on_dc_off
    <2>1. is_blower_on(t) <=> is_blower_on(s)
      BY <1>1, <1>7, KeyPhases DEF on_dc_off
    <2>2. CASE PhaseOf(t) = PhaseOf(s)
      BY <1>3, <2>1, <2>2
    <2>3. CASE PhaseOf(t) # PhaseOf(s)
      <3>1. PhaseOf(s) = "ready" /\ PhaseOf(t) = "dc_off"
        BY <1>1, <1>7, <2>3, KeyPhases DEF on_dc_off
      <3>2. is_blower_on(t) = is_blower_on(s)
        BY <2>1, Zenon DEF is_blower_on
      <3> QED
        BY <3>1, <3>2 DEF Phase, Sequence!Next, Sequence!CutDc
    <2> QED  BY <2>2, <2>3
  <1>8. CASE on_master_power
    <2>1. PhaseOf(t) = "dead" /\ ~is_blower_on(t)
      BY <1>1, <1>8, KeyPhases DEF on_master_power
    <2>2. is_blower_on(t) = FALSE
      BY <2>1, Zenon DEF is_blower_on
    <2> QED
      BY <2>1, <2>2 DEF Phase, Sequence!Next, Sequence!CutMaster
  <1>9. CASE Tick
    <2>1. PICK seconds \in TimerSeconds : t = step(s, seconds)
      BY <1>9 DEF Tick, update
    <2>2. seconds \in Nat
      BY DelaysAssumption
    <2> QED  BY <1>1, <1>3, <2>1, <2>2, ClockPhases
  <1>10. CASE UNCHANGED supply
    BY <1>3, <1>10
  <1> QED
    BY <1>4, <1>5, <1>6, <1>7, <1>8, <1>9, <1>10 DEF PowerNext

(* Keys and steps of any length take the supply through the phases of         *)
(* PowerSequence and no others; only "power off" on a machine that is off     *)
(* works the blower in a way that PowerSequence does not promise.             *)
THEOREM PowerRefinement == PowerSpec => ImplementsPowerSequence
  <1>1. PowerInit => Sequence!Init
    <2> SUFFICES ASSUME PowerInit PROVE Phase = "off" /\ is_blower_on(supply) = FALSE
      BY DEF Sequence!Init
    <2>1. Sound(supply) /\ supply.can_turn_on /\ ~supply.power_on
          /\ supply.elapsed = BlowerOffDelay
      BY PowerInitInv DEF PowerInit, PowerInv, PowerTypeOK, Sound, DcAvailable
    <2>2. Phase = "off" /\ ~is_blower_on(supply)
      BY <2>1, PhaseFacts, DelaysAssumption DEF Phase
    <2> QED  BY <2>2, Zenon DEF is_blower_on
  <1> QED
    BY <1>1, PowerStepSimulation, PowerInvariant, PTL
    DEF PowerSpec, ImplementsPowerSequence

(* DC power that was cut by hand comes back through the DC key only.          *)
THEOREM DcPowerStaysOff == PowerSpec => DcStaysOff
  <1>1. PowerInv /\ [PowerNext]_supply =>
           [Phase = "dc_off" /\ Phase' = "ready" => on_dc_on]_supply
    <2> SUFFICES ASSUME PowerInv, PowerNext, ~on_dc_on,
                        Phase = "dc_off", Phase' = "ready"
                 PROVE  FALSE
      OBVIOUS
    <2> DEFINE s == supply
               t == supply'
    <2>1. Sound(s) /\ PhaseOf(s) = "dc_off" /\ PhaseOf(t) = "ready"
      BY DEF PowerInv, PowerTypeOK, Sound, DcAvailable, Phase
    <2>2. s.power_on /\ s.can_turn_on
      BY <2>1, PhaseFacts DEF Sound
    <2>3. CASE on_power_on
      <3>1. t = step(s, Jump) /\ Jump \in Nat
        BY <2>1, <2>2, <2>3, PowerOnPhases, DelaysAssumption DEF on_power_on
      <3> QED  BY <2>1, <3>1, ClockPhases
    <2>4. CASE on_power_off
      BY <2>1, <2>2, <2>4, KeyPhases DEF on_power_off
    <2>5. CASE on_dc_off
      BY <2>1, <2>5, KeyPhases DEF on_dc_off
    <2>6. CASE on_master_power
      BY <2>1, <2>6, KeyPhases DEF on_master_power
    <2>7. CASE Tick
      <3>1. PICK seconds \in TimerSeconds : t = step(s, seconds)
        BY <2>7 DEF Tick, update
      <3>2. seconds \in Nat
        BY DelaysAssumption
      <3> QED  BY <2>1, <3>1, <3>2, ClockPhases
    <2> QED
      BY <2>3, <2>4, <2>5, <2>6, <2>7 DEF PowerNext
  <1> QED
    BY <1>1, PowerInvariant, PTL DEF PowerSpec, DcStaysOff
=============================================================================
