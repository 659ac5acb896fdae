------------------------------- MODULE Power -------------------------------
(***************************************************************************)
(* The power supply of Computer and the callbacks of UI/app.cpp that work   *)
(* it: the keys, and the timer that tells the computer how many seconds     *)
(* have passed.  It shares no state with the program: nothing asks whether  *)
(* DC power is on before a program is started.                              *)
(***************************************************************************)
EXTENDS Naturals

CONSTANTS
    DcOnDelay,        \* dc_on_delay_seconds
    BlowerOffDelay,   \* blower_off_delay_seconds
    Jump,             \* seconds on_power_on() jumps forward
    TimerSeconds      \* whole seconds that may pass between updates

ASSUME DelaysAssumption ==
    /\ DcOnDelay \in Nat /\ Jump \in Nat /\ BlowerOffDelay \in Nat \ {0}
    /\ Jump < DcOnDelay
    /\ TimerSeconds \subseteq Nat \ {0}

VARIABLE supply     \* m_elapsed_seconds, m_can_turn_on, m_power_on, m_dc_on

(* Bound of the clock: the code compares it with the two delays only.        *)
MaxElapsed == DcOnDelay + BlowerOffDelay

UpTo(n, limit) == IF n < limit THEN n ELSE limit

Supplies ==
    [elapsed : 0 .. MaxElapsed, can_turn_on : BOOLEAN, power_on : BOOLEAN,
     dc_on : BOOLEAN]

PowerTypeOK == supply \in Supplies

----------------------------------------------------------------------------
(* The member functions, as functions of the state they change.               *)
power_onAfterMaster(s) ==      \* mutant of power_on: forgets the master switch
    IF s.power_on THEN s ELSE [s EXCEPT !.elapsed = 0, !.power_on = TRUE]

power_on(s) ==
    IF s.power_on \/ ~s.can_turn_on THEN s
    ELSE [s EXCEPT !.elapsed = 0, !.power_on = TRUE]

power_offKeepingDc(s) ==       \* mutant of power_off
    [s EXCEPT !.elapsed = 0, !.power_on = FALSE]

power_off(s) == [s EXCEPT !.elapsed = 0, !.power_on = FALSE, !.dc_on = FALSE]

DcAvailable(s) == s.power_on /\ s.elapsed >= DcOnDelay

dc_on(s) == IF DcAvailable(s) THEN [s EXCEPT !.dc_on = TRUE] ELSE s

dc_off(s) == [s EXCEPT !.dc_on = FALSE]

master_power_off(s) == [power_off(s) EXCEPT !.can_turn_on = FALSE]

(* Mutants of CrossesDelay: the delay must be exceeded; it is crossed again   *)
(* by every later step.                                                      *)
ExceedsDelay(s, seconds) ==
    s.power_on /\ s.elapsed < DcOnDelay /\ s.elapsed + seconds > DcOnDelay

BeyondDelay(s, seconds) == s.power_on /\ s.elapsed + seconds >= DcOnDelay

CrossesDelay(s, seconds) ==
    /\ s.power_on
    /\ s.elapsed < DcOnDelay
    /\ s.elapsed + seconds >= DcOnDelay

step(s, seconds) ==
    [s EXCEPT !.dc_on = @ \/ CrossesDelay(s, seconds),
              !.elapsed = UpTo(@ + seconds, MaxElapsed)]

is_blower_on(s) ==
    s.can_turn_on /\ (s.power_on \/ s.elapsed < BlowerOffDelay)

----------------------------------------------------------------------------
(* Powered off for long enough that the blower is off.                       *)
PowerInit ==
    supply = [elapsed |-> BlowerOffDelay, can_turn_on |-> TRUE,
              power_on |-> FALSE, dc_on |-> FALSE]

(* "Power on" lets the clock run forward whether or not it applied power.    *)
on_power_on == supply' = step(power_on(supply), Jump)

on_power_off == supply' = power_off(supply)

on_dc_on == supply' = dc_on(supply)

on_dc_off == supply' = dc_off(supply)

on_master_power == supply' = master_power_off(supply)

update(seconds) == supply' = step(supply, seconds)

Tick == \E seconds \in TimerSeconds : update(seconds)

PowerNext ==
    \/ on_power_on \/ on_power_off \/ on_dc_on \/ on_dc_off
    \/ on_master_power \/ Tick

PowerSpec == PowerInit /\ [][PowerNext]_supply

(* The timer of the main loop keeps running.                                 *)
FairPowerSpec == PowerSpec /\ WF_supply(Tick)

----------------------------------------------------------------------------
(* Why the assertions hold: DC power needs main power and the delay, and a    *)
(* machine with main power has its master power.                             *)
PowerInv ==
    /\ PowerTypeOK
    /\ supply.dc_on => DcAvailable(supply)
    /\ supply.power_on => supply.can_turn_on

(* The assertions of power_on, dc_on and step hold whenever they are reached: *)
(* no sequence of keys and steps leaves DC power on without main power, or   *)
(* before the delay.                                                         *)
PowerAssertions ==
    /\ ~supply.power_on /\ supply.can_turn_on => ~supply.dc_on
    /\ DcAvailable(supply) \/ ~supply.dc_on
    /\ \A seconds \in TimerSeconds \cup {Jump} :
          CrossesDelay(supply, seconds) => ~supply.dc_on

(* A state that fits none of the phases is a fault, which no phase is.       *)
PhaseOf(s) ==
    IF s.power_on /\ s.can_turn_on
    THEN IF DcAvailable(s) THEN IF s.dc_on THEN "ready" ELSE "dc_off"
         ELSE IF s.dc_on THEN "fault" ELSE "warming"
    ELSE IF s.power_on \/ s.dc_on THEN "fault"
         ELSE IF s.can_turn_on THEN "off" ELSE "dead"

Phase == PhaseOf(supply)

Sequence == INSTANCE PowerSequence WITH
    phase <- Phase, blower <- is_blower_on(supply)

(* "Power off" on a machine that is off starts the five minutes of the       *)
(* blower once more.  The blower is documented to be "turned on when main     *)
(* power applied" (computer.hpp).                                            *)
PowerOffAgain == on_power_off /\ Phase = "off" /\ UNCHANGED Phase

(* Keys and steps of any size take the supply through the phases of          *)
(* PowerSequence: warm-up, cut and restored DC power, and nothing after      *)
(* master power has been cut (the member functions of computer.cpp).  The    *)
(* one step that PowerSequence does not know is PowerOffAgain.               *)
ImplementsPowerSequence ==
    Sequence!Init /\ [][Sequence!Next \/ PowerOffAgain]_(Sequence!svars)

(* The delay turns DC power on once.  Cut by hand it stays off until the DC  *)
(* key restores it, whatever steps follow and however often "power on" is    *)
(* pressed (computer.hpp: "automatically turned on after startup, and then   *)
(* manually turned off").                                                    *)
DcStaysOff == [][Phase = "dc_off" /\ Phase' = "ready" => on_dc_on]_supply

(* The documented jump (app.cpp: "so we only have to wait for 5 seconds for  *)
(* DC power"): the wait that is left is ended by the timer.  A second press   *)
(* of "power on" jumps again, and ends it at once.                           *)
WarmUpEndsByTimer == [][Phase = "warming" /\ Phase' = "ready" => Tick]_supply

(* The step that crosses the delay is never missed: unless main power is cut, *)
(* DC power comes on (Computer::step).                                       *)
DcComesOn == Phase = "warming" ~> Phase \in {"ready", "off", "dead"}
=============================================================================
