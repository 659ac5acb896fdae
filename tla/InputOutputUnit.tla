-------------------------- MODULE InputOutputUnit --------------------------
(***************************************************************************)
(* The IBM 533: a reader and a punch in one box, each with a program that   *)
(* works with it.  They share the stop keys, and the process: when the punch *)
(* has dereferenced a null pointer nothing happens any more.                 *)
(***************************************************************************)
EXTENDS CardReader, CardPunch

unit_vars == <<rvars, pvars>>

Init == ReaderInit /\ PunchInit

(* read_stop and punch_stop are the same: either key stops both.             *)
Stop == StopReading /\ StopPunching

ReadSide == ~punch_unit.crashed /\ ReaderStep /\ UNCHANGED pvars

PunchSide == PunchStep /\ UNCHANGED rvars

Next == ReadSide \/ PunchSide \/ Stop

Spec == Init /\ [][Next]_unit_vars

(* A program that goes on reading whenever it does not wait.                 *)
ReadsOn == ~punch_unit.crashed /\ Read /\ UNCHANGED pvars

FairSpec == Spec /\ WF_unit_vars(ReadsOn)

(* "Pressing 'end of file' lets the program continue and process the cards   *)
(* that are in the reader": while reading is not stopped the program reads   *)
(* on until the feed is empty (advance_source).                              *)
EndOfFileDrains ==
    reader.end_of_file /\ reader.running ~>
       Empty(reader.fed) \/ ~reader.running \/ punch_unit.crashed
=============================================================================
