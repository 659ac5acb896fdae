-------------------------------- MODULE Drum --------------------------------
(***************************************************************************)
(* Computer::Drum: NBands bands of BandSize words that rotate under one     *)
(* read/write head per band.  Only the words at the drum's index can be     *)
(* read or written; the program waits for an address to come around.        *)
(***************************************************************************)
EXTENDS Words

VARIABLES
    drum_storage,     \* m_storage: the words of every band
    drum_index        \* m_index: the index of the words under the heads

drum_vars == <<drum_storage, drum_index>>

Bands == 0 .. NBands - 1
Indices == 0 .. BandSize - 1

DrumTypeOK ==
    /\ drum_storage \in [Bands -> [Indices -> Word]]
    /\ drum_index \in Indices

(* Drum::read and Drum::write; both assert(band < n_bands), which is the      *)
(* caller's guard here.                                                      *)
DrumRead(band) == drum_storage[band][drum_index]

(* Mutant of DrumWritten: the word goes to the place that comes next.        *)
DrumWrittenLate(band, word) ==
    [drum_storage EXCEPT ![band] = [@ EXCEPT ![(drum_index + 1) % BandSize] = word]]

DrumWritten(band, word) ==
    [drum_storage EXCEPT ![band] = [@ EXCEPT ![drum_index] = word]]

(* Mutant of DrumStep: the index stays at the last word of the bands.        *)
DrumStepToEnd ==
    drum_index' = IF drum_index < BandSize - 1 THEN drum_index + 1 ELSE drum_index

(* Drum::step: rotate by one word.                                           *)
DrumStep == drum_index' = (drum_index + 1) % BandSize

(* The word stored at a drum address, wherever the drum stands               *)
(* (Drum::get_storage).                                                      *)
DrumWord(addr) == drum_storage[band_of_address(addr)][index_of_address(addr)]
=============================================================================
