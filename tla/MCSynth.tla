------------------------------ MODULE MCSynth ------------------------------
(***************************************************************************)
(* Synth with the firmware's band tables: one table, or the three that the *)
(* menu of an H4 offers (si5351_set_band_mode).                            *)
(***************************************************************************)
EXTENDS Synth, SynthTables

OnlyMS == [t \in {"ms5351"} |-> H36_MS5351]
H4Modes == [t \in {"si5351", "ms5351", "swc5351"} |->
              CASE t = "si5351" -> H4_SI5351
                [] t = "ms5351" -> H36_MS5351
                [] t = "swc5351" -> SWC5351]
=============================================================================
