---------------------------- MODULE MC_SlotRanges ----------------------------
(* Model-checking instance of SlotRanges: four slots, three online groups  *)
(* (so that two slots can migrate to one target from different groups)    *)
(* and a palette of two colours (so that groups 1 and 3 share a colour).   *)
EXTENDS SlotRanges

MC_NSlots == 4
MC_Groups == {0, 1, 2, 3}
MC_PaletteSize == 2
=============================================================================
