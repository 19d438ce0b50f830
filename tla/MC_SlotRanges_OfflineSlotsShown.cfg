CONSTANTS
    NSlots <- MC_NSlots
    Groups <- MC_Groups
    PaletteSize <- MC_PaletteSize
SPECIFICATION Spec
INVARIANT OfflineSlotsShown
