SPECIFICATION FairSpec
CONSTANTS
    Meshes = {m}
    Objects = {o}
    Scenes = {s}
    Worlds = {w}
    None = None
    Chunks = 2
    PerTick = 1
    MaxEdits = 2
    MaxBoots = 2
    Allowed = {}
INVARIANT NothingForgotten
INVARIANT TargetsKnown
PROPERTY EditsArrive
