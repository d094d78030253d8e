SPECIFICATION Spec
CONSTANTS
    n1 = n1
    n2 = n2
    l1 = l1
    l2 = l2
    l3 = l3
    l4 = l4
    NeuronIDs = {n1, n2}
    LinkIDs = {l1, l2, l3, l4}
    GroupNames = {default, named}
    Default = default
    EndNeuronID = END
    EntryLinkFrom = EXTERNAL
    NoID = NoID
INVARIANTS TypeOK TriggersAntichain TriggersCover CastsCover EndsExist
SYMMETRY Symmetry
CHECK_DEADLOCK FALSE
