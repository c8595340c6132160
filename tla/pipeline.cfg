SPECIFICATION Spec
CONSTANTS
    MaxSettings = 3
    Requests = {r1, r2}
    Kinds <- MCKinds
SYMMETRY MCSymmetry
INVARIANT PipelineInvariant
INVARIANT AcceptedIsUsable
INVARIANT ProductionSecretsChosen
INVARIANT GuardsHold
INVARIANT AnsweredOnce
INVARIANT LeavesOneTrace
INVARIANT GaugeAccounted
INVARIANT SharedAsConfigured
