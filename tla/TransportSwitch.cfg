SPECIFICATION Spec
CONSTANTS
    Paths = {wg, hy2}
    None = None
    Watch = watch
    Reconcile = reconcile
    Operator = operator
    MaxAttempts = 3
PROPERTIES SwitchIsAtomic HistoryIsKept
