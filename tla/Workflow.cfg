SPECIFICATION WFairSpec
CONSTANTS
    a = a
    blank = blank
    None = None
    Missing = Missing
    Requests = {q1}
    Sandboxes = {box, n1}
    Box = box
    New = {n1}
    Tasks = {t1}
    MaxSteps = 2
    Letters = {a, blank}
    Blank = blank
    Texts <- SomeTexts
    Edits <- SomeEdits
    MaxLen = 4
INVARIANT WorkflowTypeOK
 
 
PROPERTY WriteIsTheEdit
 
PROPERTY ImplementsWorkflow
\* The workflow may be over and its sandboxes gone.
CHECK_DEADLOCK FALSE
