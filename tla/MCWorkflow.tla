----------------------------- MODULE MCWorkflow -----------------------------
\* Instances of Workflow, with the code writes it runs beside, for TLC.
EXTENDS Workflow

CONSTANTS a, blank

In(before, old, new, after, occurrence) ==
    [mode |-> "context_edit", before |-> before, old |-> old, new |-> new,
     after |-> after, occurrence |-> occurrence]

\* A new text that holds the old one; a context that is only blank; one on both
\* sides; the second of two matches, which may overlap; and a replacement.
SomeEdits ==
    {In(<<>>, <<a>>, <<a, a>>, <<>>, 1),
     In(<<blank>>, <<a>>, <<a, blank>>, <<>>, 0),
     In(<<a>>, <<a>>, <<blank, a>>, <<blank>>, 0),
     In(<<>>, <<a, a>>, <<a>>, <<>>, 2),
     [mode |-> "replace_file", content |-> <<a>>]}

SomeTexts == {<<a, blank>>, <<a, a, a>>}
=============================================================================
