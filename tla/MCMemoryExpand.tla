---------------------------- MODULE MCMemoryExpand ----------------------------
\* Instances of MemoryExpand for TLC.
EXTENDS MemoryExpand

\* No ceiling and no step; a step below doubling and a ceiling; a minimum above
\* the step; and a step that overflows when it is added.
SomePolicies ==
    {[min |-> 1, max |-> 0, step |-> 0, poll |-> TRUE],
     [min |-> 1, max |-> 4, step |-> 1, poll |-> TRUE],
     [min |-> 4, max |-> 0, step |-> 1, poll |-> FALSE],
     [min |-> 1, max |-> 0, step |-> MaxInt, poll |-> TRUE]}
=============================================================================
