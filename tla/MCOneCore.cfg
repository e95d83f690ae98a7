CONSTANT Starts <- MCStarts
SPECIFICATION Spec
INVARIANT TypeOK
INVARIANT MovesAreLegal
INVARIANT CountsAgree
INVARIANT PerftIsRight
