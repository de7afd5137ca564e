SPECIFICATION Spec
INVARIANTS TypeOK OneRunAtATime KnobMovesOneRow
PROPERTIES PressCountsOnce ResponseGoesOn LooksCatchUp
