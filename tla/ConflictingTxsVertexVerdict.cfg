SPECIFICATION Spec
INVARIANT PassMeansVertexDropped
CHECK_DEADLOCK FALSE
