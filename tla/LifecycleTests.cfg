SPECIFICATION Spec
INVARIANT RefusalIsTested
