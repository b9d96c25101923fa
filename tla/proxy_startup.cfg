SPECIFICATION Spec
INVARIANTS
    ServesOnlyConfigured
    FatalExactlyOnConfigError
