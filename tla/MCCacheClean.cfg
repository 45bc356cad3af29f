CONSTANTS
    Names <- MCNames

SPECIFICATION Spec
\* clean_target_dir returns once every entry has been considered.
CHECK_DEADLOCK FALSE
INVARIANT CachesDependenciesOnly
