\* Three failures, one of them undated, in a log that changes under the cycle;
\* one request a cycle.
SPECIFICATION Spec
CONSTANTS
  Ids = {i1, i2, i3}
  Undated = {i2}
  Nameless = {i3}
  Lookback = 1
  Cap = 1
  Never = Never
PROPERTIES OncePerLookback CapIsTheOnlyExcuse
