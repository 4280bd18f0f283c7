\* Two connections of two workers, each accepted once and carrying up to two
\* requests on a kept-alive connection, while a third worker serves status
\* pages one after another.  Connections are symmetric.
CONSTANTS
  Conns = {c1, c2}
  MaxRequests = 2
SYMMETRY Perms
SPECIFICATION Spec
INVARIANTS CountersMatchConnections
PROPERTIES PagesMonotonic
