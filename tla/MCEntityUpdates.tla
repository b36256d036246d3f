-------------------------- MODULE MCEntityUpdates --------------------------
EXTENDS EntityUpdates

MCBlockSizes == {40, 125}
MCOneBlockSize == {125}
\* Every counter and every calculated sensor but the sums over all strings, and
\* one plain sensor of each source.
MCWatched ==
  {s \in Sensors : s.kind \notin {"plain", "total_of_strings"}}
  \cup Plain("input", {0}) \cup Plain("hold", {235}) \cup Plain("battery", {3})
MCPlain == Plain("input", {0})
=============================================================================
