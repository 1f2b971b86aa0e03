--------------------------- MODULE MCGenericCache ---------------------------
EXTENDS GenericCache

Config(r, w, n, k, s, f, m, ahead) ==
  [read |-> r, write |-> w, lines |-> n, parallelIO |-> k, superPage |-> s,
   flush |-> f, writes |-> m, ahead |-> ahead]

\* Write caching as by default; the same with two units per page, evicting by
\* superpage; read caching alone; the same with prefetch.
SomeConfigs == {Config(FALSE, TRUE, 1, 1, FALSE, FALSE, 4, 0),
                Config(FALSE, TRUE, 2, 2, TRUE, TRUE, 3, 0),
                Config(TRUE, FALSE, 1, 2, FALSE, FALSE, 1, 0),
                Config(TRUE, FALSE, 1, 4, FALSE, FALSE, 0, 4)}

ReadAndWrite == {Config(TRUE, TRUE, 1, 2, FALSE, FALSE, 3, 0)}

SomeRanges == {[slpn |-> 1, nlp |-> LCAs - 1]}
=============================================================================
