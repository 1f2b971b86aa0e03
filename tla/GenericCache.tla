----------------------------- MODULE GenericCache -----------------------------
(***************************************************************************)
(* The set-associative cache of the internal cache layer                   *)
(* (src/icl/generic_cache.cc), between the host interface and the FTL.     *)
(*                                                                         *)
(* The simulator moves no data here: a line says which logical unit (LCA)  *)
(* it stands for, and the traffic to the FTL follows from that.  To say    *)
(* what the traffic is for, each host write is given a version, and the    *)
(* model keeps the version a line stands for and the one the FTL was last  *)
(* told to store.  A unit the FTL is told to store without a line for it   *)
(* becomes Junk.                                                           *)
(*                                                                         *)
(* Each request is one synchronous call, hence one step.  The insertion and*)
(* access times only order lines for the eviction policy; the choices of   *)
(* the random policy, made here, include those of the other two.  A read   *)
(* is of a whole unit or of either half of it.                             *)
(***************************************************************************)
EXTENDS Integers, FiniteSets, FiniteSetsExt, Sequences, SequencesExt

CONSTANTS
  SetSize,       \* setSize
  WaySize,       \* waySize
  LCAs,          \* number of logical units, lines of the address space
  Configs,       \* the configurations: caching of reads and of writes,
                 \*   lineCountInSuperPage, parallelIO, whether evictMode is
                 \*   MODE_SUPERPAGE, whether the host ever flushes, how
                 \*   often it writes (a bound), and the units that a read
                 \*   ahead takes (by prefetchMode), or 0 without prefetch
  Ranges,        \* ranges that flush, trim and format are called with
  MaxVersion,    \* the largest of those bounds
  PrefetchCount, \* prefetchIOCount
  PrefetchRatio  \* prefetchIORatio, as halves of a unit

LCA == 0 .. LCAs - 1
Set == 0 .. SetSize - 1
Way == 0 .. WaySize - 1

ASSUME CacheAssumption ==
  /\ SetSize \in Nat \ {0}
  /\ WaySize \in Nat \ {0}
  /\ LCAs \in Nat \ {0}
  /\ MaxVersion \in Nat
  /\ PrefetchCount \in Nat \ {0} /\ PrefetchRatio \in Nat \ {0}
  /\ Configs \subseteq [read : BOOLEAN, write : BOOLEAN,
                       lines : Nat \ {0}, parallelIO : Nat \ {0},
                       superPage : BOOLEAN, flush : BOOLEAN,
                       writes : 0 .. MaxVersion, ahead : Nat]
  /\ \A c \in Configs : LCAs % c.lines = 0
  /\ Ranges \subseteq [slpn : LCA, nlp : 1 .. LCAs]
  /\ \A r \in Ranges : r.slpn + r.nlp <= LCAs

Nothing == 0                  \* no version: the unit is not mapped
Junk    == MaxVersion + 1
Never   == -1                 \* no unit triggers a read ahead

\* What is read of a unit: an offset and a length.
Parts == {<<0, 2>>, <<0, 1>>, <<1, 1>>}

VARIABLES
  cfg,        \* the configuration, fixed at start
  cache,      \* cache[s][w]: the Line, with the version it stands for
  flash,      \* flash[a]: the version the FTL was last told to store
  latest,     \* latest[a]: the version the host wrote last, or Nothing if it
              \*   never did or discarded it since
  version,    \* host writes so far
  corrupted,  \* panic("Cache corrupted!")
  readDetect, \* the last read (its unit and where in it it ended), hitCounter,
              \*   accessCounter (both up to what they are compared with), enabled
  prefetch    \* prefetchTrigger and lastPrefetched

prefetchVars == <<readDetect, prefetch>>
vars == <<cfg, cache, flash, latest, version, corrupted, prefetchVars>>

\* A read ahead may go past the end of the address space.
Line == [valid : BOOLEAN, dirty : BOOLEAN, tag : Nat, ver : 0 .. MaxVersion + 1]
NoLine == [valid |-> FALSE, dirty |-> FALSE, tag |-> 0, ver |-> Nothing]

In(range) == range.slpn .. range.slpn + range.nlp - 1

-----------------------------------------------------------------------------
(* Where a unit lives. *)

lpn(a)  == a \div cfg.lines          \* its page in the FTL
unit(a) == a % cfg.lines             \* its I/O unit in that page

calcSetIndex(a) == a % SetSize

\* calcIOPosition(): the slot of evictData.
calcIOPosition(a) ==
  LET tmp == a % (cfg.parallelIO * cfg.lines)
  IN  <<tmp % cfg.lines, tmp \div cfg.lines>>

\* Mutant of ValidWays: only dirty lines are hit.
ValidWaysDirty(c, a) == {w \in Way : LET line == c[calcSetIndex(a)][w]
                                     IN  line.valid /\ line.dirty /\ line.tag = a}

\* getValidWay() and getEmptyWay(); among empty ways the oldest is taken, here any.
ValidWays(c, a) == {w \in Way : LET line == c[calcSetIndex(a)][w]
                                IN  line.valid /\ line.tag = a}
EmptyWays(c, s) == {w \in Way : ~c[s][w].valid}

Lines      == Set \X Way
At(x)      == cache[x[1]][x[2]]
ValidLines == {x \in Lines : At(x).valid}

-----------------------------------------------------------------------------
(* Requests to the FTL: write the units of a page, discard pages. *)

\* The version ver of unit a is written with the I/O flags units.
FtlWrite(f, a, units, ver) ==
  [b \in LCA |-> CASE b = a /\ unit(b) \in units -> ver
                   [] b # a /\ lpn(b) = lpn(a) /\ unit(b) \in units -> Junk
                   [] OTHER -> f[b]]

FtlDiscard(f, pages) == [b \in LCA |-> IF lpn(b) \in pages THEN Nothing ELSE f[b]]

-----------------------------------------------------------------------------
(* Eviction for a write: pick one line per slot, and at least one of the set. *)

Slot(x) == calcIOPosition(At(x).tag)

\* Slot a line is picked from: with MODE_SUPERPAGE the slots of a row are merged
\* into the last one.
Slots(x) == IF cfg.superPage THEN <<Slot(x)[1], cfg.parallelIO - 1>> ELSE Slot(x)

\* compareFunction keeps one valid line of each slot.
Picks == {E \in SUBSET ValidLines :
            /\ \A x, y \in E : Slots(x) = Slots(y) => x = y
            /\ {Slots(x) : x \in E} = {Slots(x) : x \in ValidLines}}

\* Mutant of Evictions: no line of the set is put in when none is picked.
EvictionsUnforced(set) == Picks

\* With no line of the set picked, one is put in its own slot.
Evictions(set) ==
  LET have(E) == \E x \in E : x[1] = set
  IN  {E \in Picks : have(E)}
      \cup {(p[1] \ {y \in p[1] : Slots(y) = Slot(p[2])}) \cup {p[2]} :
              p \in {q \in Picks \X ValidLines : ~have(q[1]) /\ q[2][1] = set}}

\* evictCache(): the dirty lines among those evicted are written.
EvictedFlash(E) ==
  [b \in LCA |-> IF \E x \in E : At(x).valid /\ At(x).dirty /\ At(x).tag = b
                 THEN At(CHOOSE x \in E : At(x).tag = b).ver ELSE flash[b]]

EvictedCache(E) ==
  [s \in Set |-> [w \in Way |-> IF <<s, w>> \in E
                                THEN [cache[s][w] EXCEPT !.valid = FALSE,
                                        !.dirty = FALSE, !.tag = 0]
                                ELSE cache[s][w]]]

-----------------------------------------------------------------------------
(* Requests of the host. *)

\* checkSequential(): a read that goes on where the last one ended counts, until
\* read ahead is on.  Parts of one request of the host only move the place.
checkSequential(a, offset, length, same) ==
  LET d == readDetect
      here == [d EXCEPT !.unit = a, !.end = offset + length]
      hits == Min({d.hitCounter + 1, PrefetchCount})
      accesses == Min({d.accessCounter + d.end, PrefetchRatio})
  IN  CASE same -> here
        [] ~same /\ 2 * d.unit + d.end # 2 * a + offset ->
             [here EXCEPT !.hitCounter = 0, !.accessCounter = 0, !.enabled = FALSE]
        [] ~same /\ 2 * d.unit + d.end = 2 * a + offset /\ ~d.enabled ->
             [here EXCEPT !.hitCounter = hits, !.accessCounter = accesses,
                          !.enabled = hits = PrefetchCount /\ accesses = PrefetchRatio]
        [] OTHER -> here

\* The loop of read() that finds a way for each unit which is not cached.  A
\* dirty line in its way is noted for eviction in its slot, then marked clean and
\* valid, with its old tag.  x is the cache, what is noted, and the read list.
Placed(x, a) ==
  LET s == calcSetIndex(a)
      empty == EmptyWays(x.cache, s)
      noted(w) == IF empty = {} /\ x.cache[s][w].dirty
                  THEN calcIOPosition(x.cache[s][w].tag) :> <<s, w>> ELSE <<>>
  IN  IF ValidWays(x.cache, a) # {} THEN {x}
      ELSE {[cache |-> [x.cache EXCEPT ![s][w].valid = TRUE, ![s][w].dirty = FALSE],
             noted |-> noted(w) @@ x.noted,
             list  |-> Append(x.list, [unit |-> a, at |-> <<s, w>>])] :
              w \in IF empty = {} THEN Way ELSE empty}

\* evictCache() runs after that, finds nothing dirty to write and invalidates the
\* lines noted; then each line gets its tag.
ReadIn(x) ==
  [s \in Set |-> [w \in Way |->
     LET line == IF <<s, w>> \in Range(x.noted)
                 THEN [x.cache[s][w] EXCEPT !.valid = FALSE, !.tag = 0]
                 ELSE x.cache[s][w]
         here == {i \in DOMAIN x.list : x.list[i].at = <<s, w>>}
         read == x.list[Max(here)].unit
     IN  IF here = {} THEN line
         ELSE [line EXCEPT !.tag = read,
                           !.ver = IF read \in LCA THEN flash[read] ELSE Nothing]]]

\* What that loop may have come to after each of count units from begin on.
PlacedAfter(begin, count) ==
  LET placed[i \in 0 .. count] ==
        IF i = 0 THEN {[cache |-> cache, noted |-> <<>>, list |-> <<>>]}
        ELSE UNION {Placed(x, begin + i - 1) : x \in placed[i - 1]}
  IN  placed

\* What the cache may be after they were read in.
ReadInFrom(begin, count) == {ReadIn(x) : x \in PlacedAfter(begin, count)[count]}

\* From ICL_GENERIC_CACHE_READ on: with detection d, read in or read ahead.
ReadAhead(d, begin) ==
  LET count == IF d.enabled THEN cfg.ahead ELSE 1 IN
  /\ cache' \in ReadInFrom(begin, count)
  /\ prefetch' = IF d.enabled
                 THEN [trigger |-> begin + count \div 2, last |-> begin + count]
                 ELSE prefetch

\* read(): of a unit that is not cached; a hit on the trigger reads on from
\* where the last read ahead ended.
Read(a, offset, length, same) ==
  LET d == IF cfg.ahead = 0 THEN readDetect ELSE checkSequential(a, offset, length, same) IN
  /\ cfg.read
  /\ readDetect' = d
  /\ \/ ValidWays(cache, a) = {} /\ ReadAhead(d, a)
     \/ /\ ValidWays(cache, a) # {}
        /\ cfg.ahead > 0 /\ a = prefetch.trigger
        /\ ReadAhead(d, prefetch.last)
     \/ /\ ValidWays(cache, a) # {}
        /\ cfg.ahead = 0 \/ a # prefetch.trigger
        /\ UNCHANGED <<cache, prefetch>>
  /\ UNCHANGED <<cfg, flash, latest, version, corrupted>>

\* The pages of a request of the host follow each other; the first request has
\* the number that lastRequest begins with (generic_cache.hh:59).
HostRead(a, offset, length, same) ==
  /\ same => \/ a = readDetect.unit + 1 /\ offset = 0 /\ readDetect.end = 2
             \/ readDetect.end = 0
  /\ Read(a, offset, length, same)

\* Mutant of Put: a write is not seen to be partial.
PutClean(s, w, a, dirty) ==
  [cache EXCEPT ![s][w] = [valid |-> TRUE, dirty |-> FALSE, tag |-> a,
                           ver |-> version + 1]]

\* The line of a write.
Put(s, w, a, dirty) ==
  [cache EXCEPT ![s][w] = [valid |-> TRUE, dirty |-> dirty, tag |-> a,
                           ver |-> version + 1]]

\* write(): whole lines go to the FTL at once, partial ones only when they
\* leave the cache.
WriteFlash(a, partial) ==
  IF partial /\ cfg.write THEN flash
  ELSE FtlWrite(flash, a, {unit(a)}, version + 1)

HostWrote(a) ==
  /\ version < cfg.writes
  /\ version' = version + 1
  /\ latest' = [latest EXCEPT ![a] = version + 1]
  /\ UNCHANGED <<cfg, prefetchVars>>

WriteThrough(a, partial) ==
  /\ ~cfg.write
  /\ HostWrote(a)
  /\ flash' = WriteFlash(a, partial)
  /\ UNCHANGED <<cache, corrupted>>

WriteHit(a, partial) ==
  /\ cfg.write
  /\ HostWrote(a)
  /\ \E w \in ValidWays(cache, a) : cache' = Put(calcSetIndex(a), w, a, partial)
  /\ flash' = WriteFlash(a, partial)
  /\ UNCHANGED corrupted

WriteEmpty(a, partial) ==
  /\ cfg.write
  /\ ValidWays(cache, a) = {}
  /\ HostWrote(a)
  /\ \E w \in EmptyWays(cache, calcSetIndex(a)) :
       cache' = Put(calcSetIndex(a), w, a, partial)
  /\ flash' = WriteFlash(a, partial)
  /\ UNCHANGED corrupted

\* Only this line is dirty even if the write was whole.
WriteEvict(a, partial) ==
  LET s == calcSetIndex(a) IN
  /\ cfg.write
  /\ ValidWays(cache, a) = {}
  /\ EmptyWays(cache, s) = {}
  /\ HostWrote(a)
  /\ \E E \in Evictions(s) :
       LET evicted == EvictedCache(E)
           empty   == {w \in Way : ~evicted[s][w].valid}
           stored  == EvictedFlash(E)
       IN  /\ flash' = IF partial THEN stored
                       ELSE [stored EXCEPT ![a] = version + 1]
           /\ IF empty = {}
              THEN corrupted' = TRUE /\ cache' = evicted
              ELSE /\ corrupted' = corrupted
                   /\ \E w \in empty :
                        cache' = [evicted EXCEPT ![s][w] =
                          [valid |-> TRUE, dirty |-> TRUE, tag |-> a,
                           ver |-> version + 1]]

Caching == cfg.read \/ cfg.write

\* The lines whose tag is in a range, valid or not, in the order of the loops.
Matching(range) == {x \in Lines : At(x).tag \in In(range)}
Before(x, y)    == x[1] < y[1] \/ (x[1] = y[1] /\ x[2] <= y[2])

InvalidateLines(S) ==
  [s \in Set |-> [w \in Way |-> [cache[s][w] EXCEPT
                                   !.valid = @ /\ <<s, w>> \notin S]]]

\* flush(): the request is reused from line to line and its I/O flags only grow.
FlushedFlash(range) ==
  LET D == {x \in Matching(range) : At(x).dirty}
      flags(x) == {unit(At(y).tag) : y \in {z \in D : Before(z, x)}}
      touching(b) == {x \in D : lpn(At(x).tag) = lpn(b) /\ unit(b) \in flags(x)}
      last(b) == CHOOSE x \in touching(b) : \A y \in touching(b) : Before(y, x)
  IN  [b \in LCA |-> CASE touching(b) = {} -> flash[b]
                       [] touching(b) # {} /\ At(last(b)).tag = b
                            -> At(last(b)).ver
                       [] OTHER -> Junk]

Flush(range) ==
  /\ cfg.flush
  /\ Caching
  /\ flash' = FlushedFlash(range)
  /\ cache' = InvalidateLines(Matching(range))
  /\ UNCHANGED <<cfg, latest, version, corrupted, prefetchVars>>

HostDiscarded(range) ==
  latest' = [a \in LCA |-> IF a \in In(range) THEN Nothing ELSE latest[a]]

\* trim(): the pages of the lines found are discarded, and no others.
Trim(range) ==
  /\ Caching
  /\ flash' = FtlDiscard(flash, {lpn(At(x).tag) : x \in Matching(range)})
  /\ cache' = InvalidateLines(Matching(range))
  /\ HostDiscarded(range)
  /\ UNCHANGED <<cfg, version, corrupted, prefetchVars>>

\* format(): the range is converted to pages, rounding its length, not its end.
Format(range) ==
  LET slpn == lpn(range.slpn)
      nlp  == (range.nlp - 1) \div cfg.lines + 1
  IN  /\ flash' = FtlDiscard(flash, slpn .. slpn + nlp - 1)
      /\ cache' = IF Caching
                  THEN InvalidateLines(Matching(range) \cap ValidLines)
                  ELSE cache
      /\ HostDiscarded(range)
      /\ UNCHANGED <<cfg, version, corrupted, prefetchVars>>

-----------------------------------------------------------------------------
Init ==
  /\ cfg \in Configs
  /\ cache = [s \in Set |-> [w \in Way |-> NoLine]]
  /\ flash = [a \in LCA |-> Nothing]
  /\ latest = [a \in LCA |-> Nothing]
  /\ version = 0
  /\ corrupted = FALSE
  /\ readDetect = [unit |-> 0, end |-> 0, hitCounter |-> 0, accessCounter |-> 0,
                   enabled |-> FALSE]
  /\ prefetch = [trigger |-> Never, last |-> 0]

Next ==
  /\ ~corrupted
  /\ \/ \E a \in LCA, part \in Parts, same \in BOOLEAN : HostRead(a, part[1], part[2], same)
     \/ \E a \in LCA, partial \in BOOLEAN : WriteThrough(a, partial)
     \/ \E a \in LCA, partial \in BOOLEAN : WriteHit(a, partial)
     \/ \E a \in LCA, partial \in BOOLEAN : WriteEmpty(a, partial)
     \/ \E a \in LCA, partial \in BOOLEAN : WriteEvict(a, partial)
     \/ \E range \in Ranges : Flush(range)
     \/ \E range \in Ranges : Trim(range)
     \/ \E range \in Ranges : Format(range)

Spec == Init /\ [][Next]_vars

-----------------------------------------------------------------------------
(* Properties. *)

\* Lines, versions and the configuration stay in their ranges; a line that is
\* not valid needs no other rule (generic_cache.hh).
TypeOK ==
  /\ cfg \in Configs
  /\ cache \in [Set -> [Way -> Line]]
  /\ flash \in [LCA -> 0 .. MaxVersion + 1]
  /\ latest \in [LCA -> 0 .. MaxVersion]
  /\ version \in 0 .. cfg.writes
  /\ corrupted \in BOOLEAN
  /\ readDetect \in [unit : LCA, end : 0 .. 2, hitCounter : 0 .. PrefetchCount,
                     accessCounter : 0 .. PrefetchRatio, enabled : BOOLEAN]
  /\ prefetch \in [trigger : {Never} \cup Nat, last : Nat]

\* A unit is cached at most once, in the set its address selects: no request
\* can hit one copy and leave a newer one behind.
OneCopy ==
  \A x, y \in ValidLines :
    /\ calcSetIndex(At(x).tag) = x[1]
    /\ At(x).tag = At(y).tag => x = y

\* An eviction for a write always frees a way in the set it is for, whatever
\* slots the lines compete for ("Cache corrupted!", generic_cache.cc:707).
EvictionFreesSet == ~corrupted

\* With at most one kind of caching, one unit per page and no flush, whatever the
\* host wrote last is in the flash or in a dirty line on its way there.  (A read
\* miss may drop a dirty line, see DirtyReachesFlash; a trim discards the whole
\* page; and flush() leaves lines dirty that it wrote and invalidated, and
\* writes them again the next time.)
Newest(a) == \/ flash[a] = latest[a]
             \/ \E x \in ValidLines : /\ At(x).tag = a /\ At(x).dirty
                                      /\ At(x).ver = latest[a]
NewestKept ==
  cfg.lines = 1 /\ ~cfg.flush /\ ~(cfg.read /\ cfg.write)
    => \A a \in LCA : latest[a] # Nothing => Newest(a)

\* "We need to evict data before write" (generic_cache.cc:454): a dirty line
\* whose unit is not discarded leaves the cache only for the flash.
DirtyReachesFlash ==
  [][\A x \in ValidLines :
       LET a == At(x).tag IN
       At(x).dirty /\ latest'[a] = At(x).ver =>
         \/ flash'[a] = latest'[a]
         \/ \E y \in Lines : LET line == cache'[y[1]][y[2]]
                             IN  line.valid /\ line.tag = a]_vars
=============================================================================
