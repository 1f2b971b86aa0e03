---------------------------- MODULE FlashBackend ----------------------------
(***************************************************************************)
(* What lies below the caches and the FTL: the DRAM that holds cache lines *)
(* and mapping tables, and the flash behind the parallelism abstraction    *)
(* layer.  A host request reads (and writes) its mapping in the DRAM and   *)
(* goes to the flash when that ends; garbage collection reads its mappings *)
(* first, then copies and erases.                                          *)
(* Ticks are computed ahead of the clock, so requests arrive in any order. *)
(***************************************************************************)
EXTENDS Pal, Dram

CONSTANTS
  Delay,   \* bound: how far ahead of the clock a request may be
  MaxWork  \* bound: accesses to the DRAM and operations on pages in a behaviour

ASSUME BackendAssumption == Delay \subseteq Nat /\ RefreshPeriod < FlushPeriod

VARIABLE now  \* the clock: the last event that the engine ran

vars == <<palVars, dramVars, now>>

Init == PalInit /\ DramInit /\ now = 0

\* Accesses of given numbers of pages, one after the other, from a tick on; the
\* states of the DRAM after them (one).
After(pages, tick, scheduling) ==
  {FoldLeft(LAMBDA s, n : Access(s, n, scheduling),
            [tick |-> tick, last |-> lastDRAMAccess, accesses |-> accesses], pages)}
SetDram(d) == lastDRAMAccess' = d.last /\ accesses' = d.accesses

Arrival == {now + d : d \in Delay}
Block == 0 .. superBlock - 1
Page == 0 .. Size["Page"] - 1
FlagSet == {{f} : f \in Flag} \cup {Flag}

RoomFor(n) == Len(served) + Len(accesses) + n <= MaxWork

\* A cache line is moved, or a mapping read; while the cache reads ahead or
\* writes through, the schedule is switched off.
CacheAccess(pages, tick, scheduling) ==
  /\ RoomFor(1)
  /\ \E d \in After(<<pages>>, tick, scheduling) : SetDram(d)
  /\ UNCHANGED <<palVars, now>>

\* Requests of the host, through the mapping table.
HostRead(block, page, flags, tick) ==
  /\ RoomFor(1 + Cardinality(flags))
  /\ \E d \in After(<<1>>, tick, TRUE) : SetDram(d) /\ read(block, page, flags, d.tick)
  /\ UNCHANGED now
HostWrite(block, page, flags, tick) ==
  /\ RoomFor(2 + Cardinality(flags))
  /\ \E d \in After(<<1, 1>>, tick, TRUE) : SetDram(d) /\ write(block, page, flags, d.tick)
  /\ UNCHANGED now

\* Garbage collection, its accesses to the mapping table made: it reads pages
\* and writes them elsewhere (one I/O unit, or a superpage), then erases.
Copy(block, page, flags, tick) ==
  /\ RoomFor(Cardinality(flags))
  /\ read(block, page, flags, tick) \/ write(block, page, flags, tick)
  /\ UNCHANGED <<dramVars, now>>
Erase(block, tick) ==
  /\ RoomFor(pageInSuperPage)
  /\ erase(block, tick)
  /\ UNCHANGED <<dramVars, now>>

\* The events of the clock, each once.
Refresh ==
  /\ now < RefreshPeriod /\ now' = RefreshPeriod
  /\ AutoRefresh(RefreshPeriod)
  /\ UNCHANGED palVars
Flush ==
  /\ now = RefreshPeriod /\ now' = FlushPeriod
  /\ FlushFreeSlots(FlushPeriod)
  /\ UNCHANGED dramVars

Next ==
  \/ \E tick \in Arrival :
       \/ CacheAccess(2, tick, TRUE)
       \/ CacheAccess(1, tick, FALSE)
       \/ \E block \in Block, page \in Page, flags \in FlagSet :
            \/ HostRead(block, page, flags, tick)
            \/ HostWrite(block, page, flags, tick)
            \/ Copy(block, page, flags, tick)
       \/ \E block \in Block : Erase(block, tick)
  \/ Refresh
  \/ Flush

Spec == Init /\ [][Next]_vars

-----------------------------------------------------------------------------
\* Whatever the order in which requests arrive, the DRAM, each channel and each
\* die serve one at a time.
OneAtATime == DramApart /\ ReservationsApart
=============================================================================
